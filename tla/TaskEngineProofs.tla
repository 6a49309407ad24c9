-------------------------- MODULE TaskEngineProofs --------------------------
(***************************************************************************)
(* Theorems about TaskEngine, for any tasks, messages, executions and      *)
(* number of slots.                                                        *)
(*                                                                         *)
(* First part: every variable keeps its type and every start slot is       *)
(* accounted for.  TypeOK is not inductive: a run may only step from a     *)
(* place its code has, with a task in hand, and the slot count only stays  *)
(* above zero because whoever gives a slot back is one of those counted.   *)
(* Hence Placed and SlotAccounting in ProcInv; DataInv is the rest of      *)
(* TypeOK.                                                                 *)
(*                                                                         *)
(* Second part: the committing mark, who may end a task, who may take a    *)
(* canceled one back, and the promise that a free slot and a waiting task  *)
(* meet in pump(); each an invariant relative to ProcInv and DataInv.      *)
(*                                                                         *)
(* Third part: the engine implements TaskLifecycle.  The mapping of module *)
(* TaskRefinement takes every step of the engine to a step of the          *)
(* lifecycle or to none, under what the first two parts establish and      *)
(* LifeInv.                                                                *)
(*                                                                         *)
(* Fourth part: messages reach the agent oldest first where nobody         *)
(* interrupts a turn (OrderInv), and where users only follow up none is    *)
(* lost and a task runs one turn at a time: every task is in one hand at   *)
(* most, or waits in the queue, and its row, its label and what the hand   *)
(* carries fit the place it has come to (FollowInv).                       *)
(***************************************************************************)
EXTENDS TaskRefinement, TLAPS, FiniteSetTheorems, SequenceTheorems

(* The inductive invariant *)

RunPcs      == {"idle"} \cup SlotPcs \cup FinishPcs \cup DeliverPcs
ApiPcs      == {"idle"} \cup RequestPcs \cup DeliverPcs
RecoveryPcs == {"idle", "recover"} \cup DeliverPcs
CarryPcs    == {"f_check", "f_queue", "f_interrupt"}

\* Every goroutine stands where its code can stand, works on a task, and the
\* request that carries a follow-up carries a message.
Placed ==
  /\ \A r \in Runs : proc[r].pc \in RunPcs
  /\ proc[Api].pc \in ApiPcs
  /\ proc[Recovery].pc \in RecoveryPcs
  /\ \A p \in Procs : proc[p].pc \notin {"idle", "recover"} => proc[p].task \in Tasks
  /\ proc[Api].pc \in CarryPcs => proc[Api].msg \in Msgs

\* The part of the invariant that is about the goroutines and their slots.
ProcInv ==
  /\ proc \in [Procs -> Proc] /\ active \in 0..MaxConcurrent
  /\ Placed /\ SlotAccounting

\* The part about the values of everything else.
DataInv ==
  /\ row \in [Tasks -> Row] /\ pending \in [Tasks -> Seq(Msgs)] /\ creating \subseteq Tasks
  /\ queue \in Seq(Tasks) /\ mem \in [Tasks -> Mem] /\ pumping \in BOOLEAN
  /\ sent \in Seq(Msgs) /\ handed \subseteq Msgs /\ reported \subseteq Msgs
  /\ ends \in [Tasks -> Nat] /\ cancels \in Nat /\ restarts \in Nat

-----------------------------------------------------------------------------
(* Goroutines and their slots *)

\* p goes on at one of the places S.
Moves(p, S) ==
  \E v \in Proc : /\ Become(p, v)
                  /\ v.pc \in S
                  /\ v.pc \notin {"idle", "recover"} => v.task \in Tasks
                  /\ v.pc \in CarryPcs => v.msg \in Msgs

\* A goroutine that does nothing.
LEMMA IdleProc == Idle \in Proc /\ Idle.pc = "idle"
BY EngineAssumption DEF Idle, Proc, Pcs, Status

\* The places of each kind of goroutine are places.
LEMMA KnownPcs == \A l \in RunPcs \cup ApiPcs \cup RecoveryPcs : l \in Pcs
BY DEF RunPcs, ApiPcs, RecoveryPcs, Pcs

\* Which sets of places do not meet.
LEMMA PcsApart ==
  /\ SlotPcs \cap ApiPcs = {} /\ SlotPcs \cap (FinishPcs \cup DeliverPcs) = {}
  /\ "idle" \notin SlotPcs \cup FinishPcs \cup DeliverPcs
  /\ "recover" \notin RunPcs \cup ApiPcs /\ CarryPcs \cap RunPcs = {}
BY DEF RunPcs, ApiPcs, CarryPcs, SlotPcs, FinishPcs, DeliverPcs, RequestPcs

\* A move changes the place of one goroutine and of no other.
LEMMA MovesApart ==
  ASSUME proc \in [Procs -> Proc], NEW p \in Procs, NEW S, Moves(p, S)
  PROVE  /\ proc' \in [Procs -> Proc]
         /\ \A q \in Procs : q # p => proc'[q] = proc[q]
         /\ proc'[p].pc \in S
         /\ proc'[p].pc \notin {"idle", "recover"} => proc'[p].task \in Tasks
         /\ proc'[p].pc \in CarryPcs => proc'[p].msg \in Msgs
BY DEF Moves, Become

\* A move within the places of its goroutine keeps everybody placed.
LEMMA MovesPlaced ==
  ASSUME proc \in [Procs -> Proc], Placed, NEW p \in Procs, NEW S, Moves(p, S),
         p \in Runs => S \subseteq RunPcs,
         p = Api => S \subseteq ApiPcs,
         p = Recovery => S \subseteq RecoveryPcs
  PROVE  Placed'
BY MovesApart, EngineAssumption DEF Placed, Procs, EngineAssumption

\* Slots are counted by the places of the runs alone.
LEMMA SlotsFinite ==
  /\ IsFiniteSet({r \in Runs : HoldsSlot(r)})
  /\ Cardinality({r \in Runs : HoldsSlot(r)}) \in Nat
BY EngineAssumption, FS_Subset, FS_CardinalityType DEF EngineAssumption

\* While somebody holds a slot, some slot is taken.
LEMMA SlotHeld ==
  ASSUME SlotAccounting, NEW r \in Runs, HoldsSlot(r)
  PROVE  active \in Nat \ {0}
<1>1. {s \in Runs : HoldsSlot(s)} # {}
  OBVIOUS
<1> QED
  BY <1>1, SlotsFinite, FS_EmptySet DEF SlotAccounting

\* A step after which the same runs hold slots.
LEMMA SlotKept ==
  ASSUME SlotAccounting, active' = active,
         \A r \in Runs : proc'[r].pc \in SlotPcs <=> proc[r].pc \in SlotPcs
  PROVE  SlotAccounting'
<1>1. {r \in Runs : HoldsSlot(r)}' = {r \in Runs : HoldsSlot(r)}
  BY DEF HoldsSlot
<1> QED
  BY <1>1 DEF SlotAccounting

\* A step after which one run less holds a slot.
LEMMA SlotReleased ==
  ASSUME SlotAccounting, active' = active - 1, NEW r \in Runs, HoldsSlot(r),
         proc'[r].pc \notin SlotPcs,
         \A q \in Runs : q # r => proc'[q] = proc[q]
  PROVE  SlotAccounting'
<1>1. {q \in Runs : HoldsSlot(q)}' = {q \in Runs : HoldsSlot(q)} \ {r}
  BY DEF HoldsSlot
<1>2. Cardinality({q \in Runs : HoldsSlot(q)} \ {r}) = Cardinality({q \in Runs : HoldsSlot(q)}) - 1
  BY SlotsFinite, FS_RemoveElement
<1> QED
  BY <1>1, <1>2 DEF SlotAccounting

\* A step after which one run more holds a slot.
LEMMA SlotTaken ==
  ASSUME SlotAccounting, active' = active + 1, NEW r \in Runs, ~HoldsSlot(r),
         proc'[r].pc \in SlotPcs,
         \A q \in Runs : q # r => proc'[q] = proc[q]
  PROVE  SlotAccounting'
<1>1. {q \in Runs : HoldsSlot(q)}' = {q \in Runs : HoldsSlot(q)} \cup {r}
  BY DEF HoldsSlot
<1>2. Cardinality({q \in Runs : HoldsSlot(q)} \cup {r}) = Cardinality({q \in Runs : HoldsSlot(q)}) + 1
  BY SlotsFinite, FS_AddElement
<1> QED
  BY <1>1, <1>2 DEF SlotAccounting

\* A run that gives its slot back.
LEMMA ReleaseStep ==
  ASSUME ProcInv, NEW r \in Runs, HoldsSlot(r), ReleaseSlot(r)
  PROVE  ProcInv'
<1>1. Moves(r, {"idle"})
  BY IdleProc DEF ReleaseSlot, Moves, CarryPcs
<1>2. r \in Procs
  BY DEF Procs
<1>3. Placed'
  BY <1>1, <1>2, MovesPlaced, EngineAssumption
     DEF ProcInv, RunPcs, ApiPcs, RecoveryPcs, EngineAssumption
<1>4. SlotAccounting'
  BY <1>1, <1>2, MovesApart, PcsApart, SlotReleased DEF ProcInv, ReleaseSlot, Procs
<1>5. active' \in 0..MaxConcurrent
  BY SlotHeld, EngineAssumption DEF ProcInv, ReleaseSlot, EngineAssumption
<1> QED
  BY <1>1, <1>2, <1>3, <1>4, <1>5, MovesApart DEF ProcInv

\* A run that goes on without taking or giving a slot.
LEMMA RunStep ==
  ASSUME ProcInv, NEW r \in Runs, NEW S, Moves(r, S), active' = active,
         S \subseteq RunPcs,
         IF HoldsSlot(r) THEN S \subseteq SlotPcs ELSE S \cap SlotPcs = {}
  PROVE  ProcInv'
<1>1. r \in Procs
  BY DEF Procs
<1>2. Placed'
  BY <1>1, MovesPlaced, EngineAssumption DEF ProcInv, EngineAssumption
<1>3. \A q \in Runs : proc'[q].pc \in SlotPcs <=> proc[q].pc \in SlotPcs
  BY <1>1, MovesApart DEF ProcInv, HoldsSlot, Procs
<1>4. SlotAccounting'
  BY <1>3, SlotKept DEF ProcInv
<1> QED
  BY <1>1, <1>2, <1>4, MovesApart DEF ProcInv

\* Api and Recovery never hold a slot.
LEMMA OtherStep ==
  ASSUME ProcInv, NEW p \in {Api, Recovery}, NEW S, Moves(p, S), active' = active,
         S \subseteq (IF p = Api THEN ApiPcs ELSE RecoveryPcs)
  PROVE  ProcInv'
<1>1. p \in Procs /\ p \notin Runs
  BY EngineAssumption DEF Procs, EngineAssumption
<1>2. Placed'
  BY <1>1, MovesPlaced, EngineAssumption DEF ProcInv, EngineAssumption
<1>3. \A q \in Runs : proc'[q].pc \in SlotPcs <=> proc[q].pc \in SlotPcs
  BY <1>1, MovesApart DEF ProcInv, Procs
<1>4. SlotAccounting'
  BY <1>3, SlotKept DEF ProcInv
<1> QED
  BY <1>1, <1>2, <1>4, MovesApart DEF ProcInv

\* Nobody moves.
LEMMA StillStep ==
  ASSUME ProcInv, UNCHANGED <<proc, active>>
  PROVE  ProcInv'
<1>1. SlotAccounting'
  BY SlotKept DEF ProcInv
<1> QED
  BY <1>1 DEF ProcInv, Placed


-----------------------------------------------------------------------------
(* ProcInv is inductive *)

\* Going on to another place without new baggage is a move.
LEMMA GotoMoves ==
  ASSUME ProcInv, NEW p \in Procs, proc[p].task \in Tasks,
         NEW l \in Pcs \ CarryPcs, Goto(p, l)
  PROVE  Moves(p, {l})
<1>1. [proc[p] EXCEPT !.pc = l] \in Proc /\ [proc[p] EXCEPT !.pc = l].task = proc[p].task
  BY DEF ProcInv, Proc
<1>2. [proc[p] EXCEPT !.pc = l].pc = l
  BY DEF ProcInv, Proc
<1> QED
  BY <1>1, <1>2 DEF Moves, Goto

\* startOne: every step moves the run within its slot, or gives the slot back.
LEMMA StartProc ==
  ASSUME ProcInv, DataInv, NEW r \in Runs, Start(r)
  PROVE  ProcInv'
<1> DEFINE t == proc[r].task
<1>1. r \in Procs /\ proc[r] \in Proc /\ \A l \in SlotPcs : l \in Pcs \ CarryPcs /\ l \in RunPcs
  BY KnownPcs, PcsApart DEF Procs, ProcInv, RunPcs
<1>2. proc[r].pc \in SlotPcs /\ HoldsSlot(r)
  BY DEF Start, StartCheck, StartGate, StartClaim, Launch, Register, StartFails,
         FailEvent, FailFinish, HoldsSlot, SlotPcs
<1>3. t \in Tasks
  BY <1>1, <1>2, PcsApart DEF ProcInv, Placed, RunPcs
<1>4. row[t].prompt \in Msgs \cup {None} /\ mem[t].canceled \in BOOLEAN
  BY <1>3 DEF DataInv, Row, Mem
<1>5. CASE ReleaseSlot(r)
  BY <1>2, <1>5, ReleaseStep
<1>6. CASE \E l \in SlotPcs : Goto(r, l) /\ UNCHANGED active
  <2>1. PICK l \in SlotPcs : Goto(r, l) /\ active' = active
    BY <1>6
  <2>2. Moves(r, {l})
    BY <1>1, <1>3, <2>1, GotoMoves
  <2>3. {l} \subseteq SlotPcs /\ {l} \subseteq RunPcs
    BY <1>1
  <2> QED
    BY <1>2, <2>1, <2>2, <2>3, RunStep
<1>7. ASSUME NEW v \in Proc, Become(r, v), v.pc \in SlotPcs, v.task = t, active' = active
      PROVE  ProcInv'
  <2>1. Moves(r, SlotPcs)
    BY <1>1, <1>3, <1>7 DEF Moves
  <2> QED
    BY <1>1, <1>2, <1>7, <2>1, RunStep
<1>8. CASE StartCheck(r)
  <2> DEFINE v == [proc[r] EXCEPT !.pc = "gate", !.msg = row[t].prompt]
  <2>1. v \in Proc /\ v.pc = "gate" /\ v.task = t
    BY <1>1, <1>4 DEF Proc, SlotPcs
  <2> QED
    BY <1>5, <1>7, <1>8, <2>1 DEF StartCheck, SlotPcs
<1>9. CASE StartGate(r)
  BY <1>5, <1>6, <1>9 DEF StartGate, SlotPcs
<1>10. CASE StartClaim(r)
  <2> DEFINE v == [proc[r] EXCEPT !.pc = "launch", !.msg = row[t].prompt]
  <2>1. v \in Proc /\ v.pc = "launch" /\ v.task = t
    BY <1>1, <1>4 DEF Proc, SlotPcs
  <2> QED
    BY <1>5, <1>7, <1>10, <2>1 DEF StartClaim, SlotPcs
<1>11. CASE Launch(r)
  BY <1>5, <1>6, <1>11 DEF Launch, SlotPcs
<1>12. CASE Register(r)
  <2> DEFINE v == [proc[r] EXCEPT !.pc = "live", !.msg = None, !.killed = mem[t].canceled]
  <2>1. v \in Proc /\ v.pc = "live" /\ v.task = t
    BY <1>1, <1>4 DEF Proc, SlotPcs
  <2> QED
    BY <1>5, <1>7, <1>12, <2>1 DEF Register, SlotPcs
<1>13. CASE StartFails(r)
  <2> DEFINE v == [proc[r] EXCEPT !.pc = "fail_event", !.allowQueued = (proc[r].pc = "gate")]
  <2>1. v \in Proc /\ v.pc = "fail_event" /\ v.task = t
    BY <1>1, <1>4 DEF Proc, SlotPcs
  <2> QED
    BY <1>5, <1>7, <1>13, <2>1 DEF StartFails, SlotPcs
<1>14. CASE FailEvent(r)
  BY <1>6, <1>14 DEF FailEvent, SlotPcs
<1>15. CASE FailFinish(r)
  BY <1>5, <1>15 DEF FailFinish
<1> QED
  BY <1>8, <1>9, <1>10, <1>11, <1>12, <1>13, <1>14, <1>15 DEF Start

\* From the exit of the process on a run holds no slot.
LEMMA EndProc ==
  ASSUME ProcInv, DataInv, NEW r \in Runs, RunEnd(r)
  PROVE  ProcInv'
<1> DEFINE t == proc[r].task
           S == {"idle"} \cup FinishPcs \cup DeliverPcs
<1>1. r \in Procs /\ proc[r] \in Proc /\ \A l \in S : l \in Pcs \ CarryPcs /\ l \in RunPcs
  BY KnownPcs, PcsApart DEF Procs, ProcInv, RunPcs
<1>2. proc[r].pc \in FinishPcs /\ ~HoldsSlot(r)
  BY PcsApart DEF RunEnd, FinalizeSucceeds, FinalizeFails, Promote, Requeue, Reread, Finish,
                  Unwind, HoldsSlot, FinishPcs
<1>3. t \in Tasks
  BY <1>1, <1>2, PcsApart DEF ProcInv, Placed, RunPcs
<1>4. S \subseteq RunPcs /\ S \cap SlotPcs = {}
  BY PcsApart DEF RunPcs
<1>5. ASSUME NEW v \in Proc, Become(r, v), v.pc \in S, v.pc # "idle" => v.task = t,
             active' = active
      PROVE  ProcInv'
  <2>1. Moves(r, S)
    BY <1>1, <1>3, <1>5 DEF Moves
  <2> QED
    BY <1>2, <1>4, <1>5, <2>1, RunStep
<1>6. ASSUME NEW l \in S, Goto(r, l), active' = active
      PROVE  ProcInv'
  <2>1. [proc[r] EXCEPT !.pc = l] \in Proc /\ [proc[r] EXCEPT !.pc = l].pc = l
        /\ [proc[r] EXCEPT !.pc = l].task = t
    BY <1>1 DEF Proc
  <2> QED
    BY <1>5, <1>6, <2>1 DEF Goto
<1>7. CASE FinalizeSucceeds(r)
  <2> DEFINE l == IF proc[r].msg # None THEN "write"
                  ELSE IF proc[r].wasCanceled THEN "reread" ELSE "pop"
  <2>1. l \in S
    BY DEF FinishPcs, DeliverPcs
  <2> HIDE DEF l, S
  <2> QED
    BY <1>6, <1>7, <2>1 DEF FinalizeSucceeds, l
<1>8. CASE FinalizeFails(r)
  <2> DEFINE v == [proc[r] EXCEPT !.status = "failed", !.msg = None,
                     !.pc = IF proc[r].msg # None THEN "finish" ELSE "reread"]
  <2>1. v \in Proc /\ v.pc \in S /\ v.task = t
    BY <1>1 DEF Proc, FinishPcs, Status, Terminal
  <2> HIDE DEF S
  <2> QED
    BY <1>5, <1>8, <2>1 DEF FinalizeFails
<1>9. CASE Promote(r)
  BY <1>6, <1>9 DEF Promote, FinishPcs
<1>10. CASE Requeue(r)
  BY <1>6, <1>10 DEF Requeue, FinishPcs
<1>11. CASE Reread(r)
  <2> DEFINE v == [proc[r] EXCEPT
                     !.pc     = IF row[t].status = "canceled" THEN "unwind" ELSE "finish",
                     !.status = IF proc[r].wasCanceled THEN "canceled" ELSE @]
  <2>1. v \in Proc /\ v.pc \in S /\ v.task = t
    BY <1>1, ZenonT(40) DEF Proc, FinishPcs, Status, Terminal
  <2> HIDE DEF S
  <2> QED
    BY <1>5, <1>11, <2>1 DEF Reread
<1>12. CASE Finish(r)
  BY <1>6, <1>12 DEF Finish, FinishPcs
<1>13. CASE Unwind(r)
  BY <1>5, <1>13, IdleProc DEF Unwind
<1> QED
  BY <1>7, <1>8, <1>9, <1>10, <1>11, <1>12, <1>13 DEF RunEnd

\* The exit of the process gives the slot back.
LEMMA ExitProc ==
  ASSUME ProcInv, DataInv, NEW r \in Runs, Exit(r)
  PROVE  ProcInv'
<1> DEFINE t == proc[r].task
<1>1. r \in Procs /\ proc[r] \in Proc /\ proc[r].pc = "live" /\ HoldsSlot(r)
  BY DEF Procs, ProcInv, Exit, HoldsSlot, SlotPcs
<1>2. t \in Tasks
  BY <1>1 DEF ProcInv, Placed
<1>3. mem[t].parked \in Msgs \cup {None} /\ mem[t].canceled \in BOOLEAN
  BY <1>2 DEF DataInv, Mem
<1>4. Moves(r, {"finalize", "idle"})
  <2>1. CASE Become(r, Idle)
    BY <2>1, IdleProc DEF Moves, CarryPcs
  <2>2. ASSUME NEW result \in {"succeeded", "failed"},
               Become(r, [proc[r] EXCEPT !.pc = "finalize", !.status = result,
                            !.msg = mem[t].parked, !.wasCanceled = mem[t].canceled])
        PROVE  Moves(r, {"finalize", "idle"})
    <3> DEFINE v == [proc[r] EXCEPT !.pc = "finalize", !.status = result,
                       !.msg = mem[t].parked, !.wasCanceled = mem[t].canceled]
    <3>1. "finalize" \in Pcs /\ result \in Status
      BY DEF Pcs, FinishPcs, Status, Terminal
    <3>2. v \in Proc /\ v.pc = "finalize" /\ v.task = t
      BY <1>1, <1>3, <3>1 DEF Proc
    <3> QED
      BY <1>2, <2>2, <3>2 DEF Moves, CarryPcs
  <2> QED
    BY <2>1, <2>2 DEF Exit
<1>5. active' = active - 1
  BY DEF Exit
<1>6. Placed'
  BY <1>1, <1>4, MovesPlaced, EngineAssumption
     DEF ProcInv, RunPcs, FinishPcs, EngineAssumption
<1>7. proc'[r].pc \notin SlotPcs
  BY <1>1, <1>4, MovesApart DEF ProcInv, SlotPcs
<1>8. SlotAccounting'
  BY <1>1, <1>4, <1>5, <1>7, MovesApart, SlotReleased DEF ProcInv, Procs
<1>9. active' \in 0..MaxConcurrent
  BY <1>1, <1>5, SlotHeld, EngineAssumption DEF ProcInv, EngineAssumption
<1> QED
  BY <1>1, <1>4, <1>6, <1>8, <1>9, MovesApart DEF ProcInv

\* pump takes the slot it hands to startOne.
LEMMA PumpProc ==
  ASSUME ProcInv, DataInv, NEW r \in Runs, PumpPop(r)
  PROVE  ProcInv'
<1> DEFINE t == Head(queue)
           v == [Idle EXCEPT !.pc = "check", !.task = t]
<1>1. r \in Procs /\ proc[r].pc = "idle" /\ ~HoldsSlot(r)
  BY PcsApart DEF Procs, PumpPop, FreeRuns, HoldsSlot
<1>2. t \in Tasks
  BY DEF PumpPop, DataInv
<1>3. "check" \in Pcs
  BY DEF Pcs, SlotPcs
<1>4. v \in Proc /\ v.pc = "check" /\ v.task = t
  BY <1>2, <1>3, IdleProc DEF Proc
<1>5. Become(r, v)
  BY DEF PumpPop
<1>6. Moves(r, {"check"})
  BY <1>2, <1>4, <1>5 DEF Moves, CarryPcs
<1>7. Placed'
  BY <1>1, <1>6, MovesPlaced, EngineAssumption
     DEF ProcInv, RunPcs, SlotPcs, EngineAssumption
<1>8. active' = active + 1 /\ active < MaxConcurrent
  BY DEF PumpPop
<1>9. SlotAccounting'
  BY <1>1, <1>6, <1>8, MovesApart, SlotTaken DEF ProcInv, Procs, SlotPcs
<1>10. active' \in 0..MaxConcurrent
  BY <1>8, EngineAssumption DEF ProcInv, EngineAssumption
<1> QED
  BY <1>1, <1>6, <1>7, <1>9, <1>10, MovesApart DEF ProcInv

\* Where a delivery leads.
After(p) == DeliverPcs \cup (IF p \in Runs THEN {"reread", "finish", "unwind"}
                             ELSE IF p = Api THEN {"idle"} ELSE {"recover"})

\* The end of a delivery leads back into the code that began it.
LEMMA ReturnedType ==
  ASSUME ProcInv, NEW p \in Procs, proc[p].pc \in DeliverPcs
  PROVE  /\ Returned(p) \in Proc /\ Returned(p).pc \in After(p)
         /\ Returned(p).pc \notin {"idle", "recover"} => Returned(p).task = proc[p].task
<1>1. proc[p] \in Proc
  BY DEF ProcInv
<1>2. CASE p \in Runs
  <2>1. Returned(p) = [proc[p] EXCEPT !.pc = "unwind", !.msg = None]
    BY <1>2, EngineAssumption DEF Returned, EngineAssumption
  <2>2. "unwind" \in Pcs
    BY DEF Pcs, FinishPcs
  <2>3. [proc[p] EXCEPT !.pc = "unwind", !.msg = None] \in Proc
    BY <1>1, <2>2 DEF Proc
  <2>4. Returned(p).pc = "unwind" /\ Returned(p).task = proc[p].task
    BY <1>1, <2>1 DEF Proc
  <2> QED
    BY <1>2, <2>1, <2>3, <2>4 DEF After
<1>3. CASE p = Api
  BY <1>3, IdleProc, EngineAssumption DEF Returned, After, EngineAssumption
<1>4. CASE p = Recovery
  <2>1. Returned(p) = [Idle EXCEPT !.pc = "recover", !.todo = proc[p].todo]
    BY <1>4, EngineAssumption DEF Returned, EngineAssumption
  <2>2. "recover" \in Pcs /\ proc[p].todo \in SUBSET Tasks
    BY <1>1 DEF Pcs, Proc
  <2>3. [Idle EXCEPT !.pc = "recover", !.todo = proc[p].todo] \in Proc
    BY <2>2, IdleProc DEF Proc
  <2>4. Returned(p).pc = "recover"
    BY <2>1, IdleProc DEF Proc
  <2> QED
    BY <1>4, <2>1, <2>3, <2>4, EngineAssumption DEF After, EngineAssumption
<1> QED
  BY <1>2, <1>3, <1>4 DEF Procs

\* A delivery holds no slot, whoever makes it.
LEMMA DeliverProc ==
  ASSUME ProcInv, DataInv, NEW p \in Procs, Deliver(p)
  PROVE  ProcInv'
<1> DEFINE t == proc[p].task
<1>1. proc[p] \in Proc /\ proc[p].pc \in DeliverPcs
  BY DEF ProcInv, Deliver, Pop, Write, Invalidate, Enqueue, ReportReplaced, ReportRefused,
         DeliverPcs
<1>2. t \in Tasks
  BY <1>1 DEF ProcInv, Placed, DeliverPcs
<1>3. \A l \in After(p) : l \in Pcs \ CarryPcs
  BY KnownPcs, PcsApart DEF After, Pcs, FinishPcs, RunPcs, CarryPcs, DeliverPcs
<1>4. active' = active
  BY DEF Deliver, Pop, Write, Invalidate, Enqueue, ReportReplaced, ReportRefused
<1>5. ASSUME NEW v \in Proc, Become(p, v), v.pc \in After(p),
             v.pc \notin {"idle", "recover"} => v.task = t
      PROVE  ProcInv'
  <2>1. Moves(p, After(p))
    BY <1>2, <1>3, <1>5 DEF Moves
  <2>2. CASE p \in Runs
    <3>1. After(p) \subseteq RunPcs /\ After(p) \cap SlotPcs = {} /\ ~HoldsSlot(p)
      BY <1>1, <2>2, PcsApart DEF After, RunPcs, FinishPcs, SlotPcs, DeliverPcs, HoldsSlot
    <3> QED
      BY <1>4, <2>1, <2>2, <3>1, RunStep
  <2>3. CASE p \in {Api, Recovery}
    <3>1. After(p) \subseteq (IF p = Api THEN ApiPcs ELSE RecoveryPcs)
      BY <2>3, EngineAssumption DEF After, ApiPcs, RecoveryPcs, EngineAssumption
    <3> QED
      BY <1>4, <2>1, <2>3, <3>1, OtherStep
  <2> QED
    BY <2>2, <2>3 DEF Procs
<1>6. CASE Become(p, Returned(p))
  BY <1>1, <1>5, <1>6, ReturnedType
<1>7. ASSUME NEW l \in After(p), Goto(p, l)
      PROVE  ProcInv'
  <2>1. [proc[p] EXCEPT !.pc = l] \in Proc /\ [proc[p] EXCEPT !.pc = l].pc = l
        /\ [proc[p] EXCEPT !.pc = l].task = t
    BY <1>1, <1>3 DEF Proc
  <2> QED
    BY <1>5, <1>7, <2>1 DEF Goto
<1>8. ASSUME NEW l \in After(p), NEW m \in Msgs \cup {None},
             Become(p, [proc[p] EXCEPT !.pc = l, !.msg = m])
      PROVE  ProcInv'
  <2> DEFINE v == [proc[p] EXCEPT !.pc = l, !.msg = m]
  <2>1. v \in Proc /\ v.pc = l /\ v.task = t
    BY <1>1, <1>3 DEF Proc
  <2> QED
    BY <1>5, <1>8, <2>1
<1>9. CASE Pop(p)
  <2>1. CASE pending[t] = <<>>
    <3>1. p \in Runs => "reread" \in After(p)
      BY DEF After
    <3> QED
      BY <1>6, <1>7, <1>9, <2>1, <3>1 DEF Pop
  <2>2. CASE pending[t] # <<>>
    <3>1. Head(pending[t]) \in Msgs
      BY <1>2, <2>2 DEF DataInv
    <3>2. "write" \in After(p)
      BY DEF After, DeliverPcs
    <3>3. Become(p, [proc[p] EXCEPT !.pc = "write", !.msg = Head(pending[t])])
      BY <1>9, <2>2 DEF Pop
    <3> QED
      BY <1>8, <3>1, <3>2, <3>3
  <2> QED
    BY <2>1, <2>2
<1>10. CASE Write(p)
  BY <1>7, <1>10 DEF Write, After, DeliverPcs
<1>11. CASE Invalidate(p)
  BY <1>7, <1>11 DEF Invalidate, After, DeliverPcs
<1>12. CASE Enqueue(p)
  <2>1. mem[t].label \in Msgs \cup {None}
    BY <1>2 DEF DataInv, Mem
  <2>2. "replaced" \in After(p) /\ "refused" \in After(p)
    BY DEF After, DeliverPcs
  <2>3. \/ Goto(p, "refused")
        \/ Become(p, Returned(p))
        \/ Become(p, [proc[p] EXCEPT !.pc = "replaced", !.msg = mem[t].label])
    BY <1>12 DEF Enqueue
  <2> QED
    BY <1>6, <1>7, <1>8, <2>1, <2>2, <2>3
<1>13. CASE ReportReplaced(p)
  BY <1>6, <1>13 DEF ReportReplaced
<1>14. CASE ReportRefused(p)
  <2> DEFINE v == [proc[p] EXCEPT !.pc = "finish", !.msg = None, !.status = "canceled"]
  <2>1. CASE p \in Runs
    <3>1. "finish" \in After(p) /\ "canceled" \in Status
      BY <2>1 DEF After, Status, Terminal
    <3>2. v \in Proc /\ v.pc \in After(p) /\ v.task = t
      BY <1>1, <1>3, <3>1 DEF Proc
    <3>3. Become(p, v)
      BY <1>14, <2>1 DEF ReportRefused
    <3> QED
      BY <1>5, <3>2, <3>3
  <2>2. CASE p \notin Runs
    BY <1>6, <1>14, <2>2 DEF ReportRefused
  <2> QED
    BY <2>1, <2>2
<1> QED
  BY <1>9, <1>10, <1>11, <1>12, <1>13, <1>14 DEF Deliver

\* A request that ends by telling an agent to die moves Api, and of the run
\* only the mark that its process was told.
LEMMA KillProc ==
  ASSUME ProcInv, proc[Api].pc \in RequestPcs, NEW h, RequestKills(h), active' = active
  PROVE  ProcInv'
<1>1. Api \in Procs /\ Api \notin Runs /\ proc \in [Procs -> Proc]
  BY EngineAssumption DEF Procs, ProcInv, EngineAssumption
<1>2. proc'[Api] = Idle
  BY <1>1 DEF RequestKills
<1>3. \A p \in Procs \ {Api} :
         /\ proc'[p] \in Proc /\ proc'[p].pc = proc[p].pc
         /\ proc'[p].task = proc[p].task /\ proc'[p].msg = proc[p].msg
  <2> TAKE p \in Procs \ {Api}
  <2>1. proc[p] \in Proc
    BY <1>1
  <2>2. proc'[p] = proc[p] \/ proc'[p] = [proc[p] EXCEPT !.killed = TRUE]
    BY DEF RequestKills
  <2> QED
    BY <2>1, <2>2 DEF Proc
<1>4. proc' \in [Procs -> Proc]
  <2>1. proc' = [p \in Procs |-> proc'[p]]
    BY DEF RequestKills
  <2> QED
    BY <1>2, <1>3, <2>1, IdleProc
<1>5. Placed'
  BY <1>1, <1>2, <1>3, IdleProc, EngineAssumption
     DEF ProcInv, Placed, Procs, ApiPcs, CarryPcs, EngineAssumption
<1>6. \A r \in Runs : proc'[r].pc \in SlotPcs <=> proc[r].pc \in SlotPcs
  BY <1>1, <1>3 DEF Procs
<1>7. SlotAccounting'
  BY <1>6, SlotKept DEF ProcInv
<1> QED
  BY <1>4, <1>5, <1>7 DEF ProcInv

\* The steps of a cancel move Api only.
LEMMA CancelProc ==
  ASSUME ProcInv, DataInv, Cancel
  PROVE  ProcInv'
<1> DEFINE t == ApiTask
<1>1. Api \in Procs /\ Api \notin Runs /\ proc[Api] \in Proc /\ active' = active
  BY EngineAssumption DEF Procs, ProcInv, EngineAssumption, Cancel, CancelMark, CancelDiscard,
                          CancelDequeue, CancelKill, CancelFinish
<1>2. proc[Api].pc \in RequestPcs
  BY DEF Cancel, CancelMark, CancelDiscard, CancelDequeue, CancelKill, CancelFinish, RequestPcs
<1>3. t \in Tasks
  BY <1>1, <1>2 DEF ProcInv, Placed, RequestPcs, ApiTask
<1>4. \A l \in ApiPcs : l \in Pcs
  BY KnownPcs
<1>5. mem[t].parked \in Msgs \cup {None} /\ mem[t].handle \in Runs \cup {None}
  BY <1>3 DEF DataInv, Mem
<1>6. ASSUME NEW v \in Proc, Become(Api, v), v.pc \in ApiPcs \ CarryPcs,
             v.pc # "idle" => v.task = t
      PROVE  ProcInv'
  <2>1. Moves(Api, ApiPcs)
    BY <1>3, <1>6 DEF Moves
  <2> QED
    BY <1>1, <2>1, OtherStep
<1>7. CASE Become(Api, Idle)
  BY <1>6, <1>7, IdleProc DEF ApiPcs, CarryPcs
<1>8. ASSUME NEW l \in ApiPcs \ CarryPcs, ApiGoto(l)
      PROVE  ProcInv'
  <2>1. [proc[Api] EXCEPT !.pc = l] \in Proc /\ [proc[Api] EXCEPT !.pc = l].pc = l
        /\ [proc[Api] EXCEPT !.pc = l].task = t
    BY <1>1, <1>4 DEF Proc, ApiTask
  <2> QED
    BY <1>6, <1>8, <2>1 DEF ApiGoto, Goto
<1>9. {"c_discard", "c_dequeue", "c_kill", "c_finish"} \subseteq ApiPcs \ CarryPcs
  BY DEF ApiPcs, RequestPcs, CarryPcs
<1>10. CASE CancelMark
  BY <1>7, <1>8, <1>9, <1>10 DEF CancelMark
<1>11. CASE CancelDiscard
  BY <1>8, <1>9, <1>11 DEF CancelDiscard
<1>12. CASE CancelDequeue
  <2> DEFINE v == [proc[Api] EXCEPT !.msg = mem[t].parked, !.handle = mem[t].handle,
                     !.pc = IF mem[t].handle # None THEN "c_kill" ELSE "c_finish"]
  <2>1. v \in Proc /\ v.pc \in {"c_kill", "c_finish"} /\ v.task = t
    BY <1>1, <1>4, <1>5, <1>9 DEF Proc, ApiTask
  <2>2. CASE Become(Api, v)
    BY <1>6, <1>9, <2>1, <2>2
  <2>3. CASE ApiGoto("c_finish")
    BY <1>8, <1>9, <2>3
  <2> QED
    BY <1>12, <2>2, <2>3 DEF CancelDequeue
<1>13. CASE CancelKill
  BY <1>1, <1>2, <1>13, KillProc DEF CancelKill
<1>14. CASE CancelFinish
  BY <1>7, <1>14 DEF CancelFinish
<1> QED
  BY <1>10, <1>11, <1>12, <1>13, <1>14 DEF Cancel

\* The steps of a follow-up move Api only.
LEMMA FollowUpProc ==
  ASSUME ProcInv, DataInv, FollowUp
  PROVE  ProcInv'
<1> DEFINE t == ApiTask
<1>1. Api \in Procs /\ Api \notin Runs /\ proc[Api] \in Proc /\ active' = active
  BY EngineAssumption DEF Procs, ProcInv, EngineAssumption, FollowUp, FollowUpCheck,
                          FollowUpQueue, FollowUpInterrupt, FollowUpResume
<1>2. proc[Api].pc \in RequestPcs
  BY DEF FollowUp, FollowUpCheck, FollowUpQueue, FollowUpInterrupt, FollowUpResume, RequestPcs
<1>3. t \in Tasks
  BY <1>1, <1>2 DEF ProcInv, Placed, RequestPcs, ApiTask
<1>4. \A l \in ApiPcs : l \in Pcs
  BY KnownPcs
<1>5. /\ mem[t].parked \in Msgs \cup {None} /\ mem[t].handle \in Runs \cup {None}
      /\ None \in Msgs \cup {None}
  BY <1>3 DEF DataInv, Mem
<1>6. ASSUME NEW v \in Proc, Become(Api, v), v.pc \in ApiPcs,
             v.pc # "idle" => v.task = t, v.pc \in CarryPcs => v.msg \in Msgs
      PROVE  ProcInv'
  <2>1. Moves(Api, ApiPcs)
    BY <1>3, <1>6 DEF Moves
  <2> QED
    BY <1>1, <2>1, OtherStep
<1>7. CASE Become(Api, Idle)
  BY <1>6, <1>7, IdleProc DEF ApiPcs, CarryPcs
<1>8. ASSUME NEW l \in ApiPcs, ApiGoto(l), l \in CarryPcs => proc[Api].msg \in Msgs
      PROVE  ProcInv'
  <2>1. [proc[Api] EXCEPT !.pc = l] \in Proc /\ [proc[Api] EXCEPT !.pc = l].pc = l
        /\ [proc[Api] EXCEPT !.pc = l].task = t
        /\ [proc[Api] EXCEPT !.pc = l].msg = proc[Api].msg
    BY <1>1, <1>4 DEF Proc, ApiTask
  <2> QED
    BY <1>6, <1>8, <2>1 DEF ApiGoto, Goto
<1>9. ASSUME NEW l \in ApiPcs \ CarryPcs, NEW m \in Msgs \cup {None},
             NEW h \in Runs \cup {None},
             Become(Api, [proc[Api] EXCEPT !.pc = l, !.msg = m, !.handle = h])
      PROVE  ProcInv'
  <2> DEFINE v == [proc[Api] EXCEPT !.pc = l, !.msg = m, !.handle = h]
  <2>1. v \in Proc /\ v.pc = l /\ v.task = t
    BY <1>1, <1>4, <1>9 DEF Proc, ApiTask
  <2> QED
    BY <1>6, <1>9, <2>1
<1>10. ASSUME NEW l \in ApiPcs \ CarryPcs, NEW m \in Msgs \cup {None},
              Become(Api, [proc[Api] EXCEPT !.pc = l, !.msg = m])
       PROVE  ProcInv'
  <2> DEFINE v == [proc[Api] EXCEPT !.pc = l, !.msg = m]
  <2>1. v \in Proc /\ v.pc = l /\ v.task = t
    BY <1>1, <1>4, <1>10 DEF Proc, ApiTask
  <2> QED
    BY <1>6, <1>10, <2>1
<1>11. {"pop", "write", "f_resume"} \subseteq ApiPcs \ CarryPcs
       /\ {"f_interrupt", "f_queue"} \subseteq ApiPcs
  BY DEF ApiPcs, RequestPcs, DeliverPcs, CarryPcs
<1>12. CASE FollowUpCheck
  <2>1. proc[Api].msg \in Msgs
    BY <1>12 DEF ProcInv, Placed, FollowUpCheck, CarryPcs
  <2> DEFINE l == IF proc[Api].interrupt /\ ~proc[Api].revive THEN "f_interrupt" ELSE "f_queue"
  <2>2. l \in ApiPcs
    BY <1>11
  <2> HIDE DEF l
  <2>3. Become(Api, Idle) \/ ApiGoto(l)
    BY <1>12 DEF FollowUpCheck, l
  <2> QED
    BY <1>7, <1>8, <2>1, <2>2, <2>3
<1>13. CASE FollowUpQueue
  <2>1. \/ Become(Api, Idle)
        \/ Become(Api, [proc[Api] EXCEPT !.pc = "pop", !.msg = None])
    BY <1>13 DEF FollowUpQueue
  <2> QED
    BY <1>5, <1>7, <1>10, <1>11, <2>1
<1>14. CASE FollowUpInterrupt
  <2>1. \/ Become(Api, Idle)
        \/ ApiGoto("write")
        \/ Become(Api, [proc[Api] EXCEPT !.pc = "f_resume", !.msg = None,
                                         !.handle = mem[t].handle])
    BY <1>14 DEF FollowUpInterrupt
  <2> QED
    BY <1>5, <1>7, <1>8, <1>9, <1>11, <2>1
<1>15. CASE FollowUpResume
  <2>1. \/ RequestKills(proc[Api].handle)
        \/ Become(Api, Idle)
        \/ Become(Api, [proc[Api] EXCEPT !.pc = "write", !.msg = mem[t].parked])
    BY <1>15 DEF FollowUpResume
  <2> QED
    BY <1>1, <1>2, <1>5, <1>7, <1>10, <1>11, <2>1, KillProc
<1> QED
  BY <1>12, <1>13, <1>14, <1>15 DEF FollowUp

\* A request begins at Api.
LEMMA RequestProc ==
  ASSUME ProcInv, DataInv, NEW t \in Tasks, Request(t)
  PROVE  ProcInv'
<1>1. CASE CreateInsert(t)
  BY <1>1, StillStep DEF CreateInsert
<1>2. ASSUME NEW v \in Proc, Become(Api, v), v.pc \in ApiPcs, v.task = t,
             v.pc \in CarryPcs => v.msg \in Msgs, active' = active
      PROVE  ProcInv'
  <2>1. Moves(Api, ApiPcs)
    BY <1>2 DEF Moves
  <2> QED
    BY <1>2, <2>1, OtherStep
<1>3. CASE CancelBegin(t)
  <2> DEFINE v == [Idle EXCEPT !.pc = "c_mark", !.task = t]
  <2>1. "c_mark" \in Pcs /\ "c_mark" \in ApiPcs /\ "c_mark" \notin CarryPcs
    BY DEF Pcs, RequestPcs, ApiPcs, CarryPcs
  <2>2. v \in Proc /\ v.pc = "c_mark" /\ v.task = t
    BY <2>1, IdleProc DEF Proc
  <2> QED
    BY <1>2, <1>3, <2>1, <2>2 DEF CancelBegin
<1>4. ASSUME NEW m \in Msgs, NEW k \in AllOps, FollowUpBegin(t, m, k)
      PROVE  ProcInv'
  <2> DEFINE revive == row[t].status \in Terminal
             cut    == k = "interrupt"
             v      == [Idle EXCEPT !.pc = "f_check", !.task = t, !.msg = m,
                          !.revive = revive, !.interrupt = cut]
  <2>1. "f_check" \in Pcs /\ "f_check" \in ApiPcs
    BY DEF Pcs, RequestPcs, ApiPcs
  <2>2. revive \in BOOLEAN /\ cut \in BOOLEAN
    OBVIOUS
  <2>3. Become(Api, v) /\ active' = active
    BY <1>4 DEF FollowUpBegin
  <2> HIDE DEF revive, cut
  <2>4. v \in Proc /\ v.pc = "f_check" /\ v.task = t /\ v.msg = m
    BY <2>1, <2>2, IdleProc DEF Proc
  <2> QED
    BY <1>2, <2>1, <2>3, <2>4
<1> QED
  BY <1>1, <1>3, <1>4 DEF Request

\* The deliveries after a restart are Recovery's.
LEMMA RecoverProc ==
  ASSUME ProcInv, DataInv, Recover
  PROVE  ProcInv'
<1>1. Recovery \in Procs /\ Recovery # Api /\ proc[Recovery] \in Proc /\ active' = active
  BY EngineAssumption DEF Procs, ProcInv, EngineAssumption, Recover, RecoverNext, RecoverDone
<1>2. ASSUME NEW v \in Proc, Become(Recovery, v), v.pc \in RecoveryPcs,
             v.pc \notin {"idle", "recover"} => v.task \in Tasks
      PROVE  ProcInv'
  <2>1. RecoveryPcs \cap CarryPcs = {}
    BY DEF RecoveryPcs, DeliverPcs, CarryPcs
  <2>2. Moves(Recovery, RecoveryPcs)
    BY <1>2, <2>1 DEF Moves
  <2> QED
    BY <1>1, <2>2, OtherStep
<1>3. ASSUME NEW t \in Tasks, RecoverNext(t)
      PROVE  ProcInv'
  <2> DEFINE v == [proc[Recovery] EXCEPT !.pc = "pop", !.task = t, !.todo = @ \ {t}]
  <2>1. "pop" \in Pcs /\ "pop" \in RecoveryPcs
    BY DEF Pcs, RecoveryPcs, DeliverPcs
  <2>2. v \in Proc /\ v.pc = "pop" /\ v.task = t
    BY <1>1, <2>1 DEF Proc
  <2> QED
    BY <1>2, <1>3, <2>1, <2>2 DEF RecoverNext
<1>4. CASE RecoverDone
  BY <1>2, <1>4, IdleProc DEF RecoverDone, RecoveryPcs
<1> QED
  BY <1>3, <1>4 DEF Recover

\* A new daemon has no goroutine but Recovery, and every slot is free.
LEMMA RestartProc ==
  ASSUME DataInv, Restart
  PROVE  ProcInv'
<1> DEFINE todo == Orphans \cup {t \in Tasks : pending[t] # <<>>}
           v == [Idle EXCEPT !.pc = "recover", !.todo = todo]
<1>1. Api # Recovery /\ Recovery \notin Runs /\ Recovery \in Procs /\ Api \in Procs
      /\ Runs \subseteq Procs
  BY EngineAssumption DEF EngineAssumption, Procs
<1>2. "recover" \in Pcs /\ todo \in SUBSET Tasks
  BY DEF Pcs, Orphans
<1>3. v \in Proc /\ v.pc = "recover"
  BY <1>2, IdleProc DEF Proc
<1>4. proc' = [p \in Procs |-> IF p # Recovery THEN Idle ELSE v]
  BY DEF Restart
<1> HIDE DEF v
<1>5. proc' \in [Procs -> Proc] /\ proc'[Recovery].pc = "recover"
      /\ \A p \in Procs : p # Recovery => proc'[p].pc = "idle"
  BY <1>1, <1>3, <1>4, IdleProc
<1>6. Placed'
  BY <1>1, <1>5 DEF Placed, RunPcs, ApiPcs, RecoveryPcs, CarryPcs
<1>7. {r \in Runs : HoldsSlot(r)}' = {}
  BY <1>1, <1>5 DEF HoldsSlot, SlotPcs
<1>8. active' = 0
  BY DEF Restart
<1>9. SlotAccounting'
  BY <1>7, <1>8, FS_EmptySet DEF SlotAccounting
<1> QED
  BY <1>5, <1>6, <1>8, <1>9, EngineAssumption DEF ProcInv, EngineAssumption

\* Every step keeps the goroutines in place and the slots counted.
LEMMA ProcInvStep ==
  ASSUME ProcInv, DataInv, [Next]_vars
  PROVE  ProcInv'
<1>1. CASE UNCHANGED vars
  BY <1>1, StillStep DEF vars
<1>2. ASSUME NEW t \in Tasks, CreateEnqueue(t)
      PROVE  ProcInv'
  BY <1>2, StillStep DEF CreateEnqueue
<1>3. CASE PumpReturn
  BY <1>3, StillStep DEF PumpReturn
<1> QED
  BY <1>1, <1>2, <1>3, RequestProc, PumpProc, StartProc, ExitProc, EndProc, DeliverProc,
     CancelProc, FollowUpProc, RecoverProc, RestartProc DEF Next, Pump

-----------------------------------------------------------------------------
(* DataInv is inductive *)

RowStep == row' \in [Tasks -> Row]
MemStep == mem' \in [Tasks -> Mem]

\* An id is added or taken out, and the queue is a sequence of tasks again.
LEMMA QueueType ==
  ASSUME DataInv
  PROVE  /\ \A t \in Tasks : Enqueued(t) \in Seq(Tasks)
         /\ \A i \in 1..Len(queue) : Without(i) \in Seq(Tasks)
         /\ queue # <<>> => Head(queue) \in Tasks /\ Tail(queue) \in Seq(Tasks)
<1>1. queue \in Seq(Tasks)
  BY DEF DataInv
<1>2. \A t \in Tasks : Enqueued(t) \in Seq(Tasks)
  BY <1>1 DEF Enqueued
<1>3. ASSUME NEW i \in 1..Len(queue)
      PROVE  Without(i) \in Seq(Tasks)
  <2>1. Len(queue) \in Nat /\ \A j \in 1..Len(queue) : queue[j] \in Tasks
    BY <1>1
  <2>2. SubSeq(queue, 1, i - 1) \in Seq(Tasks)
    BY <1>1, <2>1, SubSeqProperties
  <2>3. SubSeq(queue, i + 1, Len(queue)) \in Seq(Tasks)
    BY <1>1, <2>1, SubSeqProperties
  <2> QED
    BY <2>2, <2>3, ConcatProperties DEF Without
<1> QED
  BY <1>1, <1>2, <1>3

\* The updates of a task row the store operations make.
LEMMA RowType ==
  ASSUME DataInv, NEW t \in Tasks, NEW s \in Status
  PROVE  /\ [row EXCEPT ![t].status = s] \in [Tasks -> Row]
         /\ [row EXCEPT ![t].status = s, ![t].ready = TRUE] \in [Tasks -> Row]
         /\ \A m \in Msgs \cup {None} :
              [row EXCEPT ![t].status = s, ![t].prompt = m] \in [Tasks -> Row]
BY DEF DataInv, Row

\* The count of terminal writes stays a count.
LEMMA EndsType ==
  ASSUME DataInv, NEW t \in Tasks
  PROVE  [ends EXCEPT ![t] = @ + 1] \in [Tasks -> Nat] /\ [ends EXCEPT ![t] = 0] \in [Tasks -> Nat]
BY DEF DataInv

\* The statuses, one by one.
LEMMA Statuses == {"absent", "queued", "running", "succeeded", "failed", "canceled"} = Status
BY DEF Status, Terminal

\* Msg drops the empty message.
LEMMA MsgType == \A m \in Msgs \cup {None} : Msg(m) \subseteq Msgs
BY DEF Msg

\* The elements of a sequence of messages are messages.
LEMMA ElemsType == \A q \in Seq(Msgs) : Elems(q) \subseteq Msgs
BY DEF Elems

\* clearActiveRun yields well-formed per-task maps.
LEMMA ClearedType ==
  ASSUME DataInv, NEW r \in Runs, proc[r].task \in Tasks
  PROVE  ClearedRun(r) \in [Tasks -> Mem]
<1> DEFINE t == proc[r].task
           a == IF mem[t].activeRun = r THEN None ELSE mem[t].activeRun
<1>1. mem \in [Tasks -> Mem] /\ mem[t] \in Mem
  BY DEF DataInv
<1>2. a \in Runs \cup {None}
  BY <1>1 DEF Mem
<1>3. ClearedRun(r) = [mem EXCEPT ![t].activeRun = a]
  BY DEF ClearedRun
<1> HIDE DEF a
<1>4. [mem[t] EXCEPT !.activeRun = a] \in Mem
  BY <1>1, <1>2 DEF Mem
<1> QED
  BY <1>1, <1>3, <1>4

\* It takes no other mark of a task, and the run only from its own task.
LEMMA ClearedFields ==
  ASSUME mem \in [Tasks -> Mem], NEW r \in Runs, proc[r].task \in Tasks
  PROVE  \A u \in Tasks : /\ ClearedRun(r)[u].committing = mem[u].committing
                          /\ ClearedRun(r)[u].activeRun \in {mem[u].activeRun, None}
<1> DEFINE t == proc[r].task
           a == IF mem[t].activeRun = r THEN None ELSE mem[t].activeRun
           m == [mem[t] EXCEPT !.activeRun = a]
<1>1. mem[t] \in Mem /\ a \in {mem[t].activeRun, None}
  OBVIOUS
<1>2. ClearedRun(r) = [mem EXCEPT ![t] = m]
  BY DEF ClearedRun
<1> HIDE DEF a
<1>3. m.committing = mem[t].committing /\ m.activeRun = a
  BY <1>1 DEF Mem
<1> HIDE DEF m
<1> QED
  BY <1>1, <1>2, <1>3

\* finishRun yields a well-formed row, map and count, or changes nothing.
LEMMA FinishType ==
  ASSUME DataInv, NEW r \in Runs, NEW s \in Status, NEW b, proc[r].task \in Tasks,
         FinishRun(r, s, b)
  PROVE  row' \in [Tasks -> Row] /\ mem' \in [Tasks -> Mem] /\ ends' \in [Tasks -> Nat]
<1> DEFINE t == proc[r].task
<1>1. CASE UNCHANGED <<row, mem, ends>>
  BY <1>1 DEF DataInv
<1>2. CASE /\ row' = [row EXCEPT ![t].status = s]
           /\ mem' = [mem EXCEPT ![t].activeRun = None]
           /\ ends' = [ends EXCEPT ![t] = @ + 1]
  <2>1. [mem EXCEPT ![t].activeRun = None] \in [Tasks -> Mem]
    BY DEF DataInv, Mem
  <2> QED
    BY <1>2, <2>1, RowType, EndsType
<1> QED
  BY <1>1, <1>2 DEF FinishRun

\* The steps of startOne keep the data in its types.
LEMMA StartData ==
  ASSUME ProcInv, DataInv, NEW r \in Runs, Start(r)
  PROVE  DataInv'
<1> DEFINE t == proc[r].task
<1>1. r \in Procs /\ proc[r] \in Proc /\ proc[r].pc \in SlotPcs
  BY DEF Procs, ProcInv, Start, StartCheck, StartGate, StartClaim, Launch, Register, StartFails,
         FailEvent, FailFinish, SlotPcs
<1>2. t \in Tasks /\ proc[r].msg \in Msgs \cup {None}
  BY <1>1, PcsApart DEF ProcInv, Placed, RunPcs, Proc
<1>3. ClearedRun(r) \in [Tasks -> Mem] /\ Msg(proc[r].msg) \subseteq Msgs
  BY <1>2, ClearedType, MsgType
<1>4. "running" \in Status /\ "failed" \in Status
  BY Statuses
<1>5. pumping' \in BOOLEAN
  BY Zenon DEF DataInv, Start, StartCheck, StartGate, StartClaim, Launch, Register, StartFails,
         FailEvent, FailFinish, ReleaseSlot
<1>6. queue' = queue /\ pending' = pending /\ creating' = creating /\ sent' = sent
      /\ cancels' = cancels /\ restarts' = restarts
  BY DEF Start, StartCheck, StartGate, StartClaim, Launch, Register, StartFails,
         FailEvent, FailFinish, store, ledger, bounds
<1>7. ASSUME RowStep, MemStep, handed' \subseteq Msgs, reported' \subseteq Msgs,
             ends' \in [Tasks -> Nat]
      PROVE  DataInv'
  BY <1>5, <1>6, <1>7 DEF DataInv, RowStep, MemStep
<1>8. /\ row \in [Tasks -> Row] /\ mem \in [Tasks -> Mem] /\ handed \subseteq Msgs
      /\ reported \subseteq Msgs /\ ends \in [Tasks -> Nat]
  BY DEF DataInv
<1>9. CASE StartCheck(r)
  BY <1>3, <1>7, <1>8, <1>9 DEF StartCheck, store, ledger, RowStep, MemStep
<1>10. CASE StartGate(r)
  BY <1>7, <1>8, <1>10 DEF StartGate, store, ledger, RowStep, MemStep
<1>11. CASE StartClaim(r)
  <2>1. [row EXCEPT ![t].status = "running"] \in [Tasks -> Row]
    BY <1>2, <1>4, RowType
  <2> QED
    BY <1>3, <1>7, <1>8, <1>11, <2>1 DEF StartClaim, ledger, RowStep, MemStep
<1>12. CASE Launch(r)
  BY <1>3, <1>7, <1>8, <1>12 DEF Launch, store, RowStep, MemStep
<1>13. CASE Register(r)
  <2>1. [mem EXCEPT ![t].handle = r, ![t].label = None] \in [Tasks -> Mem]
    BY <1>2, <1>8, SMTT(30) DEF Mem
  <2> QED
    BY <1>7, <1>8, <1>13, <2>1 DEF Register, store, ledger, RowStep, MemStep
<1>14. CASE StartFails(r)
  BY <1>7, <1>8, <1>14 DEF StartFails, store, ledger, RowStep, MemStep
<1>15. CASE FailEvent(r)
  <2>1. [mem EXCEPT ![t].label = None] \in [Tasks -> Mem]
    BY <1>2, <1>8 DEF Mem
  <2> QED
    BY <1>3, <1>7, <1>8, <1>15, <2>1 DEF FailEvent, store, RowStep, MemStep
<1>16. CASE FailFinish(r)
  <2>1. RowStep /\ MemStep /\ ends' \in [Tasks -> Nat]
    BY <1>2, <1>4, <1>16, FinishType DEF FailFinish, RowStep, MemStep
  <2> QED
    BY <1>7, <1>8, <1>16, <2>1 DEF FailFinish
<1> QED
  BY <1>9, <1>10, <1>11, <1>12, <1>13, <1>14, <1>15, <1>16 DEF Start

\* So does the exit of the process,
LEMMA ExitData ==
  ASSUME ProcInv, DataInv, NEW r \in Runs, Exit(r)
  PROVE  DataInv'
<1> DEFINE t == proc[r].task
           m == [mem EXCEPT ![t].committing = r, ![t].handle = None,
                            ![t].canceled = FALSE, ![t].parked = None]
<1>1. r \in Procs /\ t \in Tasks
  BY DEF Procs, ProcInv, Placed, Exit
<1>2. m \in [Tasks -> Mem]
  <2>1. mem \in [Tasks -> Mem]
    BY DEF DataInv
  <2>2. [mem[t] EXCEPT !.committing = r, !.handle = None, !.canceled = FALSE,
                       !.parked = None] \in Mem
    BY <1>1, <2>1, ZenonT(40) DEF Mem
  <2> QED
    BY <1>1, <2>1, <2>2
<1>3. pumping' \in BOOLEAN
  BY Zenon DEF DataInv, Exit
<1>4. mem' \in [Tasks -> Mem]
  BY <1>2 DEF Exit, DataInv
<1>5. UNCHANGED <<store, queue, ledger, bounds>>
  BY DEF Exit
<1> QED
  BY <1>3, <1>4, <1>5 DEF DataInv, store, ledger, bounds

\* and the end of the run,
LEMMA EndData ==
  ASSUME ProcInv, DataInv, NEW r \in Runs, RunEnd(r)
  PROVE  DataInv'
<1> DEFINE t == proc[r].task
<1>1. r \in Procs /\ proc[r] \in Proc /\ proc[r].pc \in FinishPcs
  BY DEF Procs, ProcInv, RunEnd, FinalizeSucceeds, FinalizeFails, Promote, Requeue, Reread,
         Finish, Unwind, FinishPcs
<1>2. t \in Tasks /\ proc[r].msg \in Msgs \cup {None} /\ proc[r].status \in Status
  BY <1>1, PcsApart DEF ProcInv, Placed, RunPcs, Proc, FinishPcs
<1>3. pumping' \in BOOLEAN
  BY Zenon DEF DataInv, RunEnd, FinalizeSucceeds, FinalizeFails, Promote, Requeue, Reread,
               Finish, Unwind
<1>4. pending' = pending /\ creating' = creating /\ sent' = sent
      /\ cancels' = cancels /\ restarts' = restarts /\ handed' = handed
  BY DEF RunEnd, FinalizeSucceeds, FinalizeFails, Promote, Requeue, Reread, Finish, Unwind,
         store, ledger, bounds
<1>5. ASSUME RowStep, MemStep, reported' \subseteq Msgs, queue' \in Seq(Tasks),
             ends' \in [Tasks -> Nat]
      PROVE  DataInv'
  BY <1>3, <1>4, <1>5 DEF DataInv, RowStep, MemStep
<1>6. /\ row \in [Tasks -> Row] /\ mem \in [Tasks -> Mem] /\ queue \in Seq(Tasks)
      /\ reported \subseteq Msgs /\ ends \in [Tasks -> Nat] /\ pending[t] \in Seq(Msgs)
  BY <1>2 DEF DataInv
<1>7. CASE FinalizeSucceeds(r)
  BY <1>5, <1>6, <1>7 DEF FinalizeSucceeds, store, ledger, RowStep, MemStep
<1>8. CASE FinalizeFails(r)
  <2>1. Elems(pending[t]) \subseteq Msgs
    BY <1>6, ElemsType
  <2>2. reported' \subseteq Msgs
    BY <1>2, <1>6, <1>8, <2>1 DEF FinalizeFails
  <2> QED
    BY <1>5, <1>6, <1>8, <2>2 DEF FinalizeFails, store, RowStep, MemStep
<1>9. CASE Promote(r)
  <2>1. [row EXCEPT ![t].status = "queued", ![t].ready = TRUE] \in [Tasks -> Row]
    BY <1>2, RowType, Statuses
  <2> QED
    BY <1>2, <1>5, <1>6, <1>9, <2>1, EndsType DEF Promote, RowStep, MemStep
<1>10. CASE Requeue(r)
  BY <1>2, <1>5, <1>6, <1>10, QueueType DEF Requeue, store, ledger, RowStep, MemStep
<1>11. CASE Reread(r)
  BY <1>5, <1>6, <1>11 DEF Reread, store, ledger, RowStep, MemStep
<1>12. CASE Finish(r)
  <2>1. RowStep /\ MemStep /\ ends' \in [Tasks -> Nat]
    BY <1>2, <1>12, FinishType DEF Finish, RowStep, MemStep
  <2> QED
    BY <1>5, <1>6, <1>12, <2>1 DEF Finish
<1>13. CASE Unwind(r)
  <2> DEFINE a == ClearedRun(r)
             c == IF a[t].committing = r THEN None ELSE a[t].committing
  <2>1. a \in [Tasks -> Mem] /\ a[t] \in Mem
    BY <1>2, ClearedType
  <2>2. mem' = [a EXCEPT ![t].committing = c]
    BY <1>13 DEF Unwind
  <2> HIDE DEF a
  <2>3. c \in Runs \cup {None}
    BY <2>1 DEF Mem
  <2> HIDE DEF c
  <2>4. [a[t] EXCEPT !.committing = c] \in Mem
    BY <2>1, <2>3 DEF Mem
  <2>5. mem' \in [Tasks -> Mem]
    BY <2>1, <2>2, <2>4
  <2> QED
    BY <1>5, <1>6, <1>13, <2>5 DEF Unwind, store, ledger, RowStep, MemStep
<1> QED
  BY <1>7, <1>8, <1>9, <1>10, <1>11, <1>12, <1>13 DEF RunEnd

\* and a delivery,
LEMMA DeliverData ==
  ASSUME ProcInv, DataInv, NEW p \in Procs, Deliver(p)
  PROVE  DataInv'
<1> DEFINE t == proc[p].task
<1>1. proc[p] \in Proc /\ proc[p].pc \in DeliverPcs
  BY DEF ProcInv, Deliver, Pop, Write, Invalidate, Enqueue, ReportReplaced, ReportRefused,
         DeliverPcs
<1>2. t \in Tasks /\ proc[p].msg \in Msgs \cup {None}
  BY <1>1 DEF ProcInv, Placed, DeliverPcs, Proc
<1>3. pumping' \in BOOLEAN
  BY Zenon DEF DataInv, Deliver, Pop, Write, Invalidate, Enqueue, ReportReplaced, ReportRefused
<1>4. creating' = creating /\ sent' = sent /\ cancels' = cancels /\ restarts' = restarts
      /\ handed' = handed
  BY DEF Deliver, Pop, Write, Invalidate, Enqueue, ReportReplaced, ReportRefused,
         store, ledger, bounds
<1>5. ASSUME RowStep, MemStep, reported' \subseteq Msgs, queue' \in Seq(Tasks),
             ends' \in [Tasks -> Nat], pending' \in [Tasks -> Seq(Msgs)]
      PROVE  DataInv'
  BY <1>3, <1>4, <1>5 DEF DataInv, RowStep, MemStep
<1>6. /\ row \in [Tasks -> Row] /\ mem \in [Tasks -> Mem] /\ queue \in Seq(Tasks)
      /\ reported \subseteq Msgs /\ ends \in [Tasks -> Nat]
      /\ pending \in [Tasks -> Seq(Msgs)] /\ pending[t] \in Seq(Msgs)
  BY <1>2 DEF DataInv
<1>7. CASE Pop(p)
  <2>1. pending' \in [Tasks -> Seq(Msgs)]
    <3>1. pending' = pending \/ (pending[t] # <<>> /\ pending' = [pending EXCEPT ![t] = Tail(@)])
      BY <1>7 DEF Pop
    <3>2. pending[t] # <<>> => Tail(pending[t]) \in Seq(Msgs)
      BY <1>6
    <3> QED
      BY <1>6, <3>1, <3>2
  <2> QED
    BY <1>5, <1>6, <1>7, <2>1 DEF Pop, ledger, RowStep, MemStep
<1>8. CASE Write(p)
  <2>1. [row EXCEPT ![t].status = "queued", ![t].prompt = proc[p].msg] \in [Tasks -> Row]
    BY <1>2, RowType, Statuses
  <2>2. \/ UNCHANGED <<row, ends>>
        \/ /\ row' = [row EXCEPT ![t].status = "queued", ![t].prompt = proc[p].msg]
           /\ ends' = [ends EXCEPT ![t] = 0]
    BY <1>8 DEF Write
  <2>3. UNCHANGED <<pending, queue, mem, reported>>
    BY <1>8 DEF Write
  <2>4. RowStep
    BY <1>6, <2>1, <2>2 DEF RowStep
  <2>5. ends' \in [Tasks -> Nat]
    <3>1. ends' = ends \/ ends' = [ends EXCEPT ![t] = 0]
      BY <2>2
    <3> QED
      BY <1>2, <1>6, <3>1, EndsType
  <2> QED
    BY <1>5, <1>6, <2>3, <2>4, <2>5 DEF MemStep
<1>9. CASE Invalidate(p)
  <2>1. [mem EXCEPT ![t].activeRun = None] \in [Tasks -> Mem]
    BY <1>2, <1>6, ZenonT(40) DEF Mem
  <2> QED
    BY <1>5, <1>6, <1>9, <2>1 DEF Invalidate, store, ledger, RowStep, MemStep
<1>10. CASE Enqueue(p)
  <2>1. [mem EXCEPT ![t].label = proc[p].msg] \in [Tasks -> Mem]
    BY <1>2, <1>6, ZenonT(40) DEF Mem
  <2>2. Enqueued(t) \in Seq(Tasks)
    BY <1>2, QueueType
  <2>3. queue' \in Seq(Tasks) /\ mem' \in [Tasks -> Mem]
    BY <1>6, <1>10, <2>1, <2>2 DEF Enqueue
  <2>4. UNCHANGED <<store, ledger>>
    BY <1>10 DEF Enqueue
  <2> QED
    BY <1>5, <1>6, <2>3, <2>4 DEF store, ledger, RowStep, MemStep
<1>11. CASE ReportReplaced(p)
  BY <1>2, <1>5, <1>6, <1>11, MsgType DEF ReportReplaced, store, RowStep, MemStep
<1>12. CASE ReportRefused(p)
  BY <1>2, <1>5, <1>6, <1>12, MsgType DEF ReportRefused, store, RowStep, MemStep
<1> QED
  BY <1>7, <1>8, <1>9, <1>10, <1>11, <1>12 DEF Deliver

\* and a cancel,
LEMMA CancelData ==
  ASSUME ProcInv, DataInv, Cancel
  PROVE  DataInv'
<1> DEFINE t == ApiTask
<1>1. Api \in Procs /\ proc[Api] \in Proc /\ proc[Api].pc \in RequestPcs
  BY DEF Procs, ProcInv, Cancel, CancelMark, CancelDiscard, CancelDequeue, CancelKill,
         CancelFinish, RequestPcs
<1>2. t \in Tasks /\ proc[Api].msg \in Msgs \cup {None}
  BY <1>1 DEF ProcInv, Placed, RequestPcs, Proc, ApiTask
<1>3. pumping' = pumping
  BY Zenon DEF Cancel, CancelMark, CancelDiscard, CancelDequeue, CancelKill, CancelFinish
<1>4. creating' = creating /\ sent' = sent /\ cancels' = cancels /\ restarts' = restarts
      /\ handed' = handed
  BY DEF Cancel, CancelMark, CancelDiscard, CancelDequeue, CancelKill, CancelFinish,
         store, ledger, bounds
<1>5. ASSUME RowStep, MemStep, reported' \subseteq Msgs, queue' \in Seq(Tasks),
             ends' \in [Tasks -> Nat], pending' \in [Tasks -> Seq(Msgs)]
      PROVE  DataInv'
  BY <1>3, <1>4, <1>5 DEF DataInv, RowStep, MemStep
<1>6. /\ row \in [Tasks -> Row] /\ mem \in [Tasks -> Mem] /\ queue \in Seq(Tasks)
      /\ reported \subseteq Msgs /\ ends \in [Tasks -> Nat]
      /\ pending \in [Tasks -> Seq(Msgs)] /\ pending[t] \in Seq(Msgs)
      /\ mem[t] \in Mem
  BY <1>2 DEF DataInv
<1>7. Msg(proc[Api].msg) \subseteq Msgs /\ Msg(mem[t].label) \subseteq Msgs
  BY <1>2, <1>6, MsgType DEF Mem
<1>8. [row EXCEPT ![t].status = "canceled"] \in [Tasks -> Row]
  BY <1>2, RowType, Statuses
<1>9. CASE CancelMark
  <2>1. [mem EXCEPT ![t].canceled = TRUE] \in [Tasks -> Mem]
    BY <1>2, <1>6 DEF Mem
  <2> QED
    BY <1>5, <1>6, <1>9, <2>1 DEF CancelMark, store, ledger, RowStep, MemStep
<1>10. CASE CancelDiscard
  <2>1. Elems(pending[t]) \subseteq Msgs /\ <<>> \in Seq(Msgs)
    BY <1>6, ElemsType
  <2> QED
    BY <1>2, <1>5, <1>6, <1>10, <2>1 DEF CancelDiscard, RowStep, MemStep
<1>11. CASE CancelDequeue
  <2>1. [mem EXCEPT ![t].canceled = FALSE] \in [Tasks -> Mem]
    BY <1>2, <1>6 DEF Mem
  <2>2. [mem EXCEPT ![t].parked = None] \in [Tasks -> Mem]
    BY <1>2, <1>6 DEF Mem
  <2>3. queue' \in Seq(Tasks)
    BY <1>6, <1>11, QueueType DEF CancelDequeue
  <2>4. mem' \in [Tasks -> Mem]
    BY <1>11, <2>1, <2>2 DEF CancelDequeue
  <2> QED
    BY <1>5, <1>6, <1>11, <2>3, <2>4 DEF CancelDequeue, store, ledger, RowStep, MemStep
<1>12. CASE CancelKill
  <2>1. [mem EXCEPT ![t].activeRun = None, ![t].handle = None,
                    ![t].canceled = FALSE, ![t].label = None] \in [Tasks -> Mem]
    BY <1>2, <1>6 DEF Mem
  <2> QED
    BY <1>2, <1>5, <1>6, <1>7, <1>8, <1>12, <2>1, EndsType DEF CancelKill, RowStep, MemStep
<1>13. CASE CancelFinish
  <2>1. [mem EXCEPT ![t].activeRun = None, ![t].label = None] \in [Tasks -> Mem]
    BY <1>2, <1>6 DEF Mem
  <2> QED
    BY <1>2, <1>5, <1>6, <1>7, <1>8, <1>13, <2>1, EndsType DEF CancelFinish, RowStep, MemStep
<1> QED
  BY <1>9, <1>10, <1>11, <1>12, <1>13 DEF Cancel

\* and a follow-up,
LEMMA FollowUpData ==
  ASSUME ProcInv, DataInv, FollowUp
  PROVE  DataInv'
<1> DEFINE t == ApiTask
           m == proc[Api].msg
<1>1. Api \in Procs /\ proc[Api] \in Proc /\ proc[Api].pc \in RequestPcs
  BY DEF Procs, ProcInv, FollowUp, FollowUpCheck, FollowUpQueue, FollowUpInterrupt,
         FollowUpResume, RequestPcs
<1>2. t \in Tasks
  BY <1>1 DEF ProcInv, Placed, RequestPcs, Proc, ApiTask
<1>3. pumping' = pumping
  BY Zenon DEF FollowUp, FollowUpCheck, FollowUpQueue, FollowUpInterrupt, FollowUpResume
<1>4. creating' = creating /\ cancels' = cancels /\ restarts' = restarts
      /\ handed' = handed /\ reported' = reported /\ row' = row /\ ends' = ends
  BY DEF FollowUp, FollowUpCheck, FollowUpQueue, FollowUpInterrupt, FollowUpResume,
         store, ledger, bounds
<1>5. ASSUME MemStep, queue' \in Seq(Tasks), sent' \in Seq(Msgs),
             pending' \in [Tasks -> Seq(Msgs)]
      PROVE  DataInv'
  BY <1>3, <1>4, <1>5 DEF DataInv, MemStep
<1>6. /\ mem \in [Tasks -> Mem] /\ queue \in Seq(Tasks) /\ sent \in Seq(Msgs)
      /\ pending \in [Tasks -> Seq(Msgs)] /\ pending[t] \in Seq(Msgs)
  BY <1>2 DEF DataInv
<1>7. CASE FollowUpCheck
  BY <1>5, <1>6, <1>7 DEF FollowUpCheck, store, ledger, MemStep
<1>8. m \in Msgs => Append(sent, m) \in Seq(Msgs) /\ Append(pending[t], m) \in Seq(Msgs)
  BY <1>6
<1>9. CASE FollowUpQueue
  <2>1. m \in Msgs
    BY <1>9 DEF ProcInv, Placed, FollowUpQueue, CarryPcs
  <2>2. sent' = Append(sent, m) /\ pending' = [pending EXCEPT ![t] = Append(@, m)]
    BY <1>9 DEF FollowUpQueue
  <2>3. pending' \in [Tasks -> Seq(Msgs)]
    BY <1>2, <1>6, <1>8, <2>1, <2>2
  <2> QED
    BY <1>5, <1>6, <1>8, <1>9, <2>1, <2>2, <2>3 DEF FollowUpQueue, MemStep
<1>10. CASE FollowUpInterrupt
  <2>1. m \in Msgs
    BY <1>10 DEF ProcInv, Placed, FollowUpInterrupt, CarryPcs
  <2>2. [mem EXCEPT ![t].canceled = TRUE, ![t].parked = m] \in [Tasks -> Mem]
    BY <1>2, <1>6, <2>1, ZenonT(40) DEF Mem
  <2>3. queue' \in Seq(Tasks)
    BY <1>6, <1>10, QueueType DEF FollowUpInterrupt
  <2>4. sent' \in Seq(Msgs)
    BY <1>6, <1>8, <1>10, <2>1 DEF FollowUpInterrupt
  <2>5. mem' \in [Tasks -> Mem]
    BY <1>6, <1>10, <2>2 DEF FollowUpInterrupt
  <2> QED
    BY <1>5, <1>6, <1>10, <2>3, <2>4, <2>5 DEF FollowUpInterrupt, store, MemStep
<1>11. CASE FollowUpResume
  <2>1. [mem EXCEPT ![t].parked = None, ![t].canceled = FALSE] \in [Tasks -> Mem]
    <3>1. mem[t] \in Mem
      BY <1>2, <1>6
    <3>2. [mem[t] EXCEPT !.parked = None, !.canceled = FALSE] \in Mem
      BY <3>1 DEF Mem
    <3> QED
      BY <1>2, <1>6, <3>2
  <2> QED
    BY <1>5, <1>6, <1>11, <2>1 DEF FollowUpResume, store, ledger, MemStep
<1> QED
  BY <1>7, <1>9, <1>10, <1>11 DEF FollowUp

\* and the beginning of a request,
LEMMA RequestData ==
  ASSUME DataInv, NEW t \in Tasks, Request(t)
  PROVE  DataInv'
<1>1. pumping' = pumping
  BY Zenon DEF Request, CreateInsert, CancelBegin, FollowUpBegin
<1>2. UNCHANGED <<pending, queue, mem, sent, handed, reported, ends, restarts>>
  BY DEF Request, CreateInsert, CancelBegin, FollowUpBegin, store, ledger, bounds
<1>3. [row EXCEPT ![t].status = "queued"] \in [Tasks -> Row]
  BY RowType, Statuses
<1>4. row' \in [Tasks -> Row] /\ creating' \subseteq Tasks
  BY <1>3 DEF DataInv, Request, CreateInsert, CancelBegin, FollowUpBegin, store
<1>5. cancels' \in Nat
  <2>1. cancels' = cancels \/ cancels' = cancels + 1
    BY DEF Request, CreateInsert, CancelBegin, FollowUpBegin, bounds
  <2> QED
    BY <2>1 DEF DataInv
<1> QED
  BY <1>1, <1>2, <1>4, <1>5 DEF DataInv

\* and pump,
LEMMA PumpData ==
  ASSUME DataInv, Pump
  PROVE  DataInv'
<1>1. pumping' \in BOOLEAN
  BY Zenon DEF DataInv, Pump, PumpPop, PumpReturn
<1>2. UNCHANGED <<store, ledger, bounds>>
  BY DEF Pump, PumpPop, PumpReturn
<1>3. queue' \in Seq(Tasks)
  BY QueueType DEF DataInv, Pump, PumpPop, PumpReturn
<1>4. mem' \in [Tasks -> Mem]
  <2>1. CASE UNCHANGED mem
    BY <2>1 DEF DataInv
  <2>2. ASSUME NEW r \in Runs, PumpPop(r)
        PROVE  mem' \in [Tasks -> Mem]
    <3>1. Head(queue) \in Tasks /\ mem \in [Tasks -> Mem]
      BY <2>2, QueueType DEF PumpPop, DataInv
    <3>2. mem' = [mem EXCEPT ![Head(queue)].canceled = FALSE, ![Head(queue)].activeRun = r]
      BY <2>2 DEF PumpPop
    <3> QED
      BY <3>1, <3>2, ZenonT(40) DEF Mem
  <2> QED
    BY <2>1, <2>2 DEF Pump, PumpReturn
<1> QED
  BY <1>1, <1>2, <1>3, <1>4 DEF DataInv, store, ledger, bounds

\* and a restart.
LEMMA RestartData ==
  ASSUME DataInv, Restart
  PROVE  DataInv'
<1>1. \A s \in {"failed"} : \A t \in Tasks : [row[t] EXCEPT !.status = s] \in Row
  BY Statuses DEF DataInv, Row
<1>2. row' \in [Tasks -> Row]
  BY <1>1 DEF Restart, DataInv
<1>3. ends' \in [Tasks -> Nat] /\ restarts' \in Nat
  <2>1. ends \in [Tasks -> Nat] /\ restarts \in Nat
    BY DEF DataInv
  <2>2. /\ ends' = [t \in Tasks |-> IF t \in Orphans THEN ends[t] + 1 ELSE ends[t]]
        /\ restarts' = restarts + 1
    BY DEF Restart
  <2> QED
    BY <2>1, <2>2
<1>4. Forgotten \in Mem
  BY DEF Forgotten, Mem
<1>5. mem' \in [Tasks -> Mem]
  BY <1>4 DEF Restart
<1>6. Elems(sent) \subseteq Msgs
  BY ElemsType DEF DataInv
<1>7. reported' \subseteq Msgs
  <2> DEFINE lost == UNION {InFlight(t) : t \in Orphans}
  <2>1. reported' = reported \cup (lost \cap Elems(sent))
    BY DEF Restart
  <2> HIDE DEF lost
  <2> QED
    BY <1>6, <2>1 DEF DataInv
<1>8. /\ creating' = {} /\ queue' = <<>>
      /\ pending' = pending /\ sent' = sent /\ handed' = handed /\ cancels' = cancels
  BY Zenon DEF Restart
<1>9. pumping' \in BOOLEAN
  BY Zenon DEF Restart
<1> QED
  BY <1>2, <1>3, <1>5, <1>7, <1>8, <1>9 DEF DataInv

\* Every step keeps the values of all other variables in their types.
LEMMA DataInvStep ==
  ASSUME ProcInv, DataInv, [Next]_vars
  PROVE  DataInv'
<1>1. CASE UNCHANGED vars
  BY <1>1 DEF vars, DataInv
<1>2. ASSUME NEW t \in Tasks, CreateEnqueue(t)
      PROVE  DataInv'
  <2>1. Enqueued(t) \in Seq(Tasks)
    BY QueueType
  <2>2. pumping' \in BOOLEAN
    BY <1>2 DEF CreateEnqueue
  <2> QED
    BY <1>2, <2>1, <2>2 DEF CreateEnqueue, DataInv, ledger, bounds
<1>3. CASE Recover
  <2>1. pumping' \in BOOLEAN
    BY <1>3, Zenon DEF Recover, RecoverNext, RecoverDone, DataInv
  <2>2. UNCHANGED <<store, queue, mem, ledger, bounds>>
    BY <1>3 DEF Recover, RecoverNext, RecoverDone
  <2> QED
    BY <2>1, <2>2 DEF DataInv, store, ledger, bounds
<1> QED
  BY <1>1, <1>2, <1>3, RequestData, PumpData, StartData, ExitData, EndData, DeliverData,
     CancelData, FollowUpData, RestartData DEF Next

-----------------------------------------------------------------------------
(* Types and slots *)

\* The engine starts with idle goroutines and free slots.
LEMMA InvInit == Init => ProcInv /\ DataInv
<1> SUFFICES ASSUME Init
             PROVE  ProcInv /\ DataInv
  OBVIOUS
<1>1. Api \in Procs /\ Recovery \in Procs /\ Runs \subseteq Procs
  BY DEF Procs
<1>2. proc \in [Procs -> Proc] /\ \A p \in Procs : proc[p].pc = "idle"
  BY IdleProc DEF Init
<1>3. Placed
  BY <1>1, <1>2 DEF Placed, RunPcs, ApiPcs, RecoveryPcs, CarryPcs
<1>4. {r \in Runs : HoldsSlot(r)} = {}
  BY <1>1, <1>2 DEF HoldsSlot, SlotPcs
<1>5. SlotAccounting /\ active \in 0..MaxConcurrent
  <2>1. active = 0
    BY DEF Init
  <2> QED
    BY <1>4, <2>1, FS_EmptySet, EngineAssumption DEF SlotAccounting, EngineAssumption
<1>6. row \in [Tasks -> Row] /\ mem \in [Tasks -> Mem]
  BY DEF Init, Row, Mem, Forgotten, Status
<1>7. pumping \in BOOLEAN
  BY Zenon DEF Init
<1>8. /\ pending = [t \in Tasks |-> <<>>] /\ creating = {} /\ queue = <<>> /\ sent = <<>>
      /\ handed = {} /\ reported = {} /\ ends = [t \in Tasks |-> 0]
      /\ cancels = 0 /\ restarts = 0
  BY DEF Init
<1>9. DataInv
  BY <1>6, <1>7, <1>8 DEF DataInv
<1> QED
  BY <1>2, <1>3, <1>5, <1>9 DEF ProcInv

\* The part of the invariant that stands on its own.
LEMMA CoreInvariant == Spec => [](ProcInv /\ DataInv)
<1>1. ProcInv /\ DataInv /\ [Next]_vars => (ProcInv /\ DataInv)'
  BY ProcInvStep, DataInvStep
<1> QED
  BY <1>1, InvInit, PTL DEF Spec

\* Whatever users ask for, and however the daemon dies, every variable keeps
\* its type: in particular Engine.active never leaves 0..MaxConcurrent.
THEOREM TypeCorrect == Spec => []TypeOK
<1>1. ProcInv /\ DataInv => TypeOK
  BY DEF ProcInv, DataInv, TypeOK
<1> QED
  BY <1>1, CoreInvariant, PTL

\* Engine.active is the number of goroutines between the claim of a start slot
\* and its release, whichever of the exits of startOne and runLoop they take.
THEOREM SlotsAccounted == Spec => []SlotAccounting
<1>1. ProcInv => SlotAccounting
  BY DEF ProcInv
<1> QED
  BY <1>1, CoreInvariant, PTL

-----------------------------------------------------------------------------
(***************************************************************************)
(* Second part: marks, ends, cancels and the wake-ups of pump()            *)
(***************************************************************************)

\* Only a user's own message may take a canceled task back.
ReviveIsApi == \A p \in Procs : proc[p].revive => p = Api

\* Whoever left the queue with a free slot behind is on the way to pump().
StartOwed ==
  queue # <<>> /\ active < MaxConcurrent =>
    \/ pumping
    \/ \E r \in Runs : proc[r].pc \in FinishPcs \cup DeliverPcs
    \/ \E p \in Procs : proc[p].pc = "replaced"
    \/ proc[Recovery].pc # "idle"

-----------------------------------------------------------------------------
(* What a step may do to the goroutines, seen from one that does not take it *)

Alone(p)  == \A q \in Procs : q # p => proc'[q] = proc[q]
SameJob(p) == proc'[p].task = proc[p].task /\ proc'[p].revive = proc[p].revive

Ending == FinishPcs \cup DeliverPcs

\* One goroutine steps, the others stand still.
LEMMA BecomeAlone ==
  ASSUME ProcInv, NEW p \in Procs, NEW v, Become(p, v)
  PROVE  Alone(p) /\ proc'[p] = v
BY DEF ProcInv, Become, Alone

\* The same for a step that changes the place alone.
LEMMA GotoAlone ==
  ASSUME ProcInv, NEW p \in Procs, NEW l, Goto(p, l)
  PROVE  Alone(p) /\ SameJob(p) /\ proc'[p].pc = l
<1>1. proc[p] \in Proc
  BY DEF ProcInv
<1>2. Alone(p) /\ proc'[p] = [proc[p] EXCEPT !.pc = l]
  BY BecomeAlone DEF Goto
<1> QED
  BY <1>1, <1>2 DEF SameJob, Proc

\* A start attempt goes on with its task, or is over.
LEMMA StartShape ==
  ASSUME ProcInv, NEW r \in Runs, Start(r)
  PROVE  /\ Alone(r)
         /\ proc'[r] = Idle \/ (SameJob(r) /\ proc'[r].pc \in SlotPcs)
<1>1. r \in Procs /\ proc[r] \in Proc
  BY DEF Procs, ProcInv
<1>2. CASE ReleaseSlot(r)
  BY <1>1, <1>2, BecomeAlone DEF ReleaseSlot
<1>3. ASSUME NEW l \in SlotPcs, Goto(r, l)
      PROVE  Alone(r) /\ SameJob(r) /\ proc'[r].pc \in SlotPcs
  BY <1>1, <1>3, GotoAlone
<1>4. ASSUME NEW v, Become(r, v), v.task = proc[r].task, v.revive = proc[r].revive,
             v.pc \in SlotPcs
      PROVE  Alone(r) /\ SameJob(r) /\ proc'[r].pc \in SlotPcs
  BY <1>1, <1>4, BecomeAlone DEF SameJob
<1>5. CASE StartCheck(r)
  <2> DEFINE v == [proc[r] EXCEPT !.pc = "gate", !.msg = row[proc[r].task].prompt]
  <2>1. v.task = proc[r].task /\ v.revive = proc[r].revive /\ v.pc \in SlotPcs
    BY <1>1 DEF Proc, SlotPcs
  <2> QED
    BY <1>2, <1>4, <1>5, <2>1 DEF StartCheck
<1>6. CASE StartGate(r)
  BY <1>2, <1>3, <1>6 DEF StartGate, SlotPcs
<1>7. CASE StartClaim(r)
  <2> DEFINE v == [proc[r] EXCEPT !.pc = "launch", !.msg = row[proc[r].task].prompt]
  <2>1. v.task = proc[r].task /\ v.revive = proc[r].revive /\ v.pc \in SlotPcs
    BY <1>1 DEF Proc, SlotPcs
  <2> QED
    BY <1>2, <1>4, <1>7, <2>1 DEF StartClaim
<1>8. CASE Launch(r)
  BY <1>2, <1>3, <1>8 DEF Launch, SlotPcs
<1>9. CASE Register(r)
  <2> DEFINE v == [proc[r] EXCEPT !.pc = "live", !.msg = None,
                     !.killed = mem[proc[r].task].canceled]
  <2>1. v.task = proc[r].task /\ v.revive = proc[r].revive /\ v.pc \in SlotPcs
    BY <1>1 DEF Proc, SlotPcs
  <2> QED
    BY <1>2, <1>4, <1>9, <2>1 DEF Register
<1>10. CASE StartFails(r)
  <2> DEFINE v == [proc[r] EXCEPT !.pc = "fail_event", !.allowQueued = (proc[r].pc = "gate")]
  <2>1. v.task = proc[r].task /\ v.revive = proc[r].revive /\ v.pc \in SlotPcs
    BY <1>1 DEF Proc, SlotPcs
  <2> QED
    BY <1>2, <1>4, <1>10, <2>1 DEF StartFails
<1>11. CASE FailEvent(r)
  BY <1>3, <1>11 DEF FailEvent, SlotPcs
<1>12. CASE FailFinish(r)
  BY <1>2, <1>12 DEF FailFinish
<1> QED
  BY <1>5, <1>6, <1>7, <1>8, <1>9, <1>10, <1>11, <1>12 DEF Start

\* The exit of a process leads to the end of the run, or is the end of it.
LEMMA ExitShape ==
  ASSUME ProcInv, NEW r \in Runs, Exit(r)
  PROVE  /\ Alone(r)
         /\ proc'[r] = Idle \/ (SameJob(r) /\ proc'[r].pc = "finalize")
<1> DEFINE t == proc[r].task
<1>1. r \in Procs /\ proc[r] \in Proc
  BY DEF Procs, ProcInv
<1>2. CASE Become(r, Idle)
  BY <1>1, <1>2, BecomeAlone
<1>3. ASSUME NEW result, Become(r, [proc[r] EXCEPT !.pc = "finalize", !.status = result,
                            !.msg = mem[t].parked, !.wasCanceled = mem[t].canceled])
      PROVE  Alone(r) /\ SameJob(r) /\ proc'[r].pc = "finalize"
  <2> DEFINE v == [proc[r] EXCEPT !.pc = "finalize", !.status = result,
                     !.msg = mem[t].parked, !.wasCanceled = mem[t].canceled]
  <2>1. v.task = proc[r].task /\ v.revive = proc[r].revive /\ v.pc = "finalize"
    BY <1>1 DEF Proc
  <2> QED
    BY <1>1, <1>3, <2>1, BecomeAlone DEF SameJob
<1> QED
  BY <1>2, <1>3 DEF Exit

\* Once its process has exited, a run keeps ending until it unwinds.
LEMMA EndShape ==
  ASSUME ProcInv, NEW r \in Runs, RunEnd(r)
  PROVE  /\ Alone(r)
         /\ \/ SameJob(r) /\ proc'[r].pc \in Ending
            \/ Unwind(r) /\ proc'[r] = Idle
<1>1. r \in Procs /\ proc[r] \in Proc
  BY DEF Procs, ProcInv
<1>2. ASSUME NEW l \in Ending, Goto(r, l)
      PROVE  Alone(r) /\ SameJob(r) /\ proc'[r].pc \in Ending
  BY <1>1, <1>2, GotoAlone
<1>3. CASE FinalizeSucceeds(r)
  <2> DEFINE l == IF proc[r].msg # None THEN "write"
                  ELSE IF proc[r].wasCanceled THEN "reread" ELSE "pop"
  <2>1. l \in Ending
    BY DEF Ending, FinishPcs, DeliverPcs
  <2> HIDE DEF l
  <2> QED
    BY <1>2, <1>3, <2>1 DEF FinalizeSucceeds, l
<1>4. CASE FinalizeFails(r)
  <2> DEFINE v == [proc[r] EXCEPT !.status = "failed", !.msg = None,
                     !.pc = IF proc[r].msg # None THEN "finish" ELSE "reread"]
  <2>1. v.task = proc[r].task /\ v.revive = proc[r].revive /\ v.pc \in Ending
    BY <1>1 DEF Proc, Ending, FinishPcs
  <2>2. Become(r, v)
    BY <1>4 DEF FinalizeFails
  <2> QED
    BY <1>1, <2>1, <2>2, BecomeAlone, ZenonT(40) DEF SameJob
<1>5. CASE Promote(r)
  BY <1>2, <1>5 DEF Promote, Ending, FinishPcs
<1>6. CASE Requeue(r)
  BY <1>2, <1>6 DEF Requeue, Ending, FinishPcs
<1>7. CASE Reread(r)
  <2> DEFINE canceled == row[proc[r].task].status = "canceled"
             v == [proc[r] EXCEPT !.pc     = IF canceled THEN "unwind" ELSE "finish",
                                  !.status = IF proc[r].wasCanceled THEN "canceled" ELSE @]
  <2>1. v.task = proc[r].task /\ v.revive = proc[r].revive /\ v.pc \in Ending
    BY <1>1 DEF Proc, Ending, FinishPcs
  <2>2. Become(r, v)
    BY <1>7 DEF Reread
  <2> QED
    BY <1>1, <2>1, <2>2, BecomeAlone DEF SameJob
<1>8. CASE Finish(r)
  BY <1>2, <1>8 DEF Finish, Ending, FinishPcs
<1>9. CASE Unwind(r)
  BY <1>1, <1>9, BecomeAlone DEF Unwind
<1> QED
  BY <1>3, <1>4, <1>5, <1>6, <1>7, <1>8, <1>9 DEF RunEnd

\* A delivery of a run stays in the end of that run, one of Recovery in Recovery.
LEMMA DeliverShape ==
  ASSUME ProcInv, NEW p \in Procs, Deliver(p)
  PROVE  /\ Alone(p)
         /\ p \in Runs => SameJob(p) /\ proc'[p].pc \in Ending
         /\ p = Recovery => proc'[p].pc # "idle"
         /\ p # Api => (proc'[p].revive => proc[p].revive)
<1>1. proc[p] \in Proc
  BY DEF ProcInv
<1>2. ASSUME NEW v, Become(p, v), v.task = proc[p].task, v.revive = proc[p].revive,
             v.pc \in DeliverPcs \/ (p \in Runs /\ v.pc \in Ending)
      PROVE  /\ Alone(p) /\ SameJob(p)
             /\ p \in Runs => proc'[p].pc \in Ending
             /\ p = Recovery => proc'[p].pc # "idle"
  BY <1>1, <1>2, BecomeAlone, EngineAssumption
     DEF SameJob, Ending, DeliverPcs, EngineAssumption
<1>3. ASSUME NEW l, Goto(p, l), l \in DeliverPcs \/ (p \in Runs /\ l \in Ending)
      PROVE  /\ Alone(p) /\ SameJob(p)
             /\ p \in Runs => proc'[p].pc \in Ending
             /\ p = Recovery => proc'[p].pc # "idle"
  <2> DEFINE v == [proc[p] EXCEPT !.pc = l]
  <2>1. v.task = proc[p].task /\ v.revive = proc[p].revive /\ v.pc = l
    BY <1>1 DEF Proc
  <2> QED
    BY <1>2, <1>3, <2>1 DEF Goto
<1>4. CASE Become(p, Returned(p))
  <2>1. Alone(p) /\ proc'[p] = Returned(p)
    BY <1>4, BecomeAlone
  <2>2. CASE p \in Runs
    <3>1. Returned(p) = [proc[p] EXCEPT !.pc = "unwind", !.msg = None]
      BY <2>2, EngineAssumption DEF Returned, EngineAssumption
    <3>2. Returned(p).pc = "unwind" /\ Returned(p).task = proc[p].task
          /\ Returned(p).revive = proc[p].revive
      BY <1>1, <3>1 DEF Proc
    <3> QED
      BY <2>1, <2>2, <3>2, EngineAssumption DEF SameJob, Ending, FinishPcs, EngineAssumption
  <2>3. CASE p = Recovery
    <3>1. Returned(p) = [Idle EXCEPT !.pc = "recover", !.todo = proc[p].todo]
      BY <2>3, EngineAssumption DEF Returned, EngineAssumption
    <3>2. Returned(p).pc = "recover" /\ Returned(p).revive = FALSE
      BY <3>1 DEF Idle
    <3> QED
      BY <2>1, <2>3, <3>2, EngineAssumption DEF EngineAssumption
  <2>4. CASE p = Api
    BY <2>1, <2>4, EngineAssumption DEF EngineAssumption
  <2> QED
    BY <2>2, <2>3, <2>4 DEF Procs
<1>5. CASE Pop(p)
  <2>1. CASE Goto(p, "reread") /\ p \in Runs
    BY <1>3, <2>1 DEF Ending, FinishPcs, SameJob
  <2>2. CASE Become(p, [proc[p] EXCEPT !.pc = "write", !.msg = Head(pending[proc[p].task])])
    <3> DEFINE v == [proc[p] EXCEPT !.pc = "write", !.msg = Head(pending[proc[p].task])]
    <3>1. v.task = proc[p].task /\ v.revive = proc[p].revive /\ v.pc \in DeliverPcs
      BY <1>1 DEF Proc, DeliverPcs
    <3> QED
      BY <1>2, <2>2, <3>1 DEF SameJob
  <2> QED
    BY <1>4, <1>5, <2>1, <2>2 DEF Pop
<1>6. CASE Write(p)
  BY <1>3, <1>6 DEF Write, DeliverPcs, SameJob
<1>7. CASE Invalidate(p)
  BY <1>3, <1>7 DEF Invalidate, DeliverPcs, SameJob
<1>8. CASE Enqueue(p)
  <2> DEFINE v == [proc[p] EXCEPT !.pc = "replaced", !.msg = mem[proc[p].task].label]
  <2>1. v.task = proc[p].task /\ v.revive = proc[p].revive /\ v.pc \in DeliverPcs
    BY <1>1 DEF Proc, DeliverPcs
  <2>2. Goto(p, "refused") \/ Become(p, Returned(p)) \/ Become(p, v)
    BY <1>8 DEF Enqueue
  <2> QED
    BY <1>2, <1>3, <1>4, <2>1, <2>2 DEF DeliverPcs, SameJob
<1>9. CASE ReportReplaced(p)
  BY <1>4, <1>9 DEF ReportReplaced
<1>10. CASE ReportRefused(p)
  <2> DEFINE v == [proc[p] EXCEPT !.pc = "finish", !.msg = None, !.status = "canceled"]
  <2>1. v.task = proc[p].task /\ v.revive = proc[p].revive /\ v.pc \in Ending
    BY <1>1 DEF Proc, Ending, FinishPcs
  <2>2. (p \in Runs /\ Become(p, v)) \/ Become(p, Returned(p))
    BY <1>10 DEF ReportRefused
  <2> QED
    BY <1>2, <1>4, <2>1, <2>2 DEF SameJob
<1> QED
  BY <1>5, <1>6, <1>7, <1>8, <1>9, <1>10 DEF Deliver

\* A user's request leaves every other goroutine where it is.
LEMMA RequestShape ==
  ASSUME ProcInv, Cancel \/ FollowUp \/ \E t \in Tasks : Request(t)
  PROVE  \A q \in Procs : q # Api =>
           /\ proc'[q].pc = proc[q].pc /\ proc'[q].task = proc[q].task
           /\ proc'[q].revive = proc[q].revive /\ proc'[q].status = proc[q].status
<1>1. Api \in Procs /\ proc \in [Procs -> Proc]
  BY DEF Procs, ProcInv
<1>2. CASE \E v : Become(Api, v)
  BY <1>1, <1>2, BecomeAlone DEF Alone
<1>3. CASE \E h : RequestKills(h)
  <2> TAKE q \in Procs
  <2> HAVE q # Api
  <2>1. proc[q] \in Proc
    BY <1>1
  <2>2. proc'[q] = proc[q] \/ proc'[q] = [proc[q] EXCEPT !.killed = TRUE]
    BY <1>3 DEF RequestKills
  <2> QED
    BY <2>1, <2>2 DEF Proc
<1>4. CASE UNCHANGED proc
  BY <1>4
<1>5. CASE Cancel
  <2>1. \/ \E v : Become(Api, v)
        \/ \E h : RequestKills(h)
    BY <1>5 DEF Cancel, CancelMark, CancelDiscard, CancelDequeue, CancelKill, CancelFinish,
                ApiGoto, Goto
  <2> QED
    BY <1>2, <1>3, <2>1
<1>6. CASE FollowUp
  <2>1. \/ \E v : Become(Api, v)
        \/ \E h : RequestKills(h)
    BY <1>6 DEF FollowUp, FollowUpCheck, FollowUpQueue, FollowUpInterrupt, FollowUpResume,
                ApiGoto, Goto
  <2> QED
    BY <1>2, <1>3, <2>1
<1>7. CASE \E t \in Tasks : Request(t)
  <2>1. (\E v : Become(Api, v)) \/ UNCHANGED proc
    BY <1>7 DEF Request, CreateInsert, CancelBegin, FollowUpBegin
  <2> QED
    BY <1>2, <1>4, <2>1
<1> QED
  BY <1>5, <1>6, <1>7

\* Recovery leaves its loop only through pump().
LEMMA RecoverShape ==
  ASSUME ProcInv, Recover
  PROVE  /\ Alone(Recovery)
         /\ proc'[Recovery].revive => proc[Recovery].revive
         /\ proc'[Recovery].pc # "idle" \/ pumping'
<1>1. Recovery \in Procs /\ proc[Recovery] \in Proc
  BY DEF Procs, ProcInv
<1>2. ASSUME NEW t \in Tasks, RecoverNext(t)
      PROVE  /\ Alone(Recovery) /\ proc'[Recovery].revive = proc[Recovery].revive
             /\ proc'[Recovery].pc # "idle"
  <2> DEFINE v == [proc[Recovery] EXCEPT !.pc = "pop", !.task = t, !.todo = @ \ {t}]
  <2>1. v.pc = "pop" /\ v.revive = proc[Recovery].revive
    BY <1>1 DEF Proc
  <2>2. Become(Recovery, v)
    BY <1>2 DEF RecoverNext
  <2> QED
    BY <1>1, <2>1, <2>2, BecomeAlone
<1>3. CASE RecoverDone
  <2>1. Become(Recovery, Idle) /\ pumping'
    BY <1>3 DEF RecoverDone
  <2>2. Idle.revive = FALSE
    BY DEF Idle
  <2> QED
    BY <1>1, <2>1, <2>2, BecomeAlone
<1> QED
  BY <1>2, <1>3 DEF Recover

\* What every step but a claim, an exit and an unwinding does to the entries
\* and the rows: no mark moves, an owner is at most dropped, and a task ends
\* only together with its ownership.
Tame ==
  \A t \in Tasks :
    /\ mem'[t].committing = mem[t].committing
    /\ mem'[t].activeRun \in {mem[t].activeRun, None}
    /\ row'[t].status \in Terminal =>
         row[t].status \in Terminal \/ mem'[t].activeRun = None

\* A step that touches neither rows nor maps.
LEMMA TameSame ==
  ASSUME UNCHANGED <<row, mem>>
  PROVE  Tame
BY DEF Tame

\* A finish ends the task and drops its owner together.
LEMMA TameFinish ==
  ASSUME DataInv, NEW r \in Runs, NEW s \in Status, NEW b, proc[r].task \in Tasks,
         FinishRun(r, s, b)
  PROVE  Tame
<1> DEFINE t == proc[r].task
<1>1. mem \in [Tasks -> Mem] /\ row \in [Tasks -> Row]
  BY DEF DataInv
<1>2. CASE UNCHANGED <<row, mem, ends>>
  BY <1>2, TameSame
<1>3. CASE /\ row' = [row EXCEPT ![t].status = s]
           /\ mem' = [mem EXCEPT ![t].activeRun = None]
  BY <1>1, <1>3 DEF Tame, Mem, Row
<1> QED
  BY <1>2, <1>3 DEF FinishRun

\* clearActiveRun drops at most an owner.
LEMMA TameCleared ==
  ASSUME DataInv, NEW r \in Runs, mem' = ClearedRun(r), row' = row
  PROVE  Tame
<1>1. mem \in [Tasks -> Mem]
  BY DEF DataInv
<1> QED
  BY <1>1 DEF Tame, ClearedRun, Mem

\* startOne is tame,
LEMMA StartTame ==
  ASSUME ProcInv, DataInv, NEW r \in Runs, Start(r)
  PROVE  Tame
<1> DEFINE t == proc[r].task
<1>1. mem \in [Tasks -> Mem] /\ row \in [Tasks -> Row]
  BY DEF DataInv
<1>2. CASE FailFinish(r)
  <2>1. r \in Procs /\ proc[r].pc = "fail_finish" /\ "failed" \in Status
    BY <1>2, Statuses DEF FailFinish, Procs
  <2>2. t \in Tasks
    BY <2>1 DEF ProcInv, Placed
  <2> QED
    BY <1>2, <2>1, <2>2, TameFinish DEF FailFinish
<1>3. CASE StartClaim(r)
  <2>1. CASE row' = [row EXCEPT ![t].status = "running"] /\ UNCHANGED mem
    BY <1>1, <2>1 DEF Tame, Row, Terminal
  <2> QED
    BY <1>3, <2>1, TameCleared DEF StartClaim
<1>4. CASE StartCheck(r)
  BY <1>4, TameSame, TameCleared DEF StartCheck, store
<1>5. CASE StartGate(r) \/ Launch(r) \/ StartFails(r)
  BY <1>5, TameSame DEF StartGate, Launch, StartFails, store
<1>6. CASE Register(r)
  <2>1. CASE mem' = [mem EXCEPT ![t].handle = r, ![t].label = None]
    BY <1>1, <1>6, <2>1 DEF Register, store, Tame, Mem
  <2> QED
    BY <1>6, <2>1, TameSame DEF Register, store
<1>7. CASE FailEvent(r)
  BY <1>1, <1>7 DEF FailEvent, store, Tame, Mem
<1> QED
  BY <1>2, <1>3, <1>4, <1>5, <1>6, <1>7 DEF Start

\* the end of a run is, up to its unwinding,
LEMMA EndTame ==
  ASSUME ProcInv, DataInv, NEW r \in Runs, RunEnd(r), ~Unwind(r)
  PROVE  Tame
<1> DEFINE t == proc[r].task
<1>1. mem \in [Tasks -> Mem] /\ row \in [Tasks -> Row]
  BY DEF DataInv
<1>2. CASE Finish(r)
  <2>1. r \in Procs /\ proc[r].pc = "finish"
    BY <1>2 DEF Finish, Procs
  <2>2. t \in Tasks /\ proc[r].status \in Status
    BY <2>1 DEF ProcInv, Placed, Proc
  <2> QED
    BY <1>2, <2>1, <2>2, TameFinish DEF Finish
<1>3. CASE Promote(r)
  <2>1. row' = [row EXCEPT ![t].status = "queued", ![t].ready = TRUE] /\ mem' = mem
    BY <1>3 DEF Promote
  <2> QED
    BY <1>1, <2>1 DEF Tame, Row, Terminal
<1>4. CASE FinalizeSucceeds(r) \/ FinalizeFails(r) \/ Requeue(r) \/ Reread(r)
  BY <1>4, TameSame DEF FinalizeSucceeds, FinalizeFails, Requeue, Reread, store
<1> QED
  BY <1>2, <1>3, <1>4 DEF RunEnd

\* a delivery is,
LEMMA DeliverTame ==
  ASSUME ProcInv, DataInv, NEW p \in Procs, Deliver(p)
  PROVE  Tame
<1> DEFINE t == proc[p].task
<1>1. mem \in [Tasks -> Mem] /\ row \in [Tasks -> Row]
  BY DEF DataInv
<1>2. CASE Write(p)
  <2>1. \/ row' = [row EXCEPT ![t].status = "queued", ![t].prompt = proc[p].msg]
        \/ row' = row
    BY <1>2 DEF Write
  <2>2. mem' = mem
    BY <1>2 DEF Write
  <2> QED
    BY <1>1, <2>1, <2>2 DEF Tame, Row, Terminal
<1>3. CASE Invalidate(p)
  BY <1>1, <1>3 DEF Invalidate, store, Tame, Mem
<1>4. CASE Enqueue(p)
  <2>1. row' = row /\ (mem' = mem \/ mem' = [mem EXCEPT ![t].label = proc[p].msg])
    BY <1>4 DEF Enqueue, store
  <2> QED
    BY <1>1, <2>1 DEF Tame, Mem
<1>5. CASE Pop(p) \/ ReportReplaced(p) \/ ReportRefused(p)
  BY <1>5, TameSame DEF Pop, ReportReplaced, ReportRefused, store
<1> QED
  BY <1>2, <1>3, <1>4, <1>5 DEF Deliver

\* and so are the requests and the recovery.
LEMMA RequestTame ==
  ASSUME ProcInv, DataInv, Cancel \/ FollowUp \/ Recover \/ \E t \in Tasks : Request(t)
  PROVE  Tame
<1> DEFINE t == ApiTask
<1>1. mem \in [Tasks -> Mem] /\ row \in [Tasks -> Row]
  BY DEF DataInv
<1>2. CASE CancelKill \/ CancelFinish
  <2>1. row' = [row EXCEPT ![t].status = "canceled"]
    BY <1>2 DEF CancelKill, CancelFinish
  <2>2. \/ mem' = [mem EXCEPT ![t].activeRun = None, ![t].handle = None,
                              ![t].canceled = FALSE, ![t].label = None]
        \/ mem' = [mem EXCEPT ![t].activeRun = None, ![t].label = None]
    BY <1>2 DEF CancelKill, CancelFinish
  <2> QED
    BY <1>1, <2>1, <2>2 DEF Tame, Row, Mem
<1>3. CASE CancelMark \/ CancelDiscard \/ CancelDequeue
  <2>1. row' = row
    BY <1>3 DEF CancelMark, CancelDiscard, CancelDequeue, store
  <2>2. \/ mem' = mem
        \/ mem' = [mem EXCEPT ![t].canceled = TRUE]
        \/ mem' = [mem EXCEPT ![t].canceled = FALSE]
        \/ mem' = [mem EXCEPT ![t].parked = None]
    BY <1>3 DEF CancelMark, CancelDiscard, CancelDequeue
  <2> QED
    BY <1>1, <2>1, <2>2 DEF Tame, Mem
<1>4. CASE FollowUp
  <2>1. row' = row
    BY <1>4 DEF FollowUp, FollowUpCheck, FollowUpQueue, FollowUpInterrupt, FollowUpResume, store
  <2>2. \/ mem' = mem
        \/ mem' = [mem EXCEPT ![t].canceled = TRUE, ![t].parked = proc[Api].msg]
        \/ mem' = [mem EXCEPT ![t].parked = None, ![t].canceled = FALSE]
    BY <1>4 DEF FollowUp, FollowUpCheck, FollowUpQueue, FollowUpInterrupt, FollowUpResume
  <2> QED
    BY <1>1, <2>1, <2>2 DEF Tame, Mem
<1>5. CASE Recover
  BY <1>5, TameSame DEF Recover, RecoverNext, RecoverDone, store
<1>6. ASSUME NEW u \in Tasks, Request(u)
      PROVE  Tame
  <2>1. mem' = mem /\ (row' = row \/ row' = [row EXCEPT ![u].status = "queued"])
    BY <1>6 DEF Request, CreateInsert, CancelBegin, FollowUpBegin, store
  <2> QED
    BY <1>1, <2>1 DEF Tame, Row, Terminal
<1> QED
  BY <1>2, <1>3, <1>4, <1>5, <1>6 DEF Cancel

-----------------------------------------------------------------------------
(* The committing mark *)

\* A step that moves no mark and keeps ending runs ending.
LEMMA MarksKept ==
  ASSUME DataInv, CommittingIsReleased,
         \A t \in Tasks : mem'[t].committing = mem[t].committing,
         \A r \in Runs : proc[r].pc \in Ending =>
           proc'[r].task = proc[r].task /\ proc'[r].pc \in Ending
  PROVE  CommittingIsReleased'
<1> SUFFICES ASSUME NEW t \in Tasks, mem'[t].committing # None
             PROVE  /\ proc'[mem'[t].committing].task = t
                    /\ proc'[mem'[t].committing].pc \in FinishPcs \cup DeliverPcs
  BY DEF CommittingIsReleased
<1>1. mem[t].committing \in Runs /\ mem'[t].committing = mem[t].committing
  BY DEF DataInv, Mem
<1> QED
  BY <1>1 DEF CommittingIsReleased, Ending

\* The mark moves with the exit of a process, and falls with the unwinding of
\* the same run.
LEMMA MarksStep ==
  ASSUME ProcInv, DataInv, CommittingIsReleased, [Next]_vars
  PROVE  CommittingIsReleased'
<1>0. /\ Api \notin Runs /\ Recovery \notin Runs /\ Runs \subseteq Procs /\ None \notin Runs
      /\ mem \in [Tasks -> Mem]
  BY EngineAssumption DEF EngineAssumption, Procs, DataInv
<1>1. CASE UNCHANGED <<proc, mem>>
  BY <1>1, MarksKept
<1>2. CASE UNCHANGED vars
  BY <1>1, <1>2 DEF vars
<1>3. ASSUME NEW t \in Tasks, CreateEnqueue(t)
      PROVE  CommittingIsReleased'
  BY <1>1, <1>3 DEF CreateEnqueue
<1>4. CASE PumpReturn
  BY <1>1, <1>4 DEF PumpReturn
<1>5. CASE Cancel \/ FollowUp \/ \E t \in Tasks : Request(t)
  <2>1. \A r \in Runs : proc'[r].pc = proc[r].pc /\ proc'[r].task = proc[r].task
    BY <1>0, <1>5, RequestShape
  <2> QED
    BY <1>5, <2>1, RequestTame, MarksKept DEF Tame
<1>6. CASE Recover
  <2>1. \A r \in Runs : proc'[r] = proc[r]
    BY <1>0, <1>6, RecoverShape DEF Alone
  <2> QED
    BY <1>6, <2>1, RequestTame, MarksKept DEF Tame
<1>7. ASSUME NEW r \in Runs, Start(r)
      PROVE  CommittingIsReleased'
  <2>1. proc[r].pc \notin Ending
    BY <1>7 DEF Start, StartCheck, StartGate, StartClaim, Launch, Register, StartFails,
                FailEvent, FailFinish, Ending, FinishPcs, DeliverPcs
  <2>2. Alone(r) /\ Tame
    BY <1>7, StartShape, StartTame
  <2>3. \A q \in Runs : proc[q].pc \in Ending => proc'[q] = proc[q]
    BY <1>0, <2>1, <2>2 DEF Alone
  <2> QED
    BY <2>2, <2>3, MarksKept DEF Tame
<1>8. ASSUME NEW r \in Runs, RunEnd(r), ~Unwind(r)
      PROVE  CommittingIsReleased'
  <2>1. Alone(r) /\ SameJob(r) /\ proc'[r].pc \in Ending /\ Tame
    BY <1>8, EndShape, EndTame
  <2>2. \A q \in Runs : proc[q].pc \in Ending =>
          proc'[q].task = proc[q].task /\ proc'[q].pc \in Ending
    BY <1>0, <2>1 DEF Alone, SameJob
  <2> QED
    BY <2>1, <2>2, MarksKept DEF Tame
<1>9. ASSUME NEW p \in Procs, Deliver(p)
      PROVE  CommittingIsReleased'
  <2>1. Alone(p) /\ Tame /\ (p \in Runs => SameJob(p) /\ proc'[p].pc \in Ending)
    BY <1>9, DeliverShape, DeliverTame
  <2>2. \A q \in Runs : proc[q].pc \in Ending =>
          proc'[q].task = proc[q].task /\ proc'[q].pc \in Ending
    BY <1>0, <2>1 DEF Alone, SameJob
  <2> QED
    BY <2>1, <2>2, MarksKept DEF Tame
<1>10. ASSUME NEW r \in Runs, PumpPop(r)
       PROVE  CommittingIsReleased'
  <2>1. Alone(r) /\ proc[r].pc = "idle"
    BY <1>0, <1>10, BecomeAlone DEF PumpPop, FreeRuns
  <2>2. \A t \in Tasks : mem'[t].committing = mem[t].committing
    BY <1>0, <1>10 DEF PumpPop, Mem
  <2>3. \A q \in Runs : proc[q].pc \in Ending => proc'[q] = proc[q]
    BY <1>0, <2>1 DEF Alone, Ending, FinishPcs, DeliverPcs
  <2> QED
    BY <2>2, <2>3, MarksKept
<1>11. ASSUME NEW r \in Runs, Exit(r)
       PROVE  CommittingIsReleased'
  <2> DEFINE t == proc[r].task
  <2>1. Alone(r) /\ proc[r].pc = "live" /\ t \in Tasks
    BY <1>0, <1>11, ExitShape DEF Exit, ProcInv, Placed
  <2>2. \A q \in Runs : proc[q].pc \in Ending => proc'[q] = proc[q]
    BY <1>0, <2>1 DEF Alone, Ending, FinishPcs, DeliverPcs
  <2>3. CASE ~IsActive(r)
    <3>1. mem' = mem
      BY <1>11, <2>3 DEF Exit
    <3> QED
      BY <2>2, <3>1, MarksKept
  <2>4. CASE IsActive(r)
    <3>1. mem' = [mem EXCEPT ![t].committing = r, ![t].handle = None,
                             ![t].canceled = FALSE, ![t].parked = None]
      BY <1>11, <2>4 DEF Exit
    <3>2. mem'[t].committing = r
          /\ \A u \in Tasks : u # t => mem'[u].committing = mem[u].committing
      BY <1>0, <2>1, <3>1 DEF Mem
    <3>3. proc'[r].task = t /\ proc'[r].pc = "finalize"
      <4>1. PICK result \in {"succeeded", "failed"} :
              Become(r, [proc[r] EXCEPT !.pc = "finalize", !.status = result,
                           !.msg = mem[t].parked, !.wasCanceled = mem[t].canceled])
        BY <1>11, <2>4 DEF Exit
      <4> DEFINE v == [proc[r] EXCEPT !.pc = "finalize", !.status = result,
                         !.msg = mem[t].parked, !.wasCanceled = mem[t].canceled]
      <4>2. v.pc = "finalize" /\ v.task = t
        BY <1>0 DEF ProcInv, Proc
      <4> QED
        BY <1>0, <4>1, <4>2, BecomeAlone
    <3>4. ASSUME NEW u \in Tasks, mem'[u].committing # None
          PROVE  /\ proc'[mem'[u].committing].task = u
                 /\ proc'[mem'[u].committing].pc \in FinishPcs \cup DeliverPcs
      <4>1. CASE u = t
        BY <3>2, <3>3, <4>1 DEF FinishPcs
      <4>2. CASE u # t
        <5>1. mem'[u].committing = mem[u].committing /\ mem[u].committing \in Runs
          BY <1>0, <3>2, <3>4, <4>2 DEF Mem
        <5>2. /\ proc[mem[u].committing].task = u
              /\ proc[mem[u].committing].pc \in Ending
          BY <3>4, <5>1 DEF CommittingIsReleased, Ending
        <5> QED
          BY <2>2, <5>1, <5>2 DEF Ending
      <4> QED
        BY <4>1, <4>2
    <3> QED
      BY <3>4 DEF CommittingIsReleased
  <2> QED
    BY <2>3, <2>4
<1>12. ASSUME NEW r \in Runs, Unwind(r)
       PROVE  CommittingIsReleased'
  <2> DEFINE t == proc[r].task
             a == ClearedRun(r)
  <2>1. Alone(r) /\ proc[r].pc = "unwind" /\ t \in Tasks
    BY <1>0, <1>12, BecomeAlone DEF Unwind, ProcInv, Placed
  <2>2. a \in [Tasks -> Mem] /\ \A u \in Tasks : a[u].committing = mem[u].committing
    <3>1. a \in [Tasks -> Mem]
      BY <2>1, ClearedType
    <3> QED
      BY <1>0, <2>1, <3>1, ClearedFields
  <2>3. mem' = [a EXCEPT ![t].committing = IF @ = r THEN None ELSE @]
    BY <1>12 DEF Unwind
  <2> HIDE DEF a
  <2>4. /\ \A u \in Tasks : u # t => mem'[u].committing = mem[u].committing
        /\ mem'[t].committing = IF mem[t].committing = r THEN None ELSE mem[t].committing
    BY <2>1, <2>2, <2>3 DEF Mem
  <2>5. ASSUME NEW u \in Tasks, mem'[u].committing # None
        PROVE  /\ proc'[mem'[u].committing].task = u
               /\ proc'[mem'[u].committing].pc \in FinishPcs \cup DeliverPcs
    <3>1. mem'[u].committing = mem[u].committing /\ mem[u].committing \in Runs
      BY <1>0, <2>4, <2>5 DEF Mem
    <3>2. /\ proc[mem[u].committing].task = u
          /\ proc[mem[u].committing].pc \in FinishPcs \cup DeliverPcs
      BY <2>5, <3>1 DEF CommittingIsReleased
    <3>3. mem[u].committing # r
      BY <1>0, <2>4, <2>5, <3>1, <3>2
    <3> QED
      BY <1>0, <2>1, <3>1, <3>2, <3>3 DEF Alone
  <2> QED
    BY <2>5 DEF CommittingIsReleased
<1>13. CASE Restart
  BY <1>13 DEF Restart, Forgotten, CommittingIsReleased
<1> QED
  BY <1>2, <1>3, <1>4, <1>5, <1>6, <1>7, <1>8, <1>9, <1>10, <1>11, <1>12, <1>13
     DEF Next, Pump

\* Cancel and follow-up are refused while an execution is committing.  The mark
\* they look at always names an execution of that task that is still on its way
\* out, so it is taken off again: it cannot outlive its holder.
THEOREM MarkReleased == Spec => []CommittingIsReleased
<1>1. Init => CommittingIsReleased
  BY DEF Init, Forgotten, CommittingIsReleased
<1>2. (ProcInv /\ DataInv) /\ CommittingIsReleased /\ [Next]_vars => CommittingIsReleased'
  BY MarksStep
<1> QED
  BY <1>1, <1>2, CoreInvariant, PTL DEF Spec

-----------------------------------------------------------------------------
(* Who may end a task *)

\* A tame step after which a run that goes on from its first check found its row
\* not ended.
LEMMA OwnersKept ==
  ASSUME ProcInv, DataInv, OwnedRowLive, Tame,
         \A r \in Runs : proc'[r].pc \notin {"idle", "check"} =>
           /\ proc'[r].task = proc[r].task
           /\ \/ proc[r].pc \notin {"idle", "check"}
              \/ IsActive(r)' => row'[proc[r].task].status \notin Terminal
  PROVE  OwnedRowLive'
<1> SUFFICES ASSUME NEW r \in Runs, proc'[r].pc \notin {"idle", "check"}, IsActive(r)'
             PROVE  row'[proc'[r].task].status \notin Terminal
  BY DEF OwnedRowLive
<1> DEFINE t == proc[r].task
<1>1. proc'[r].task = t /\ None \notin Runs
  BY EngineAssumption DEF EngineAssumption, Procs
<1>2. CASE proc[r].pc \in {"idle", "check"}
  BY <1>1, <1>2
<1>3. CASE proc[r].pc \notin {"idle", "check"}
  <2>1. t \in Tasks
    <3>1. proc[r].pc # "recover" /\ r \in Procs
      BY PcsApart DEF ProcInv, Placed, Procs
    <3> QED
      BY <1>3, <3>1 DEF ProcInv, Placed
  <2>2. mem'[t].activeRun = r /\ mem'[t].activeRun \in {mem[t].activeRun, None}
    BY <1>1, <2>1 DEF IsActive, Tame
  <2>3. IsActive(r)
    BY <1>1, <2>2 DEF IsActive
  <2>4. row[t].status \notin Terminal
    BY <1>3, <2>3 DEF OwnedRowLive
  <2> QED
    BY <1>1, <2>1, <2>2, <2>4 DEF Tame
<1> QED
  BY <1>2, <1>3

\* An execution becomes current before it has looked at the row, and goes on
\* only from a row that reads queued; whoever ends the task drops it.
LEMMA OwnersStep ==
  ASSUME ProcInv, DataInv, OwnedRowLive, [Next]_vars
  PROVE  OwnedRowLive'
<1>0. /\ Api \notin Runs /\ Recovery \notin Runs /\ Runs \subseteq Procs /\ None \notin Runs
      /\ mem \in [Tasks -> Mem] /\ Idle.pc = "idle"
  BY EngineAssumption, IdleProc DEF EngineAssumption, Procs, DataInv
<1>1. CASE UNCHANGED <<proc, mem, row>>
  BY <1>1 DEF OwnedRowLive, IsActive
<1>2. CASE UNCHANGED vars
  BY <1>1, <1>2 DEF vars
<1>3. ASSUME NEW t \in Tasks, CreateEnqueue(t)
      PROVE  OwnedRowLive'
  BY <1>1, <1>3 DEF CreateEnqueue
<1>4. CASE PumpReturn
  BY <1>1, <1>4 DEF PumpReturn, store
<1>5. CASE Cancel \/ FollowUp \/ \E t \in Tasks : Request(t)
  <2>1. \A r \in Runs : proc'[r].pc = proc[r].pc /\ proc'[r].task = proc[r].task
    BY <1>0, <1>5, RequestShape
  <2> QED
    BY <1>5, <2>1, RequestTame, OwnersKept
<1>6. CASE Recover
  <2>1. \A r \in Runs : proc'[r] = proc[r]
    BY <1>0, <1>6, RecoverShape DEF Alone
  <2> QED
    BY <1>6, <2>1, RequestTame, OwnersKept
<1>7. ASSUME NEW r \in Runs, Start(r)
      PROVE  OwnedRowLive'
  <2> DEFINE t == proc[r].task
  <2>1. Alone(r) /\ Tame /\ (proc'[r] = Idle \/ (SameJob(r) /\ proc'[r].pc \in SlotPcs))
    BY <1>7, StartShape, StartTame
  <2>2. proc[r].pc # "idle"
    BY <1>7 DEF Start, StartCheck, StartGate, StartClaim, Launch, Register, StartFails,
                FailEvent, FailFinish
  <2>3. CASE proc[r].pc = "check"
    <3>1. StartCheck(r)
      BY <1>7, <2>3 DEF Start, StartCheck, StartGate, StartClaim, Launch, Register, StartFails,
                        FailEvent, FailFinish
    <3>2. row' = row
      BY <3>1 DEF StartCheck, store
    <3>3. row[t].status = "queued" \/ proc'[r] = Idle
      BY <1>0, <3>1, BecomeAlone DEF StartCheck, ReleaseSlot
    <3>4. proc'[r].pc \notin {"idle", "check"} =>
            proc'[r].task = t /\ row'[t].status \notin Terminal
      BY <1>0, <2>1, <3>2, <3>3 DEF SameJob, Terminal
    <3> QED
      BY <1>0, <2>1, <3>4, OwnersKept DEF Alone
  <2>4. CASE proc[r].pc # "check"
    <3>1. proc'[r].pc \notin {"idle", "check"} => proc'[r].task = t
      BY <1>0, <2>1 DEF SameJob
    <3> QED
      BY <1>0, <2>1, <2>2, <2>4, <3>1, OwnersKept DEF Alone
  <2> QED
    BY <2>3, <2>4
<1>8. ASSUME NEW r \in Runs, RunEnd(r), ~Unwind(r)
      PROVE  OwnedRowLive'
  <2>1. Alone(r) /\ SameJob(r) /\ Tame
    BY <1>8, EndShape, EndTame
  <2>2. proc[r].pc \notin {"idle", "check"}
    BY <1>8 DEF RunEnd, FinalizeSucceeds, FinalizeFails, Promote, Requeue, Reread, Finish
  <2> QED
    BY <1>0, <2>1, <2>2, OwnersKept DEF Alone, SameJob
<1>9. ASSUME NEW p \in Procs, Deliver(p)
      PROVE  OwnedRowLive'
  <2>1. Alone(p) /\ Tame /\ (p \in Runs => SameJob(p))
    BY <1>9, DeliverShape, DeliverTame
  <2>2. proc[p].pc \notin {"idle", "check"}
    BY <1>9 DEF Deliver, Pop, Write, Invalidate, Enqueue, ReportReplaced, ReportRefused
  <2> QED
    BY <1>0, <2>1, <2>2, OwnersKept DEF Alone, SameJob
<1>10. ASSUME NEW r \in Runs, PumpPop(r)
       PROVE  OwnedRowLive'
  <2> DEFINE t == Head(queue)
             v == [Idle EXCEPT !.pc = "check", !.task = t]
  <2>1. Alone(r) /\ proc'[r] = v
    BY <1>0, <1>10, BecomeAlone DEF PumpPop
  <2>2. v.pc = "check"
    BY IdleProc DEF Idle
  <2>3. t \in Tasks /\ mem' = [mem EXCEPT ![t].canceled = FALSE, ![t].activeRun = r]
    BY <1>10, QueueType DEF PumpPop
  <2>4. \A u \in Tasks : mem'[u].activeRun \in {mem[u].activeRun, r}
    BY <1>0, <2>3 DEF Mem
  <2>5. row' = row
    BY <1>10 DEF PumpPop, store
  <2>6. ASSUME NEW q \in Runs, proc'[q].pc \notin {"idle", "check"}, IsActive(q)'
        PROVE  row'[proc'[q].task].status \notin Terminal
    <3>1. q # r
      BY <2>1, <2>2, <2>6
    <3>2. proc'[q] = proc[q]
      BY <1>0, <2>1, <3>1 DEF Alone
    <3>3. proc[q].task \in Tasks
      BY <1>0, <2>6, <3>2, PcsApart DEF ProcInv, Placed
    <3>4. IsActive(q)
      BY <2>4, <2>6, <3>1, <3>2, <3>3 DEF IsActive
    <3> QED
      BY <2>5, <2>6, <3>2, <3>4 DEF OwnedRowLive
  <2> QED
    BY <2>6 DEF OwnedRowLive
<1>11. ASSUME NEW r \in Runs, Exit(r)
       PROVE  OwnedRowLive'
  <2> DEFINE t == proc[r].task
  <2>1. /\ Alone(r) /\ proc[r].pc = "live"
        /\ proc'[r] = Idle \/ SameJob(r)
    BY <1>11, ExitShape DEF Exit
  <2>2. row' = row /\ \A u \in Tasks : mem'[u].activeRun = mem[u].activeRun
    <3> DEFINE m == [mem[t] EXCEPT !.committing = r, !.handle = None, !.canceled = FALSE, !.parked = None]
    <3>1. row' = row /\ (mem' = mem \/ mem' = [mem EXCEPT ![t] = m])
      BY <1>11 DEF Exit, store
    <3>2. t \in Tasks => m.activeRun = mem[t].activeRun
      BY <1>0 DEF Mem
    <3> HIDE DEF m
    <3> QED
      BY <1>0, <3>1, <3>2
  <2>3. ASSUME NEW q \in Runs, proc'[q].pc \notin {"idle", "check"}, IsActive(q)'
        PROVE  row'[proc'[q].task].status \notin Terminal
    <3>1. proc'[q].task = proc[q].task /\ proc[q].pc \notin {"idle", "check"}
      BY <1>0, <2>1, <2>3 DEF Alone, SameJob
    <3>2. proc[q].task \in Tasks
      BY <1>0, <3>1, PcsApart DEF ProcInv, Placed
    <3>3. IsActive(q)
      BY <2>2, <2>3, <3>1, <3>2 DEF IsActive
    <3> QED
      BY <2>2, <3>1, <3>3 DEF OwnedRowLive
  <2> QED
    BY <2>3 DEF OwnedRowLive
<1>12. ASSUME NEW r \in Runs, Unwind(r)
       PROVE  OwnedRowLive'
  <2> DEFINE t == proc[r].task
             a == ClearedRun(r)
  <2>1. Alone(r) /\ proc'[r] = Idle /\ t \in Tasks
    BY <1>0, <1>12, BecomeAlone DEF Unwind, ProcInv, Placed
  <2>2. a \in [Tasks -> Mem] /\ \A u \in Tasks : a[u].activeRun \in {mem[u].activeRun, None}
    <3>1. a \in [Tasks -> Mem]
      BY <2>1, ClearedType
    <3> QED
      BY <1>0, <2>1, <3>1, ClearedFields
  <2>3. mem' = [a EXCEPT ![t].committing = IF @ = r THEN None ELSE @] /\ row' = row
    BY <1>12 DEF Unwind, store
  <2> HIDE DEF a
  <2>4. \A u \in Tasks : mem'[u].activeRun \in {mem[u].activeRun, None}
    BY <2>1, <2>2, <2>3 DEF Mem
  <2>5. ASSUME NEW q \in Runs, proc'[q].pc \notin {"idle", "check"}, IsActive(q)'
        PROVE  row'[proc'[q].task].status \notin Terminal
    <3>1. proc'[q] = proc[q]
      BY <1>0, <2>1, <2>5 DEF Alone
    <3>2. proc[q].task \in Tasks
      BY <1>0, <2>5, <3>1, PcsApart DEF ProcInv, Placed
    <3>3. IsActive(q)
      BY <1>0, <2>4, <2>5, <3>1, <3>2 DEF IsActive
    <3> QED
      BY <2>3, <2>5, <3>1, <3>3 DEF OwnedRowLive
  <2> QED
    BY <2>5 DEF OwnedRowLive
<1>13. CASE Restart
  <2>1. \A r \in Runs : proc'[r] = Idle
    BY <1>0, <1>13 DEF Restart
  <2> QED
    BY <1>0, <2>1 DEF OwnedRowLive
<1> QED
  BY <1>2, <1>3, <1>4, <1>5, <1>6, <1>7, <1>8, <1>9, <1>10, <1>11, <1>12, <1>13
     DEF Next, Pump

\* The flag of a delivery that may take a canceled task back is the user's own.
LEMMA ReviveStep ==
  ASSUME ProcInv, DataInv, ReviveIsApi, [Next]_vars
  PROVE  ReviveIsApi'
<1>0. /\ Api \in Procs /\ Runs \subseteq Procs /\ Recovery \in Procs /\ Api # Recovery
      /\ Api \notin Runs
      /\ Idle.revive = FALSE
  BY EngineAssumption DEF EngineAssumption, Procs, Idle
<1>1. ASSUME NEW p \in Procs, Alone(p), p = Api \/ (proc'[p].revive => proc[p].revive)
      PROVE  ReviveIsApi'
  BY <1>1 DEF ReviveIsApi, Alone
<1>2. CASE UNCHANGED proc
  BY <1>2 DEF ReviveIsApi
<1>3. CASE UNCHANGED vars
  BY <1>2, <1>3 DEF vars
<1>4. ASSUME NEW t \in Tasks, CreateEnqueue(t)
      PROVE  ReviveIsApi'
  BY <1>2, <1>4 DEF CreateEnqueue
<1>5. CASE PumpReturn
  BY <1>2, <1>5 DEF PumpReturn
<1>6. CASE Cancel \/ FollowUp \/ \E t \in Tasks : Request(t)
  BY <1>6, RequestShape DEF ReviveIsApi
<1>7. CASE Recover
  BY <1>0, <1>1, <1>7, RecoverShape
<1>8. ASSUME NEW r \in Runs, Start(r)
      PROVE  ReviveIsApi'
  BY <1>0, <1>1, <1>8, StartShape DEF SameJob
<1>9. ASSUME NEW r \in Runs, RunEnd(r)
      PROVE  ReviveIsApi'
  BY <1>0, <1>1, <1>9, EndShape DEF SameJob
<1>10. ASSUME NEW r \in Runs, Exit(r)
       PROVE  ReviveIsApi'
  BY <1>0, <1>1, <1>10, ExitShape DEF SameJob
<1>11. ASSUME NEW p \in Procs, Deliver(p)
       PROVE  ReviveIsApi'
  BY <1>1, <1>11, DeliverShape
<1>12. ASSUME NEW r \in Runs, PumpPop(r)
       PROVE  ReviveIsApi'
  <2> DEFINE v == [Idle EXCEPT !.pc = "check", !.task = Head(queue)]
  <2>1. v.revive = FALSE
    BY DEF Idle
  <2>2. Become(r, v)
    BY <1>12 DEF PumpPop
  <2> QED
    BY <1>0, <1>1, <2>1, <2>2, BecomeAlone
<1>13. CASE Restart
  <2> DEFINE v == [Idle EXCEPT !.pc = "recover",
                     !.todo = Orphans \cup {t \in Tasks : pending[t] # <<>>}]
  <2>1. v.revive = FALSE
    BY DEF Idle
  <2>2. \A p \in Procs : proc'[p] = Idle \/ proc'[p] = v
    BY <1>13 DEF Restart
  <2> QED
    BY <1>0, <2>1, <2>2 DEF ReviveIsApi
<1> QED
  BY <1>3, <1>4, <1>5, <1>6, <1>7, <1>8, <1>9, <1>10, <1>11, <1>12, <1>13 DEF Next, Pump

\* Owners work on live tasks, and only Api revives.
LEMMA OwnersInvariant == Spec => [](OwnedRowLive /\ ReviveIsApi)
<1>1. Init => OwnedRowLive /\ ReviveIsApi
  <2>1. Idle.revive = FALSE /\ Idle.pc = "idle"
    BY DEF Idle
  <2> QED
    BY <2>1 DEF Init, OwnedRowLive, ReviveIsApi, Procs
<1>2. (ProcInv /\ DataInv) /\ (OwnedRowLive /\ ReviveIsApi) /\ [Next]_vars
        => (OwnedRowLive /\ ReviveIsApi)'
  BY OwnersStep, ReviveStep
<1> QED
  BY <1>1, <1>2, CoreInvariant, PTL DEF Spec

\* An execution the engine calls current never works on a task that has ended.
THEOREM OwnerWorksOnLiveTask == Spec => []OwnedRowLive
BY OwnersInvariant, PTL

\* Steps that end nothing and take nothing back.
Mild == row' = row /\ ends' = ends

\* The steps of a run that do end or requeue something, by name.
LEMMA RunMild ==
  ASSUME NEW r \in Runs, Start(r) \/ Exit(r) \/ RunEnd(r)
  PROVE  Mild \/ StartClaim(r) \/ FailFinish(r) \/ Finish(r) \/ Promote(r)
BY DEF Start, StartCheck, StartGate, Launch, Register, StartFails, FailEvent,
       Exit, RunEnd, FinalizeSucceeds, FinalizeFails, Requeue, Reread, Unwind,
       Mild, store, ledger

\* The steps that end, claim or queue a task, by name.
LEMMA StepMild ==
  ASSUME [Next]_vars
  PROVE  \/ Mild
         \/ \E t \in Tasks : CreateInsert(t)
         \/ \E r \in Runs : StartClaim(r) \/ FailFinish(r) \/ Finish(r) \/ Promote(r)
         \/ \E p \in Procs : Write(p)
         \/ CancelKill \/ CancelFinish \/ Restart
<1>1. CASE UNCHANGED vars
  BY <1>1 DEF vars, Mild
<1>2. CASE Pump \/ Recover \/ FollowUp \/ \E t \in Tasks : CreateEnqueue(t)
  BY <1>2 DEF Pump, PumpPop, PumpReturn, Recover, RecoverNext, RecoverDone, FollowUp, FollowUpCheck,
              FollowUpQueue, FollowUpInterrupt, FollowUpResume, CreateEnqueue,
              Mild, store, ledger
<1>3. CASE Cancel \/ \E t \in Tasks : Request(t)
  BY <1>3 DEF Cancel, CancelMark, CancelDiscard, CancelDequeue, Request, CancelBegin,
              FollowUpBegin, Mild, store, ledger
<1>4. CASE \E r \in Runs : Start(r) \/ Exit(r) \/ RunEnd(r)
  BY <1>4, RunMild
<1>5. CASE \E p \in Procs : Deliver(p)
  BY <1>5 DEF Deliver, Pop, Invalidate, Enqueue, ReportReplaced, ReportRefused,
              Mild, store, ledger
<1> QED
  BY <1>1, <1>2, <1>3, <1>4, <1>5 DEF Next

\* The write of a finish is the write of the current execution, and finds the
\* task not ended.
LEMMA FinishFindsLive ==
  ASSUME ProcInv, DataInv, OwnedRowLive, NEW r \in Runs,
         FailFinish(r) \/ Finish(r), ~Mild
  PROVE  /\ row[proc[r].task].status \notin Terminal /\ proc[r].task \in Tasks
         /\ row' = [row EXCEPT ![proc[r].task] = row'[proc[r].task]]
         /\ \A t \in Tasks : t # proc[r].task => ends'[t] = ends[t]
<1> DEFINE t == proc[r].task
<1>1. r \in Procs /\ proc[r].pc \in {"fail_finish", "finish"}
  BY DEF Procs, FailFinish, Finish
<1>2. t \in Tasks
  BY <1>1 DEF ProcInv, Placed
<1>3. PICK s, b : FinishRun(r, s, b)
  BY DEF FailFinish, Finish
<1>4. IsActive(r) /\ row' = [row EXCEPT ![t].status = s] /\ ends' = [ends EXCEPT ![t] = @ + 1]
  BY <1>3 DEF FinishRun, FinishWrites, Mild
<1>5. row[t].status \notin Terminal
  BY <1>1, <1>4 DEF OwnedRowLive
<1> QED
  BY <1>2, <1>4, <1>5 DEF DataInv

\* Only a write by the user's own message takes a task out of canceled.
LEMMA CancelSticksStep ==
  ASSUME ProcInv, DataInv, OwnedRowLive, ReviveIsApi, [Next]_vars, NEW t \in Tasks,
         row[t].status = "canceled", row'[t].status # "canceled"
  PROVE  proc[Api].revive /\ proc[Api].task = t
<1>0. row \in [Tasks -> Row] /\ ~Mild
  BY DEF DataInv, Mild
<1>1. ~ \E u \in Tasks : CreateInsert(u)
  BY <1>0 DEF CreateInsert, Row
<1>2. ASSUME NEW r \in Runs, StartClaim(r)
      PROVE  FALSE
  BY <1>0, <1>2 DEF StartClaim, Row
<1>3. ASSUME NEW r \in Runs, FailFinish(r) \/ Finish(r)
      PROVE  FALSE
  <2>1. /\ row[proc[r].task].status \notin Terminal /\ proc[r].task \in Tasks
        /\ row' = [row EXCEPT ![proc[r].task] = row'[proc[r].task]]
    BY <1>0, <1>3, FinishFindsLive
  <2>2. t # proc[r].task
    BY <2>1 DEF Terminal
  <2> QED
    BY <1>0, <2>1, <2>2
<1>4. ASSUME NEW r \in Runs, Promote(r)
      PROVE  FALSE
  BY <1>0, <1>4 DEF Promote, Row
<1>5. ASSUME NEW p \in Procs, Write(p)
      PROVE  proc[Api].revive /\ proc[Api].task = t
  <2>1. proc[p].task = t /\ WriteAccepted(p)
    BY <1>0, <1>5 DEF Write, Row
  <2>2. proc[p].revive
    BY <2>1 DEF WriteAccepted
  <2> QED
    BY <2>1, <2>2 DEF ReviveIsApi
<1>6. ~CancelKill /\ ~CancelFinish
  BY <1>0 DEF CancelKill, CancelFinish, Row
<1>7. ~Restart
  <2> SUFFICES ASSUME Restart PROVE FALSE
    OBVIOUS
  <2>1. t \notin Orphans
    BY DEF Orphans
  <2> QED
    BY <2>1 DEF Restart
<1> QED
  BY <1>0, <1>1, <1>2, <1>3, <1>4, <1>5, <1>6, <1>7, StepMild

\* A canceled task stays canceled until the user sends it a message: no run
\* that was on its way out, no queued follow-up and no restart takes it back.
THEOREM CanceledSticks == Spec => CancelSticks
<1>1. (ProcInv /\ DataInv) /\ (OwnedRowLive /\ ReviveIsApi) /\ [Next]_vars =>
        [\A t \in Tasks : row[t].status = "canceled" /\ row'[t].status # "canceled" =>
           proc[Api].revive /\ proc[Api].task = t]_vars
  BY CancelSticksStep
<1> QED
  BY <1>1, CoreInvariant, OwnersInvariant, PTL DEF Spec, CancelSticks

\* Only the writes of a cancel can meet a task that has ended.
LEMMA RunEndsOnceStep ==
  ASSUME ProcInv, DataInv, OwnedRowLive, [Next]_vars, NEW t \in Tasks,
         row[t].status \in Terminal, ends'[t] > ends[t]
  PROVE  proc[Api].pc \in {"c_kill", "c_finish"} /\ proc[Api].task = t
<1>0. ends \in [Tasks -> Nat] /\ ends[t] \in Nat
  BY DEF DataInv
<1>1. ~Mild /\ ends' # ends /\ ends'[t] # ends[t]
  BY <1>0 DEF Mild
<1>2. ~ \E u \in Tasks : CreateInsert(u)
  BY <1>1 DEF CreateInsert, ledger
<1>3. ASSUME NEW r \in Runs, StartClaim(r)
      PROVE  FALSE
  BY <1>1, <1>3 DEF StartClaim, ledger
<1>4. ASSUME NEW r \in Runs, FailFinish(r) \/ Finish(r)
      PROVE  FALSE
  <2>1. /\ row[proc[r].task].status \notin Terminal
        /\ \A u \in Tasks : u # proc[r].task => ends'[u] = ends[u]
    BY <1>1, <1>4, FinishFindsLive
  <2> QED
    BY <1>1, <2>1
<1>5. ASSUME NEW u \in Tasks, ends' = [ends EXCEPT ![u] = 0]
      PROVE  FALSE
  BY <1>0, <1>5
<1>6. ASSUME NEW r \in Runs, Promote(r)
      PROVE  FALSE
  <2>1. ends' = [ends EXCEPT ![proc[r].task] = 0]
    BY <1>6 DEF Promote
  <2> QED
    BY <1>0, <2>1
<1>7. ASSUME NEW p \in Procs, Write(p)
      PROVE  FALSE
  <2>1. ends' = [ends EXCEPT ![proc[p].task] = 0]
    BY <1>1, <1>7 DEF Write
  <2> QED
    BY <1>0, <2>1
<1>8. CASE CancelKill \/ CancelFinish
  <2>1. ends' = [ends EXCEPT ![ApiTask] = @ + 1] /\ proc[Api].pc \in {"c_kill", "c_finish"}
    BY <1>8 DEF CancelKill, CancelFinish
  <2> QED
    BY <1>0, <1>1, <2>1 DEF ApiTask
<1>9. ~Restart
  <2> SUFFICES ASSUME Restart PROVE FALSE
    OBVIOUS
  <2>1. t \notin Orphans
    BY DEF Orphans, Terminal
  <2>2. ends' = [u \in Tasks |-> IF u \in Orphans THEN ends[u] + 1 ELSE ends[u]]
    BY DEF Restart
  <2> QED
    BY <1>1, <2>1, <2>2
<1> QED
  BY <1>1, <1>2, <1>3, <1>4, <1>6, <1>7, <1>8, <1>9, StepMild

\* A run never writes a terminal status over a terminal status, in whatever
\* order its finish, a failed start, a restart and a cancel come in.
THEOREM RunsEndOnce == Spec => RunEndsOnce
<1>1. (ProcInv /\ DataInv) /\ (OwnedRowLive /\ ReviveIsApi) /\ [Next]_vars =>
        [\A t \in Tasks : row[t].status \in Terminal /\ ends'[t] > ends[t] =>
           proc[Api].pc \in {"c_kill", "c_finish"} /\ proc[Api].task = t]_vars
  BY RunEndsOnceStep
<1> QED
  BY <1>1, CoreInvariant, OwnersInvariant, PTL DEF Spec, RunEndsOnce

-----------------------------------------------------------------------------
(* No start is forgotten *)

\* What keeps the debt to the queue alive.
Debt ==
  \/ pumping
  \/ \E r \in Runs : proc[r].pc \in Ending
  \/ \E p \in Procs : proc[p].pc = "replaced"
  \/ proc[Recovery].pc # "idle"

\* A step that leaves somebody in pump().
LEMMA OwedPaid ==
  ASSUME pumping'
  PROVE  StartOwed'
BY DEF StartOwed

\* A step that leaves slots and queue no worse and keeps the debt.
LEMMA OwedKept ==
  ASSUME StartOwed, active' = active, queue' # <<>> => queue # <<>>, Debt => Debt'
  PROVE  StartOwed'
BY DEF StartOwed, Debt, Ending

\* Every step pays the debt, or leaves it with somebody who will.
LEMMA OwedStep ==
  ASSUME ProcInv, DataInv, StartOwed, [Next]_vars
  PROVE  StartOwed'
<1>0. /\ Api \notin Runs /\ Recovery \notin Runs /\ Runs \subseteq Procs /\ Api \in Procs
      /\ Recovery \in Procs /\ Api # Recovery
  BY EngineAssumption DEF EngineAssumption, Procs
<1>1. CASE UNCHANGED vars
  BY <1>1, OwedKept DEF vars, Debt
<1>2. ASSUME NEW t \in Tasks, CreateEnqueue(t)
      PROVE  StartOwed'
  BY <1>2, OwedPaid DEF CreateEnqueue
<1>3. CASE PumpReturn
  <2>1. UNCHANGED <<active, queue>> /\ (active >= MaxConcurrent \/ queue = <<>>)
    BY <1>3 DEF PumpReturn
  <2>2. ~(queue # <<>> /\ active < MaxConcurrent)
    BY <2>1, EngineAssumption DEF ProcInv, EngineAssumption
  <2> QED
    BY <2>1, <2>2 DEF StartOwed
<1>4. ASSUME NEW r \in Runs, PumpPop(r)
      PROVE  StartOwed'
  BY <1>4, OwedPaid DEF PumpPop
<1>5. ASSUME NEW r \in Runs, Start(r)
      PROVE  StartOwed'
  <2>1. CASE ReleaseSlot(r)
    BY <2>1, OwedPaid DEF ReleaseSlot
  <2>2. CASE ~ReleaseSlot(r)
    <3>1. UNCHANGED <<active, queue, pumping>>
      BY <1>5, <2>2 DEF Start, StartCheck, StartGate, StartClaim, Launch, Register, StartFails,
                        FailEvent, FailFinish
    <3>2. Alone(r) /\ proc[r].pc \notin Ending
      BY <1>5, StartShape DEF Start, StartCheck, StartGate, StartClaim, Launch, Register,
                              StartFails, FailEvent, FailFinish, Ending, FinishPcs, DeliverPcs
    <3>3. Debt => Debt'
      BY <1>0, <3>1, <3>2 DEF Debt, Alone, Ending, DeliverPcs
    <3> QED
      BY <3>1, <3>3, OwedKept
  <2> QED
    BY <2>1, <2>2
<1>6. ASSUME NEW r \in Runs, Exit(r)
      PROVE  StartOwed'
  <2>1. CASE IsActive(r)
    <3>1. proc'[r].pc = "finalize" \/ proc'[r] = Idle
      BY <1>6, ExitShape
    <3>2. PICK v : Become(r, v) /\ v.pc = "finalize"
      <4>1. PICK result \in {"succeeded", "failed"} :
              Become(r, [proc[r] EXCEPT !.pc = "finalize", !.status = result,
                           !.msg = mem[proc[r].task].parked,
                           !.wasCanceled = mem[proc[r].task].canceled])
        BY <1>6, <2>1 DEF Exit
      <4>2. [proc[r] EXCEPT !.pc = "finalize", !.status = result,
               !.msg = mem[proc[r].task].parked,
               !.wasCanceled = mem[proc[r].task].canceled].pc = "finalize"
        BY <1>0 DEF ProcInv, Proc
      <4> QED
        BY <4>1, <4>2
    <3>3. proc'[r].pc \in FinishPcs
      BY <1>0, <3>2, BecomeAlone DEF FinishPcs
    <3> QED
      BY <3>3 DEF StartOwed
  <2>2. CASE ~IsActive(r)
    BY <1>6, <2>2, OwedPaid DEF Exit
  <2> QED
    BY <2>1, <2>2
<1>7. ASSUME NEW r \in Runs, RunEnd(r)
      PROVE  StartOwed'
  <2>1. CASE Unwind(r)
    BY <2>1, OwedPaid DEF Unwind
  <2>2. CASE ~Unwind(r)
    <3>1. proc'[r].pc \in Ending
      BY <1>7, <2>2, EndShape
    <3> QED
      BY <3>1 DEF StartOwed, Ending
  <2> QED
    BY <2>1, <2>2
<1>8. ASSUME NEW p \in Procs, Deliver(p)
      PROVE  StartOwed'
  <2>1. CASE p \in Runs
    <3>1. proc'[p].pc \in Ending
      BY <1>8, <2>1, DeliverShape
    <3> QED
      BY <2>1, <3>1 DEF StartOwed, Ending
  <2>2. CASE p = Recovery
    <3>1. proc'[Recovery].pc # "idle"
      BY <1>8, <2>2, DeliverShape
    <3> QED
      BY <3>1 DEF StartOwed
  <2>3. CASE p = Api /\ ~Enqueue(p) /\ ~ReportReplaced(p)
    <3>1. UNCHANGED <<active, queue, pumping>> /\ proc[p].pc # "replaced"
      BY <1>8, <2>3 DEF Deliver, Pop, Write, Invalidate, ReportRefused
    <3>2. Alone(p)
      BY <1>8, DeliverShape
    <3>3. Debt => Debt'
      BY <1>0, <2>3, <3>1, <3>2 DEF Debt, Alone
    <3> QED
      BY <3>1, <3>3, OwedKept
  <2>4. CASE ReportReplaced(p)
    BY <2>4, OwedPaid DEF ReportReplaced
  <2>5. CASE p = Api /\ Enqueue(p)
    <3>1. CASE pumping'
      BY <3>1, OwedPaid
    <3>2. CASE Become(p, [proc[p] EXCEPT !.pc = "replaced", !.msg = mem[proc[p].task].label])
      <4> DEFINE v == [proc[p] EXCEPT !.pc = "replaced", !.msg = mem[proc[p].task].label]
      <4>1. v.pc = "replaced"
        BY <1>0 DEF ProcInv, Proc
      <4>2. proc'[p].pc = "replaced"
        BY <3>2, <4>1, BecomeAlone
      <4> QED
        BY <4>2 DEF StartOwed
    <3>3. CASE Goto(p, "refused") /\ UNCHANGED <<queue, pumping, active>>
      <4>1. Alone(p) /\ proc[p].pc = "enqueue"
        BY <1>8, <2>5, DeliverShape DEF Enqueue
      <4>2. Debt => Debt'
        BY <1>0, <2>5, <3>3, <4>1 DEF Debt, Alone
      <4> QED
        BY <3>3, <4>2, OwedKept
    <3> QED
      BY <2>5, <3>1, <3>2, <3>3 DEF Enqueue
  <2> QED
    BY <2>1, <2>2, <2>3, <2>4, <2>5 DEF Procs
<1>9. CASE Recover
  <2>1. proc'[Recovery].pc # "idle" \/ pumping'
    BY <1>9, RecoverShape
  <2> QED
    BY <2>1 DEF StartOwed
<1>10. CASE Cancel \/ FollowUp \/ \E t \in Tasks : Request(t)
  <2>1. UNCHANGED <<active, pumping>>
    BY <1>10 DEF Cancel, CancelMark, CancelDiscard, CancelDequeue, CancelKill, CancelFinish,
                 FollowUp, FollowUpCheck, FollowUpQueue, FollowUpInterrupt, FollowUpResume,
                 Request, CreateInsert, CancelBegin, FollowUpBegin
  <2>2. queue' # <<>> => queue # <<>>
    <3>1. queue' = queue \/ \E i \in 1..Len(queue) : queue' = Without(i)
      BY <1>10 DEF Cancel, CancelMark, CancelDiscard, CancelDequeue, CancelKill, CancelFinish,
                   FollowUp, FollowUpCheck, FollowUpQueue, FollowUpInterrupt, FollowUpResume,
                   Request, CreateInsert, CancelBegin, FollowUpBegin
    <3>2. queue \in Seq(Tasks)
      BY DEF DataInv
    <3>3. (\E i \in 1..Len(queue) : TRUE) => queue # <<>>
      BY <3>2
    <3> QED
      BY <3>1, <3>3
  <2>3. proc[Api].pc # "replaced" \/ UNCHANGED proc
    BY <1>10 DEF Cancel, CancelMark, CancelDiscard, CancelDequeue, CancelKill, CancelFinish,
                 FollowUp, FollowUpCheck, FollowUpQueue, FollowUpInterrupt, FollowUpResume,
                 Request, CreateInsert, CancelBegin, FollowUpBegin, ApiFree
  <2>4. \A q \in Procs : q # Api => proc'[q].pc = proc[q].pc
    BY <1>10, RequestShape
  <2>5. Debt => Debt'
    BY <1>0, <2>1, <2>3, <2>4 DEF Debt
  <2> QED
    BY <2>1, <2>2, <2>5, OwedKept
<1>11. CASE Restart
  <2>1. queue' = <<>>
    BY <1>11 DEF Restart
  <2> QED
    BY <2>1 DEF StartOwed
<1> QED
  BY <1>1, <1>2, <1>3, <1>4, <1>5, <1>6, <1>7, <1>8, <1>9, <1>10, <1>11 DEF Next, Pump

\* The start queue is never left behind: while a slot is free and a task waits,
\* somebody is in pump() or on a path that ends with a call of it.
THEOREM StartsRemembered == Spec => []NoLostStart
<1>1. Init => StartOwed
  BY DEF Init, StartOwed
<1>2. (ProcInv /\ DataInv) /\ StartOwed /\ [Next]_vars => StartOwed'
  BY OwedStep
<1>3. ProcInv /\ StartOwed => NoLostStart
  BY DEF ProcInv, Placed, StartOwed, NoLostStart, RecoveryPcs, Procs, DeliverPcs
<1> QED
  BY <1>1, <1>2, <1>3, CoreInvariant, PTL DEF Spec

-----------------------------------------------------------------------------
(* The engine implements the lifecycle *)

Present(t) == row[t].status # "absent"

\* Whoever works on a task works on one that Create has inserted, and so does
\* every message that waits.
WorkPresent ==
  /\ \A t \in Tasks : pending[t] # <<>> => Present(t)
  /\ \A r \in Runs : proc[r].pc \notin {"idle", "check"} => Present(proc[r].task)
  /\ proc[Api].pc # "idle" => Present(proc[Api].task)
  /\ proc[Recovery].pc \in DeliverPcs \ {"pop"} => Present(proc[Recovery].task)

\* A run whose process has exited has decided how it ends its task.
EndDecided == \A r \in Runs : proc[r].pc \in Ending => proc[r].status \in Terminal

\* Nothing of a request is left when its goroutine has returned.
ApiRests == proc[Api].pc = "idle" => ~proc[Api].revive

LifeInv == WorkPresent /\ EndDecided /\ ApiRests

-----------------------------------------------------------------------------
(* What the mapping makes of a step *)

Same == UNCHANGED <<StatusOf, ChargeOf, Working, OpenRequest>>

\* The initial states map to the initial state.
LEMMA InitMaps == Init => Lifecycle!Init
BY IdleProc DEF Init, Lifecycle!Init, StatusOf, ChargeOf, Working, OpenRequest, Forgotten,
   HoldsSlot, Idle, CancelPcs, Lifecycle!Without, SlotPcs, Procs

\* The lifecycle sees the status of a row alone,
LEMMA StatusSet ==
  ASSUME row \in [Tasks -> Row], NEW t \in Tasks, NEW s,
         \A u \in Tasks : row'[u].status = IF u = t THEN s ELSE row[u].status
  PROVE  StatusOf' = [StatusOf EXCEPT ![t] = s]
BY DEF StatusOf

\* the active-run entry of the per-task maps,
LEMMA ChargeKept ==
  ASSUME \A t \in Tasks : mem'[t].activeRun = mem[t].activeRun
  PROVE  ChargeOf' = ChargeOf
BY DEF ChargeOf

\* which a step sets for one task,
LEMMA ChargeSet ==
  ASSUME NEW t \in Tasks, NEW r,
         \A u \in Tasks : mem'[u].activeRun = IF u = t THEN r ELSE mem[u].activeRun
  PROVE  ChargeOf' = [ChargeOf EXCEPT ![t] = r]
BY DEF ChargeOf

\* which executions stand at the places of a slot,
LEMMA WorkingKept ==
  ASSUME \A r \in Runs : proc'[r].pc \in SlotPcs <=> proc[r].pc \in SlotPcs
  PROVE  Working' = Working
BY DEF Working, HoldsSlot

\* which one execution leaves
LEMMA WorkingLost ==
  ASSUME NEW r \in Runs, Alone(r), proc'[r].pc \notin SlotPcs
  PROVE  Working' = Working \ {r}
BY DEF Working, HoldsSlot, Alone, Procs

\* or takes,
LEMMA WorkingWon ==
  ASSUME NEW r \in Runs, Alone(r), proc'[r].pc \in SlotPcs
  PROVE  Working' = Working \cup {r}
BY DEF Working, HoldsSlot, Alone, Procs

\* and the goroutine of the requests.
LEMMA RequestKept ==
  ASSUME proc'[Api].task = proc[Api].task, proc'[Api].revive = proc[Api].revive,
         proc'[Api].pc \in CancelPcs <=> proc[Api].pc \in CancelPcs
  PROVE  OpenRequest' = OpenRequest
BY DEF OpenRequest

\* An execution's own step leaves the request alone.
LEMMA RequestOfOther ==
  ASSUME NEW p \in Procs \ {Api}, Alone(p)
  PROVE  OpenRequest' = OpenRequest
BY RequestKept DEF Alone, Procs

\* clearActiveRun takes the charge from its own execution or from nobody.
LEMMA ChargeCleared ==
  ASSUME DataInv, NEW r \in Runs, proc[r].task \in Tasks, mem' = ClearedRun(r)
  PROVE  \/ ChargeOf' = ChargeOf
         \/ \E t \in Tasks : ChargeOf[t] = r /\ ChargeOf' = [ChargeOf EXCEPT ![t] = None]
<1> DEFINE t == proc[r].task
<1>1. mem \in [Tasks -> Mem]
  BY DEF DataInv
<1>2. \A u \in Tasks :
        mem'[u].activeRun = IF u = t /\ mem[t].activeRun = r THEN None ELSE mem[u].activeRun
  BY <1>1 DEF ClearedRun, Mem
<1>3. CASE mem[t].activeRun = r
  <2>1. ChargeOf[t] = r
    BY <1>3 DEF ChargeOf
  <2> QED
    BY <1>2, <1>3, <2>1, ChargeSet
<1>4. CASE mem[t].activeRun # r
  BY <1>2, <1>4, ChargeKept
<1> QED
  BY <1>3, <1>4

\* A finish ends the task of the execution in charge, or does nothing.
LEMMA FinishMaps ==
  ASSUME ProcInv, DataInv, OwnedRowLive, NEW r \in Runs, NEW s \in Terminal, NEW b,
         proc[r].pc \in {"fail_finish", "finish"}, FinishRun(r, s, b), b => s = "failed",
         OpenRequest' = OpenRequest, Working' \in {Working, Working \ {r}}
  PROVE  Lifecycle!Next \/ UNCHANGED <<row, mem>>
<1> DEFINE t == proc[r].task
<1>1. row \in [Tasks -> Row] /\ mem \in [Tasks -> Mem] /\ t \in Tasks /\ None \notin Runs
  BY EngineAssumption DEF EngineAssumption, DataInv, ProcInv, Placed, Procs
<1>2. CASE FinishWrites(r, b)
  <2>1. ChargeOf[t] = r /\ ChargeOf[t] # None
    BY <1>1, <1>2 DEF FinishWrites, IsActive, ChargeOf
  <2>2. row[t].status = "running" \/ (row[t].status = "queued" /\ b)
    BY <1>2 DEF FinishWrites, OwnedRowLive
  <2>3. StatusOf[t] \in Lifecycle!Live /\ (StatusOf[t] = "queued" => s = "failed")
    BY <1>1, <2>2 DEF StatusOf, Lifecycle!Live
  <2>4. /\ row' = [row EXCEPT ![t].status = s]
        /\ mem' = [mem EXCEPT ![t].activeRun = None]
    BY <1>2 DEF FinishRun
  <2>5. /\ \A u \in Tasks : row'[u].status = IF u = t THEN s ELSE row[u].status
        /\ \A u \in Tasks : mem'[u].activeRun = IF u = t THEN None ELSE mem[u].activeRun
    BY <1>1, <2>4 DEF Row, Mem
  <2>6. /\ StatusOf' = [StatusOf EXCEPT ![t] = s]
        /\ ChargeOf' = [ChargeOf EXCEPT ![t] = None]
    BY <1>1, <2>5, StatusSet, ChargeSet
  <2>7. Lifecycle!End(t, s)
    BY <2>1, <2>3, <2>6 DEF Lifecycle!End
  <2> QED
    BY <1>1, <2>7 DEF Lifecycle!Next, Lifecycle!Terminal, Terminal
<1>3. CASE ~FinishWrites(r, b)
  BY <1>3 DEF FinishRun
<1> QED
  BY <1>2, <1>3

-----------------------------------------------------------------------------
(* Every step maps to a step of the lifecycle or to none *)

Maps == Lifecycle!Next \/ Same

\* A step that moves goroutines within the places the lifecycle tells apart.
LEMMA SameMaps ==
  ASSUME \A t \in Tasks : row'[t].status = row[t].status,
         \A t \in Tasks : mem'[t].activeRun = mem[t].activeRun,
         Working' = Working, OpenRequest' = OpenRequest
  PROVE  Maps
BY ChargeKept DEF Maps, Same, StatusOf

\* The slot of an execution goes back, perhaps with its charge.
LEMMA GiveBackMaps ==
  ASSUME NEW r \in Runs, HoldsSlot(r), Working' = Working \ {r}, OpenRequest' = OpenRequest,
         row' = row,
         \/ ChargeOf' = ChargeOf
         \/ \E t \in Tasks : ChargeOf[t] = r /\ ChargeOf' = [ChargeOf EXCEPT ![t] = None]
  PROVE  Maps
<1>1. r \in Working /\ StatusOf' = StatusOf
  BY DEF Working, StatusOf
<1>2. Lifecycle!GiveBack(r)
  BY <1>1 DEF Lifecycle!GiveBack
<1> QED
  BY <1>2 DEF Maps, Lifecycle!Next

\* Create makes a queued task,
LEMMA CreateMaps ==
  ASSUME DataInv, NEW t \in Tasks, CreateInsert(t)
  PROVE  Maps
<1>1. row \in [Tasks -> Row] /\ row' = [row EXCEPT ![t].status = "queued"] /\ mem' = mem
      /\ proc' = proc /\ row[t].status = "absent"
  BY DEF DataInv, CreateInsert
<1>2. StatusOf' = [StatusOf EXCEPT ![t] = "queued"]
  BY <1>1, StatusSet, SMTT(30) DEF Row
<1>3. ChargeOf' = ChargeOf /\ Working' = Working /\ OpenRequest' = OpenRequest
  BY <1>1 DEF ChargeOf, Working, HoldsSlot, OpenRequest
<1>4. Lifecycle!Create(t)
  BY <1>1, <1>2, <1>3 DEF Lifecycle!Create, StatusOf
<1> QED
  BY <1>4 DEF Maps, Lifecycle!Next

\* The two modules count alike.
LEMMA CountsAlike == \A S : Lifecycle!Cardinality(S) = Cardinality(S)
BY DEF Cardinality, Lifecycle!Cardinality

\* The pop of the start queue puts an execution in charge,
LEMMA PopMaps ==
  ASSUME ProcInv, DataInv, NEW r \in Runs, PumpPop(r)
  PROVE  Maps
<1> DEFINE t == Head(queue)
<1>1. /\ t \in Tasks /\ r \in Procs \ {Api} /\ mem \in [Tasks -> Mem]
  BY QueueType, EngineAssumption DEF DataInv, PumpPop, EngineAssumption, Procs
<1>2. /\ mem' = [mem EXCEPT ![t].canceled = FALSE, ![t].activeRun = r]
      /\ Become(r, [Idle EXCEPT !.pc = "check", !.task = t])
      /\ row' = row /\ active < MaxConcurrent /\ proc[r].pc = "idle"
  BY DEF PumpPop, store, FreeRuns
<1>3. Alone(r) /\ proc'[r].pc = "check"
  <2> DEFINE v == [Idle EXCEPT !.pc = "check", !.task = t]
  <2>1. v.pc = "check"
    BY DEF Idle
  <2> HIDE DEF v
  <2>2. Become(r, v) /\ r \in Procs
    BY <1>1, <1>2 DEF v
  <2> QED
    BY <2>1, <2>2, BecomeAlone
<1>4. Working' = Working \cup {r} /\ OpenRequest' = OpenRequest
  BY <1>1, <1>3, WorkingWon, RequestOfOther DEF SlotPcs
<1>5. ChargeOf' = [ChargeOf EXCEPT ![t] = r] /\ StatusOf' = StatusOf
  BY <1>1, <1>2, ChargeSet, SMTT(30) DEF Mem, StatusOf
<1>6. r \notin Working /\ Cardinality(Working) < MaxConcurrent
  BY <1>2, PcsApart DEF Working, HoldsSlot, ProcInv, SlotAccounting
<1> HIDE DEF t
<1>7. Lifecycle!Take(t, r)
  BY <1>4, <1>5, <1>6, CountsAlike DEF Lifecycle!Take
<1> QED
  BY <1>1, <1>7 DEF Maps, Lifecycle!Next

\* and its claim starts the task, or gives the slot back.
LEMMA ClaimMaps ==
  ASSUME ProcInv, DataInv, NEW r \in Runs, StartClaim(r)
  PROVE  Maps
<1> DEFINE t == proc[r].task
<1>1. /\ t \in Tasks /\ r \in Procs \ {Api} /\ row \in [Tasks -> Row] /\ HoldsSlot(r)
  BY EngineAssumption
     DEF DataInv, StartClaim, EngineAssumption, Procs, ProcInv, Placed, HoldsSlot, SlotPcs
<1>2. Alone(r) /\ OpenRequest' = OpenRequest
  BY <1>1, StartShape, RequestOfOther DEF Start
<1>3. CASE row[t].status = "queued"
  <2>1. /\ row' = [row EXCEPT ![t].status = "running"] /\ mem' = mem
        /\ Become(r, [proc[r] EXCEPT !.pc = "launch", !.msg = row[t].prompt])
    BY <1>3 DEF StartClaim
  <2>2. proc'[r].pc \in SlotPcs
    <3> DEFINE v == [proc[r] EXCEPT !.pc = "launch", !.msg = row[t].prompt]
    <3>1. v.pc = "launch" /\ r \in Procs
      BY <1>1 DEF ProcInv, Proc
    <3>2. Become(r, v)
      BY <2>1
    <3> QED
      BY <3>1, <3>2, BecomeAlone DEF SlotPcs
  <2>3. Working' = Working /\ r \in Working
    BY <1>1, <1>2, <2>2, WorkingWon DEF Working
  <2>4. StatusOf' = [StatusOf EXCEPT ![t] = "running"] /\ ChargeOf' = ChargeOf
    BY <1>1, <2>1, StatusSet DEF Row, ChargeOf
  <2>5. Lifecycle!Claim(t, r)
    BY <1>1, <1>2, <1>3, <2>3, <2>4 DEF Lifecycle!Claim, StatusOf
  <2> QED
    BY <1>1, <2>5 DEF Maps, Lifecycle!Next
<1>4. CASE row[t].status # "queued"
  <2>1. mem' = ClearedRun(r) /\ row' = row /\ ReleaseSlot(r)
    BY <1>4 DEF StartClaim
  <2>2. proc'[r].pc = "idle"
    BY <1>1, <2>1, BecomeAlone DEF ReleaseSlot, Idle
  <2>3. Working' = Working \ {r}
    BY <1>2, <2>2, WorkingLost, PcsApart
  <2> QED
    BY <1>1, <1>2, <2>1, <2>3, ChargeCleared, GiveBackMaps
<1> QED
  BY <1>3, <1>4

\* startOne: a slot that is given back, a start that fails, or nothing yet.
LEMMA StartMaps ==
  ASSUME ProcInv, DataInv, OwnedRowLive, NEW r \in Runs, Start(r)
  PROVE  Maps
<1> DEFINE t == proc[r].task
<1>1. /\ r \in Procs \ {Api} /\ HoldsSlot(r) /\ mem \in [Tasks -> Mem]
      /\ row \in [Tasks -> Row] /\ proc[r] \in Proc
  BY EngineAssumption
     DEF DataInv, EngineAssumption, Procs, ProcInv, HoldsSlot, SlotPcs, Start, StartCheck, StartGate,
         StartClaim, Launch, Register, StartFails, FailEvent, FailFinish
<1>2. t \in Tasks
  BY <1>1, PcsApart DEF ProcInv, Placed, HoldsSlot, SlotPcs
<1>3. Alone(r) /\ OpenRequest' = OpenRequest
  BY <1>1, StartShape, RequestOfOther
<1>4. CASE ReleaseSlot(r) /\ row' = row /\ (mem' = mem \/ mem' = ClearedRun(r))
  <2>1. proc'[r].pc = "idle"
    BY <1>1, <1>4, BecomeAlone DEF ReleaseSlot, Idle
  <2>2. Working' = Working \ {r}
    BY <1>3, <2>1, WorkingLost, PcsApart
  <2>3. mem' = mem => ChargeOf' = ChargeOf
    BY DEF ChargeOf
  <2> QED
    BY <1>1, <1>2, <1>3, <1>4, <2>2, <2>3, ChargeCleared, GiveBackMaps
<1>5. ASSUME NEW v, Become(r, v), v.pc \in SlotPcs, row' = row,
             \/ mem' = mem
             \/ mem' = [mem EXCEPT ![t].handle = r, ![t].label = None]
             \/ mem' = [mem EXCEPT ![t].label = None]
      PROVE  Maps
  <2>1. Working' = Working
    BY <1>1, <1>3, <1>5, BecomeAlone, WorkingWon DEF Working
  <2>2. \A u \in Tasks : mem'[u].activeRun = mem[u].activeRun
    BY <1>1, <1>5 DEF Mem
  <2> QED
    BY <1>3, <1>5, <2>1, <2>2, SameMaps
<1>6. CASE FailFinish(r)
  <2>1. /\ FinishRun(r, "failed", proc[r].allowQueued) /\ ReleaseSlot(r)
        /\ proc[r].pc = "fail_finish"
    BY <1>6 DEF FailFinish
  <2>2. proc'[r].pc = "idle"
    BY <1>1, <2>1, BecomeAlone DEF ReleaseSlot, Idle
  <2>3. Working' = Working \ {r}
    BY <1>3, <2>2, WorkingLost, PcsApart
  <2>4. Lifecycle!Next \/ UNCHANGED <<row, mem>>
    BY <1>3, <2>1, <2>3, FinishMaps DEF Terminal
  <2>5. UNCHANGED <<row, mem>> => Maps
    BY <1>4, <2>1
  <2> QED
    BY <2>4, <2>5 DEF Maps
<1>7. CASE StartClaim(r)
  BY <1>7, ClaimMaps
<1>8. ASSUME NEW l \in SlotPcs, Goto(r, l), row' = row,
             mem' = mem \/ mem' = [mem EXCEPT ![t].label = None]
      PROVE  Maps
  <2>1. [proc[r] EXCEPT !.pc = l].pc = l
    BY <1>1 DEF Proc
  <2> QED
    BY <1>5, <1>8, <2>1 DEF Goto
<1>9. CASE StartCheck(r)
  <2> DEFINE v == [proc[r] EXCEPT !.pc = "gate", !.msg = row[t].prompt]
  <2>1. v.pc \in SlotPcs
    BY <1>1 DEF Proc, SlotPcs
  <2> QED
    BY <1>4, <1>5, <1>9, <2>1 DEF StartCheck, store
<1>10. CASE StartGate(r)
  BY <1>4, <1>8, <1>10 DEF StartGate, store, SlotPcs
<1>11. CASE Launch(r)
  BY <1>4, <1>8, <1>11 DEF Launch, store, SlotPcs
<1>12. CASE Register(r)
  <2> DEFINE v == [proc[r] EXCEPT !.pc = "live", !.msg = None, !.killed = mem[t].canceled]
  <2>1. v.pc \in SlotPcs
    BY <1>1 DEF Proc, SlotPcs
  <2> QED
    BY <1>4, <1>5, <1>12, <2>1 DEF Register, store
<1>13. CASE StartFails(r)
  <2> DEFINE v == [proc[r] EXCEPT !.pc = "fail_event", !.allowQueued = (proc[r].pc = "gate")]
  <2>1. v.pc \in SlotPcs
    BY <1>1 DEF Proc, SlotPcs
  <2> QED
    BY <1>4, <1>5, <1>13, <2>1 DEF StartFails, store
<1>14. CASE FailEvent(r)
  BY <1>8, <1>14 DEF FailEvent, store, SlotPcs
<1> QED
  BY <1>6, <1>7, <1>9, <1>10, <1>11, <1>12, <1>13, <1>14 DEF Start

\* The exit of a process gives the slot back.
LEMMA ExitMaps ==
  ASSUME ProcInv, DataInv, NEW r \in Runs, Exit(r)
  PROVE  Maps
<1>1. /\ r \in Procs \ {Api} /\ HoldsSlot(r) /\ mem \in [Tasks -> Mem] /\ row' = row
  BY EngineAssumption
     DEF DataInv, EngineAssumption, Procs, HoldsSlot, SlotPcs, Exit, store
<1>2. Alone(r) /\ proc'[r].pc \notin SlotPcs
  BY ExitShape, PcsApart, IdleProc DEF SlotPcs
<1>3. Working' = Working \ {r} /\ OpenRequest' = OpenRequest
  BY <1>1, <1>2, WorkingLost, RequestOfOther
<1>4. \A u \in Tasks : mem'[u].activeRun = mem[u].activeRun
  <2> DEFINE t == proc[r].task
             m == [mem[t] EXCEPT !.committing = r, !.handle = None, !.canceled = FALSE, !.parked = None]
  <2>1. mem' = mem \/ mem' = [mem EXCEPT ![t] = m]
    BY DEF Exit
  <2>2. t \in Tasks => m.activeRun = mem[t].activeRun
    BY <1>1 DEF Mem
  <2> HIDE DEF m
  <2> QED
    BY <1>1, <2>1, <2>2
<1> QED
  BY <1>1, <1>3, <1>4, ChargeKept, GiveBackMaps

\* A task is queued again: a canceled one by the open request alone.
LEMMA RequeueMaps ==
  ASSUME DataInv, NEW t \in Tasks, Present(t),
         row[t].status = "canceled" => OpenRequest = [task |-> t, kind |-> "message"],
         \A u \in Tasks : row'[u].status = IF u = t THEN "queued" ELSE row[u].status,
         mem' = mem, Working' = Working, OpenRequest' = OpenRequest
  PROVE  Maps
<1>1. StatusOf' = [StatusOf EXCEPT ![t] = "queued"] /\ ChargeOf' = ChargeOf
  BY StatusSet DEF DataInv, ChargeOf
<1>2. Lifecycle!Requeue(t)
  BY <1>1 DEF Lifecycle!Requeue, StatusOf, Present
<1> QED
  BY <1>2 DEF Maps, Lifecycle!Next

\* The entry of a task is dropped without an end of the task.
LEMMA DismissMaps ==
  ASSUME DataInv, NEW t \in Tasks, row' = row, Working' = Working, OpenRequest' = OpenRequest,
         ChargeOf' = [ChargeOf EXCEPT ![t] = None]
  PROVE  Maps
<1>1. StatusOf' = StatusOf
  BY DEF StatusOf
<1>2. CASE ChargeOf[t] = None
  <2>1. ChargeOf' = ChargeOf
    BY <1>2 DEF ChargeOf
  <2> QED
    BY <1>1, <2>1 DEF Maps, Same
<1>3. CASE ChargeOf[t] # None
  <2>1. Lifecycle!Dismiss(t)
    BY <1>1, <1>3 DEF Lifecycle!Dismiss
  <2> QED
    BY <2>1 DEF Maps, Lifecycle!Next
<1> QED
  BY <1>2, <1>3

\* The end of a run: the finish ends the task, the promotion queues it again,
\* the unwinding dismisses the execution.
LEMMA EndMaps ==
  ASSUME ProcInv, DataInv, OwnedRowLive, LifeInv, NEW r \in Runs, RunEnd(r)
  PROVE  Maps
<1> DEFINE t == proc[r].task
<1>1. /\ r \in Procs \ {Api} /\ mem \in [Tasks -> Mem] /\ row \in [Tasks -> Row]
      /\ proc[r] \in Proc /\ proc[r].pc \in FinishPcs
  BY EngineAssumption
     DEF DataInv, EngineAssumption, Procs, ProcInv, RunEnd, FinalizeSucceeds, FinalizeFails, Promote,
         Requeue, Reread, Finish, Unwind, FinishPcs
<1>2. t \in Tasks /\ Present(t) /\ proc[r].status \in Terminal
  BY <1>1 DEF ProcInv, Placed, LifeInv, WorkPresent, EndDecided, Ending, FinishPcs
<1>3. Alone(r) /\ proc[r].pc \notin SlotPcs /\ proc'[r].pc \notin SlotPcs
  BY <1>1, EndShape, PcsApart, IdleProc DEF Ending, SlotPcs
<1>4. Working' = Working /\ OpenRequest' = OpenRequest
  BY <1>1, <1>3, WorkingLost, RequestOfOther DEF Working, HoldsSlot
<1>5. CASE FinalizeSucceeds(r) \/ FinalizeFails(r) \/ Requeue(r) \/ Reread(r)
  BY <1>4, <1>5, SameMaps DEF FinalizeSucceeds, FinalizeFails, Requeue, Reread, store
<1>6. CASE Promote(r)
  <2>1. /\ row' = [row EXCEPT ![t].status = "queued", ![t].ready = TRUE] /\ mem' = mem
        /\ row[t].status # "canceled"
    BY <1>6 DEF Promote
  <2>2. \A u \in Tasks : row'[u].status = IF u = t THEN "queued" ELSE row[u].status
    BY <1>1, <2>1 DEF Row
  <2> QED
    BY <1>2, <1>4, <2>1, <2>2, RequeueMaps
<1>7. CASE Finish(r)
  <2>1. FinishRun(r, proc[r].status, FALSE) /\ proc[r].pc = "finish"
    BY <1>7 DEF Finish
  <2>2. Lifecycle!Next \/ UNCHANGED <<row, mem>>
    <3> DEFINE b == FALSE
    <3>1. (b => proc[r].status = "failed") /\ FinishRun(r, proc[r].status, b)
      BY <2>1
    <3> HIDE DEF b
    <3> QED
      BY <1>2, <1>4, <2>1, <3>1, FinishMaps
  <2> QED
    BY <1>4, <2>2, SameMaps DEF Maps
<1>8. CASE Unwind(r)
  <2>1. row' = row /\ mem' = [ClearedRun(r) EXCEPT ![t].committing = IF @ = r THEN None ELSE @]
    BY <1>8 DEF Unwind, store
  <2>2. \A u \in Tasks : mem'[u].activeRun = ClearedRun(r)[u].activeRun
    <3>1. ClearedRun(r) \in [Tasks -> Mem]
      BY <1>2, ClearedType
    <3> QED
      BY <2>1, <3>1 DEF Mem
  <2>3. \A u \in Tasks :
          mem'[u].activeRun = IF u = t /\ mem[t].activeRun = r THEN None ELSE mem[u].activeRun
    BY <1>1, <2>2 DEF ClearedRun, Mem
  <2>4. CASE mem[t].activeRun = r
    <3>1. ChargeOf' = [ChargeOf EXCEPT ![t] = None]
      BY <1>2, <2>3, <2>4, ChargeSet
    <3> QED
      BY <1>2, <1>4, <2>1, <3>1, DismissMaps
  <2>5. CASE mem[t].activeRun # r
    BY <1>4, <2>1, <2>3, <2>5, SameMaps
  <2> QED
    BY <2>4, <2>5
<1> QED
  BY <1>5, <1>6, <1>7, <1>8 DEF RunEnd

\* A step after which the request stands as before, or is over.
LEMMA AnswerMaps ==
  ASSUME row' = row, \A t \in Tasks : mem'[t].activeRun = mem[t].activeRun, Working' = Working,
         OpenRequest' = OpenRequest \/ OpenRequest' = Lifecycle!Without
  PROVE  Maps
<1>1. StatusOf' = StatusOf /\ ChargeOf' = ChargeOf
  BY ChargeKept DEF StatusOf
<1>2. OpenRequest' = OpenRequest \/ Lifecycle!Answer
  BY <1>1 DEF Lifecycle!Answer
<1> QED
  BY <1>1, <1>2 DEF Maps, Same, Lifecycle!Next

\* Nothing is open when the goroutine of the requests has returned.
LEMMA RequestOver ==
  ASSUME proc'[Api] = Idle
  PROVE  OpenRequest' = Lifecycle!Without
BY DEF OpenRequest, Lifecycle!Without, Idle, CancelPcs

\* A request that is under way goes on with its task, or is over.
LEMMA ApiGoesOn ==
  ASSUME ProcInv, Cancel \/ FollowUp \/ Deliver(Api)
  PROVE  \/ proc'[Api] = Idle
         \/ /\ SameJob(Api) /\ proc'[Api].pc # "idle"
            /\ proc'[Api].pc \in CancelPcs <=> proc[Api].pc \in CancelPcs
<1> DEFINE t == proc[Api].task
           Goal == \/ proc'[Api] = Idle
                   \/ /\ SameJob(Api) /\ proc'[Api].pc # "idle"
                      /\ proc'[Api].pc \in CancelPcs <=> proc[Api].pc \in CancelPcs
<1>1. Api \in Procs /\ proc[Api] \in Proc /\ Api \notin Runs
  BY EngineAssumption DEF EngineAssumption, Procs, ProcInv
<1>2. ASSUME NEW l, Goto(Api, l), l # "idle", l \in CancelPcs <=> proc[Api].pc \in CancelPcs
      PROVE  Goal
  BY <1>1, <1>2, GotoAlone
<1>3. ASSUME NEW v, Become(Api, v), v.task = t, v.revive = proc[Api].revive, v.pc # "idle",
             v.pc \in CancelPcs <=> proc[Api].pc \in CancelPcs
      PROVE  Goal
  BY <1>1, <1>3, BecomeAlone DEF SameJob
<1>4. CASE Become(Api, Idle)
  BY <1>1, <1>4, BecomeAlone
<1>5. CASE Become(Api, Returned(Api))
  <2>1. Returned(Api) = Idle
    BY EngineAssumption DEF Returned, EngineAssumption
  <2> QED
    BY <1>4, <1>5, <2>1
<1>6. CASE \E h : RequestKills(h)
  BY <1>1, <1>6 DEF RequestKills
<1>7. CASE Cancel
  <2> DEFINE l == IF mem[t].handle # None THEN "c_kill" ELSE "c_finish"
             v == [proc[Api] EXCEPT !.msg = mem[t].parked, !.handle = mem[t].handle, !.pc = l]
  <2>1. proc[Api].pc \in CancelPcs
    BY <1>7 DEF Cancel, CancelMark, CancelDiscard, CancelDequeue, CancelKill, CancelFinish, CancelPcs
  <2>2. l \in CancelPcs /\ "idle" \notin CancelPcs
    BY DEF CancelPcs
  <2>3. v.task = t /\ v.revive = proc[Api].revive /\ v.pc \in CancelPcs
    BY <1>1, <2>2 DEF Proc
  <2>4. \/ Become(Api, Idle) \/ Become(Api, v) \/ \E h : RequestKills(h)
        \/ Goto(Api, "c_discard") \/ Goto(Api, "c_dequeue") \/ Goto(Api, "c_finish")
    BY <1>7 DEF Cancel, CancelMark, CancelDiscard, CancelDequeue, CancelKill, CancelFinish,
                ApiGoto, ApiTask
  <2> QED
    BY <1>2, <1>3, <1>4, <1>6, <2>1, <2>2, <2>3, <2>4 DEF CancelPcs
<1>8. CASE FollowUp
  <2> DEFINE v == [proc[Api] EXCEPT !.pc = "pop", !.msg = None]
             w == [proc[Api] EXCEPT !.pc = "f_resume", !.msg = None, !.handle = mem[t].handle]
             x == [proc[Api] EXCEPT !.pc = "write", !.msg = mem[t].parked]
  <2>1. proc[Api].pc \notin CancelPcs
    BY <1>8 DEF FollowUp, FollowUpCheck, FollowUpQueue, FollowUpInterrupt, FollowUpResume, CancelPcs
  <2>2. /\ v.task = t /\ v.revive = proc[Api].revive /\ v.pc = "pop"
        /\ w.task = t /\ w.revive = proc[Api].revive /\ w.pc = "f_resume"
        /\ x.task = t /\ x.revive = proc[Api].revive /\ x.pc = "write"
    BY <1>1 DEF Proc
  <2> HIDE DEF v, w, x
  <2>3. \/ Become(Api, Idle) \/ \E h : RequestKills(h)
        \/ Become(Api, v) \/ Become(Api, w) \/ Become(Api, x)
        \/ Goto(Api, "f_interrupt") \/ Goto(Api, "f_queue") \/ Goto(Api, "write")
    BY <1>8 DEF FollowUp, FollowUpCheck, FollowUpQueue, FollowUpInterrupt, FollowUpResume,
                ApiGoto, ApiTask, v, w, x
  <2> QED
    BY <1>2, <1>3, <1>4, <1>6, <2>1, <2>2, <2>3 DEF CancelPcs
<1>9. CASE Deliver(Api)
  <2> DEFINE v == [proc[Api] EXCEPT !.pc = "write", !.msg = Head(pending[t])]
             w == [proc[Api] EXCEPT !.pc = "replaced", !.msg = mem[t].label]
  <2>1. proc[Api].pc \notin CancelPcs
    BY <1>9 DEF Deliver, Pop, Write, Invalidate, Enqueue, ReportReplaced, ReportRefused, CancelPcs
  <2>2. /\ v.task = t /\ v.revive = proc[Api].revive /\ v.pc = "write"
        /\ w.task = t /\ w.revive = proc[Api].revive /\ w.pc = "replaced"
    BY <1>1 DEF Proc
  <2> HIDE DEF v, w
  <2>3. \/ Become(Api, Returned(Api)) \/ Become(Api, v) \/ Become(Api, w)
        \/ Goto(Api, "invalidate") \/ Goto(Api, "enqueue") \/ Goto(Api, "refused")
    BY <1>1, <1>9 DEF Deliver, Pop, Write, Invalidate, Enqueue, ReportReplaced, ReportRefused, v, w
  <2> QED
    BY <1>2, <1>3, <1>5, <2>1, <2>2, <2>3 DEF CancelPcs
<1> QED
  BY <1>7, <1>8, <1>9

\* So the request stands as before, or nothing is open any more.
LEMMA RequestGoesOn ==
  ASSUME ProcInv, Cancel \/ FollowUp \/ Deliver(Api)
  PROVE  OpenRequest' = OpenRequest \/ (proc'[Api] = Idle /\ OpenRequest' = Lifecycle!Without)
BY ApiGoesOn, RequestKept, RequestOver DEF SameJob

\* What a delivery does to the open request and to the slots.
LEMMA DeliverKeeps ==
  ASSUME ProcInv, NEW p \in Procs, Deliver(p)
  PROVE  /\ Working' = Working
         /\ OpenRequest' = OpenRequest \/ OpenRequest' = Lifecycle!Without
         /\ Write(p) \/ Invalidate(p) => OpenRequest' = OpenRequest
<1>1. proc[p] \in Proc /\ proc[p].pc \in DeliverPcs /\ Alone(p)
  BY DeliverShape DEF ProcInv, Deliver, Pop, Write, Invalidate, Enqueue, ReportReplaced, ReportRefused,
                      DeliverPcs
<1>2. Working' = Working
  <2>1. CASE p \in Runs
    <3>1. proc'[p].pc \notin SlotPcs /\ proc[p].pc \notin SlotPcs
      BY <1>1, <2>1, DeliverShape, PcsApart DEF Ending
    <3> QED
      BY <1>1, <2>1, <3>1, WorkingLost DEF Working, HoldsSlot
  <2>2. CASE p \notin Runs
    BY <1>1, <2>2, WorkingKept DEF Alone, Procs
  <2> QED
    BY <2>1, <2>2
<1>3. Write(p) \/ Invalidate(p) => proc'[p] # Idle
  BY GotoAlone, IdleProc DEF Write, Invalidate
<1> QED
  BY <1>1, <1>2, <1>3, RequestOfOther, RequestGoesOn

\* A delivery queues its task again, or dismisses the execution in charge.
LEMMA DeliverMaps ==
  ASSUME ProcInv, DataInv, ReviveIsApi, LifeInv, NEW p \in Procs, Deliver(p)
  PROVE  Maps
<1> DEFINE t == proc[p].task
<1>1. /\ mem \in [Tasks -> Mem] /\ row \in [Tasks -> Row]
      /\ proc[p] \in Proc /\ proc[p].pc \in DeliverPcs
  BY DEF DataInv, ProcInv, Deliver, Pop, Write, Invalidate, Enqueue, ReportReplaced, ReportRefused,
         DeliverPcs
<1>2. t \in Tasks
  BY <1>1 DEF ProcInv, Placed, DeliverPcs
<1>3. CASE Write(p)
  <2>1. CASE WriteAccepted(p)
    <3>1. row' = [row EXCEPT ![t].status = "queued", ![t].prompt = proc[p].msg] /\ mem' = mem
      BY <1>3, <2>1 DEF Write
    <3>2. \A u \in Tasks : row'[u].status = IF u = t THEN "queued" ELSE row[u].status
      BY <1>1, <3>1 DEF Row
    <3>3. Present(t)
      BY <1>3 DEF Write, LifeInv, WorkPresent, DeliverPcs, Procs
    <3>4. row[t].status = "canceled" => OpenRequest = [task |-> t, kind |-> "message"]
      BY <1>3, <2>1 DEF WriteAccepted, Write, ReviveIsApi, OpenRequest, CancelPcs
    <3> HIDE DEF t
    <3> QED
      BY <1>2, <1>3, <3>1, <3>2, <3>3, <3>4, DeliverKeeps, RequeueMaps
  <2>2. CASE ~WriteAccepted(p)
    BY <1>3, <2>2, DeliverKeeps, SameMaps DEF Write
  <2> QED
    BY <2>1, <2>2
<1>4. CASE Invalidate(p)
  <2>1. mem' = [mem EXCEPT ![t].activeRun = None] /\ row' = row
    BY <1>4 DEF Invalidate, store
  <2>2. \A u \in Tasks : mem'[u].activeRun = IF u = t THEN None ELSE mem[u].activeRun
    BY <1>1, <2>1 DEF Mem
  <2>3. ChargeOf' = [ChargeOf EXCEPT ![t] = None]
    BY <1>2, <2>2, ChargeSet
  <2> QED
    BY <1>2, <1>4, <2>1, <2>3, DeliverKeeps, DismissMaps
<1>5. CASE Pop(p) \/ Enqueue(p) \/ ReportReplaced(p) \/ ReportRefused(p)
  <2>1. row' = row
    BY <1>5 DEF Pop, Enqueue, ReportReplaced, ReportRefused, store
  <2>2. mem' = mem \/ mem' = [mem EXCEPT ![t].label = proc[p].msg]
    BY <1>5 DEF Pop, Enqueue, ReportReplaced, ReportRefused
  <2>3. \A u \in Tasks : mem'[u].activeRun = mem[u].activeRun
    BY <1>1, <2>2 DEF Mem
  <2> QED
    BY <2>1, <2>3, DeliverKeeps, AnswerMaps
<1> QED
  BY <1>3, <1>4, <1>5 DEF Deliver

\* The requests hold no slots.
LEMMA RequestWorks ==
  ASSUME ProcInv, Cancel \/ FollowUp \/ \E t \in Tasks : Request(t)
  PROVE  Working' = Working
<1>1. \A r \in Runs : proc'[r].pc = proc[r].pc
  BY RequestShape, EngineAssumption DEF EngineAssumption, Procs
<1> QED
  BY <1>1, WorkingKept

\* A cancel, from its mark to its write.
LEMMA CancelMaps ==
  ASSUME ProcInv, DataInv, LifeInv, Cancel
  PROVE  Maps
<1> DEFINE t == ApiTask
<1>1. /\ mem \in [Tasks -> Mem] /\ row \in [Tasks -> Row] /\ Api \in Procs
      /\ proc[Api] \in Proc /\ proc[Api].pc \in CancelPcs
  BY DEF DataInv, ProcInv, Procs, Cancel, CancelMark, CancelDiscard, CancelDequeue, CancelKill,
         CancelFinish, CancelPcs
<1>2. t \in Tasks /\ Present(t)
  BY <1>1 DEF ApiTask, ProcInv, Placed, LifeInv, WorkPresent, CancelPcs
<1>3. Working' = Working
  BY RequestWorks
<1>5. CASE CancelMark \/ CancelDiscard \/ CancelDequeue
  <2>1. row' = row
    BY <1>5 DEF CancelMark, CancelDiscard, CancelDequeue, store
  <2>2. \/ mem' = mem
        \/ mem' = [mem EXCEPT ![t].canceled = TRUE]
        \/ mem' = [mem EXCEPT ![t].canceled = FALSE]
        \/ mem' = [mem EXCEPT ![t].parked = None]
    BY <1>5 DEF CancelMark, CancelDiscard, CancelDequeue
  <2>3. \A u \in Tasks : mem'[u].activeRun = mem[u].activeRun
    BY <1>1, <2>2 DEF Mem
  <2> QED
    BY <1>3, <2>1, <2>3, RequestGoesOn, AnswerMaps
<1>4. CASE CancelKill \/ CancelFinish
  <2>1. proc'[Api] = Idle
    BY <1>1, <1>4, BecomeAlone DEF CancelKill, CancelFinish, RequestKills
  <2>2. OpenRequest' = Lifecycle!Without /\ OpenRequest = [task |-> t, kind |-> "cancel"]
    BY <1>1, <2>1, RequestOver DEF OpenRequest, ApiTask
  <2>3. /\ row' = [row EXCEPT ![t].status = "canceled"]
        /\ \/ mem' = [mem EXCEPT ![t].activeRun = None, ![t].handle = None,
                                 ![t].canceled = FALSE, ![t].label = None]
           \/ mem' = [mem EXCEPT ![t].activeRun = None, ![t].label = None]
    BY <1>4 DEF CancelKill, CancelFinish
  <2>4. /\ \A u \in Tasks : row'[u].status = IF u = t THEN "canceled" ELSE row[u].status
        /\ \A u \in Tasks : mem'[u].activeRun = IF u = t THEN None ELSE mem[u].activeRun
    BY <1>1, <2>3 DEF Row, Mem
  <2>5. /\ StatusOf' = [StatusOf EXCEPT ![t] = "canceled"]
        /\ ChargeOf' = [ChargeOf EXCEPT ![t] = None]
        /\ StatusOf[t] # "absent"
    BY <1>1, <1>2, <2>4, StatusSet, ChargeSet DEF StatusOf, Present
  <2> HIDE DEF t
  <2>6. Lifecycle!Cancel(t)
    BY <1>3, <2>2, <2>5 DEF Lifecycle!Cancel
  <2> QED
    BY <1>2, <2>6 DEF Maps, Lifecycle!Next
<1> QED
  BY <1>4, <1>5 DEF Cancel

\* A follow-up, until its delivery or its end.
LEMMA FollowUpMaps ==
  ASSUME ProcInv, DataInv, FollowUp
  PROVE  Maps
<1> DEFINE t == ApiTask
<1>1. mem \in [Tasks -> Mem] /\ row' = row
  BY DEF DataInv, FollowUp, FollowUpCheck, FollowUpQueue, FollowUpInterrupt, FollowUpResume, store
<1>2. \/ mem' = mem
      \/ mem' = [mem EXCEPT ![t].canceled = TRUE, ![t].parked = proc[Api].msg]
      \/ mem' = [mem EXCEPT ![t].parked = None, ![t].canceled = FALSE]
  BY DEF FollowUp, FollowUpCheck, FollowUpQueue, FollowUpInterrupt, FollowUpResume
<1>3. \A u \in Tasks : mem'[u].activeRun = mem[u].activeRun
  BY <1>1, <1>2 DEF Mem
<1> QED
  BY <1>1, <1>3, RequestWorks, RequestGoesOn, AnswerMaps

\* A user asks for something: a cancel of a task that has not ended, or a
\* message; the lifecycle sees a message to an ended task alone.
LEMMA AskMaps ==
  ASSUME ProcInv, DataInv, LifeInv, NEW t \in Tasks, Request(t)
  PROVE  Maps
<1>1. mem \in [Tasks -> Mem] /\ row \in [Tasks -> Row] /\ Api \in Procs
  BY DEF DataInv, Procs
<1>2. CASE CreateInsert(t)
  BY <1>2, CreateMaps
<1>3. ASSUME ApiFree
      PROVE  OpenRequest = Lifecycle!Without
  BY <1>3 DEF ApiFree, OpenRequest, Lifecycle!Without, CancelPcs, LifeInv, ApiRests
<1>4. CASE CancelBegin(t)
  <2> DEFINE v == [Idle EXCEPT !.pc = "c_mark", !.task = t]
  <2>1. v.pc = "c_mark" /\ v.task = t
    BY DEF Idle
  <2>2. Become(Api, v) /\ ApiFree /\ row[t].status \in {"queued", "running"} /\ UNCHANGED <<row, mem>>
    BY <1>4 DEF CancelBegin, store
  <2>3. proc'[Api] = v
    BY <1>1, <2>2, BecomeAlone
  <2>4. OpenRequest' = [task |-> t, kind |-> "cancel"]
    BY <2>1, <2>3 DEF OpenRequest, CancelPcs
  <2>5. Lifecycle!Ask(t, "cancel")
    BY <1>3, <1>4, <2>2, <2>4, RequestWorks
       DEF Lifecycle!Ask, Lifecycle!Live, StatusOf, ChargeOf, Request
  <2> QED
    BY <2>5 DEF Maps, Lifecycle!Next
<1>5. ASSUME NEW m \in Msgs, NEW k \in AllOps, FollowUpBegin(t, m, k)
      PROVE  Maps
  <2> DEFINE v == [Idle EXCEPT !.pc = "f_check", !.task = t, !.msg = m,
                     !.revive = (row[t].status \in Terminal), !.interrupt = (k = "interrupt")]
  <2>1. v.pc = "f_check" /\ v.task = t /\ v.revive = (row[t].status \in Terminal)
    BY DEF Idle
  <2>2. Become(Api, v) /\ ApiFree /\ UNCHANGED <<row, mem>>
    BY <1>5 DEF FollowUpBegin, store
  <2>3. proc'[Api] = v
    BY <1>1, <2>2, BecomeAlone
  <2>4. Working' = Working
    BY <1>5, RequestWorks DEF Request
  <2>5. CASE row[t].status \in Terminal
    <3>1. OpenRequest' = [task |-> t, kind |-> "message"]
      BY <2>1, <2>3, <2>5 DEF OpenRequest, CancelPcs
    <3>2. Lifecycle!Ask(t, "message")
      BY <1>3, <2>2, <2>4, <2>5, <3>1
         DEF Lifecycle!Ask, Lifecycle!Terminal, Terminal, StatusOf, ChargeOf
    <3> QED
      BY <3>2 DEF Maps, Lifecycle!Next
  <2>6. CASE row[t].status \notin Terminal
    <3>1. OpenRequest' = Lifecycle!Without
      BY <2>1, <2>3, <2>6 DEF OpenRequest, CancelPcs, Lifecycle!Without
    <3> QED
      BY <2>2, <2>4, <3>1, AnswerMaps
  <2> QED
    BY <2>5, <2>6
<1> QED
  BY <1>2, <1>4, <1>5 DEF Request

\* Recovery's own steps are its alone.
LEMMA RecoverMaps ==
  ASSUME ProcInv, DataInv, Recover
  PROVE  Maps
<1>1. UNCHANGED <<row, mem>> /\ Alone(Recovery) /\ Recovery \in Procs \ {Api} /\ Recovery \notin Runs
  BY RecoverShape, EngineAssumption
     DEF Recover, RecoverNext, RecoverDone, store, Procs, EngineAssumption
<1>2. Working' = Working
  BY <1>1, WorkingKept DEF Alone, Procs
<1> QED
  BY <1>1, <1>2, RequestOfOther, SameMaps

\* The daemon dies.
LEMMA CrashMaps ==
  ASSUME DataInv, Restart
  PROVE  Maps
<1>1. /\ Api \in Procs /\ Api # Recovery /\ Recovery \notin Runs /\ Runs \subseteq Procs
      /\ row \in [Tasks -> Row]
  BY EngineAssumption DEF EngineAssumption, Procs, DataInv
<1>2. proc'[Api] = Idle /\ \A r \in Runs : proc'[r] = Idle
  BY <1>1 DEF Restart
<1>3. OpenRequest' = Lifecycle!Without /\ Working' = {}
  BY <1>2, RequestOver, PcsApart DEF Working, HoldsSlot, Idle
<1>4. ChargeOf' = [t \in Tasks |-> None]
  BY DEF Restart, ChargeOf, Forgotten
<1>5. \A t \in Tasks :
        row'[t].status = IF row[t].status \in {"queued", "running"} THEN "failed" ELSE row[t].status
  BY <1>1 DEF Restart, Orphans, Row
<1>6. Lifecycle!Crash
  BY <1>3, <1>4, <1>5 DEF Lifecycle!Crash, Lifecycle!Live, StatusOf, Lifecycle!Without
<1> QED
  BY <1>6 DEF Maps, Lifecycle!Next

\* Every step of the engine is a step of the lifecycle or none.
LEMMA StepMaps ==
  ASSUME ProcInv, DataInv, OwnedRowLive, ReviveIsApi, LifeInv, [Next]_vars
  PROVE  Maps
<1>1. ASSUME UNCHANGED <<row, mem, proc>>
      PROVE  Maps
  BY <1>1 DEF Maps, Same, StatusOf, ChargeOf, Working, HoldsSlot, OpenRequest
<1>2. CASE UNCHANGED vars
  BY <1>1, <1>2 DEF vars
<1>3. CASE PumpReturn \/ \E t \in Tasks : CreateEnqueue(t)
  BY <1>1, <1>3 DEF PumpReturn, CreateEnqueue, store
<1> QED
  BY <1>2, <1>3, PopMaps, StartMaps, ExitMaps, EndMaps, DeliverMaps, CancelMaps, FollowUpMaps,
     AskMaps, RecoverMaps, CrashMaps DEF Next, Pump

-----------------------------------------------------------------------------
(* LifeInv is inductive *)

\* A row that Create has inserted is there for good.
LEMMA RowsStay ==
  ASSUME ProcInv, DataInv, EndDecided, [Next]_vars, NEW t \in Tasks, Present(t)
  PROVE  Present(t)'
<1>1. row \in [Tasks -> Row]
  BY DEF DataInv
<1>2. ASSUME NEW u, NEW s, s # "absent",
             \/ row' = [row EXCEPT ![u].status = s]
             \/ row' = [row EXCEPT ![u].status = s, ![u].ready = TRUE]
             \/ \E m : row' = [row EXCEPT ![u].status = s, ![u].prompt = m]
      PROVE  Present(t)'
  BY <1>1, <1>2 DEF Present, Row
<1>3. CASE Mild
  BY <1>3 DEF Mild, Present
<1>4. CASE \E u \in Tasks : CreateInsert(u)
  BY <1>2, <1>4 DEF CreateInsert
<1>5. ASSUME NEW r \in Runs, StartClaim(r) \/ Promote(r)
      PROVE  Present(t)'
  BY <1>2, <1>5, <1>3, ZenonT(40) DEF StartClaim, Promote, Present
<1>6. ASSUME NEW r \in Runs, FailFinish(r) \/ Finish(r), ~Mild
      PROVE  Present(t)'
  <2>1. PICK s \in Terminal : \E b : FinishRun(r, s, b)
    BY <1>6 DEF FailFinish, Finish, EndDecided, Ending, FinishPcs, Terminal
  <2>2. row' = [row EXCEPT ![proc[r].task].status = s]
    BY <1>6, <2>1 DEF FinishRun, Mild
  <2>3. s # "absent"
    BY <2>1 DEF Terminal
  <2> QED
    BY <1>2, <2>2, <2>3
<1>7. ASSUME NEW p \in Procs, Write(p)
      PROVE  Present(t)'
  <2>1. row' = row \/ row' = [row EXCEPT ![proc[p].task].status = "queued",
                                         ![proc[p].task].prompt = proc[p].msg]
    BY <1>7 DEF Write
  <2> QED
    BY <1>2, <2>1 DEF Present
<1>8. CASE CancelKill \/ CancelFinish
  BY <1>2, <1>8 DEF CancelKill, CancelFinish
<1>9. CASE Restart
  BY <1>1, <1>9 DEF Restart, Present, Row
<1> QED
  BY <1>3, <1>4, <1>5, <1>6, <1>7, <1>8, <1>9, StepMild

\* The end of a run keeps a decision, or makes another one.
LEMMA EndDecides ==
  ASSUME ProcInv, NEW r \in Runs, RunEnd(r) \/ Deliver(r), proc[r].status \in Terminal
  PROVE  proc'[r] = Idle \/ proc'[r].status \in Terminal
<1> DEFINE t == proc[r].task
           Goal == proc'[r] = Idle \/ proc'[r].status \in Terminal
<1>1. r \in Procs /\ proc[r] \in Proc /\ r # Api /\ r # Recovery
  BY EngineAssumption DEF EngineAssumption, Procs, ProcInv
<1>2. ASSUME NEW v, Become(r, v), v.status \in Terminal
      PROVE  Goal
  BY <1>1, <1>2, BecomeAlone
<1>3. ASSUME NEW l, Goto(r, l)
      PROVE  Goal
  <2>1. [proc[r] EXCEPT !.pc = l].status = proc[r].status
    BY <1>1 DEF Proc
  <2> QED
    BY <1>2, <1>3, <2>1 DEF Goto
<1>4. CASE Become(r, Returned(r))
  <2>1. Returned(r) = [proc[r] EXCEPT !.pc = "unwind", !.msg = None]
    BY <1>1 DEF Returned
  <2>2. Returned(r).status = proc[r].status
    BY <1>1, <2>1 DEF Proc
  <2> QED
    BY <1>2, <1>4, <2>2
<1>5. CASE RunEnd(r)
  <2> DEFINE v == [proc[r] EXCEPT !.status = "failed", !.msg = None,
                     !.pc = IF proc[r].msg # None THEN "finish" ELSE "reread"]
             canceled == row[t].status = "canceled"
             w == [proc[r] EXCEPT !.pc     = IF canceled THEN "unwind" ELSE "finish",
                                  !.status = IF proc[r].wasCanceled THEN "canceled" ELSE @]
  <2>1. v.status \in Terminal /\ w.status \in Terminal
    BY <1>1 DEF Proc, Terminal
  <2> HIDE DEF v, w
  <2>2. (\E l : Goto(r, l)) \/ Become(r, v) \/ Become(r, w) \/ Become(r, Idle)
    BY <1>5 DEF RunEnd, FinalizeSucceeds, FinalizeFails, Promote, Requeue, Reread, Finish, Unwind, v, w
  <2> QED
    BY <1>1, <1>2, <1>3, <2>1, <2>2, BecomeAlone
<1>6. CASE Deliver(r)
  <2> DEFINE v == [proc[r] EXCEPT !.pc = "write", !.msg = Head(pending[t])]
             w == [proc[r] EXCEPT !.pc = "replaced", !.msg = mem[t].label]
             x == [proc[r] EXCEPT !.pc = "finish", !.msg = None, !.status = "canceled"]
  <2>1. v.status \in Terminal /\ w.status \in Terminal /\ x.status \in Terminal
    BY <1>1 DEF Proc, Terminal
  <2> HIDE DEF v, w, x
  <2>2. \/ \E l : Goto(r, l)
        \/ Become(r, Returned(r)) \/ Become(r, v) \/ Become(r, w) \/ Become(r, x)
    BY <1>1, <1>6 DEF Deliver, Pop, Write, Invalidate, Enqueue, ReportReplaced, ReportRefused, v, w, x
  <2> QED
    BY <1>2, <1>3, <1>4, <2>1, <2>2
<1> QED
  BY <1>5, <1>6

\* What LifeInv says of one execution, in the next state.
RunFine(r) ==
  /\ proc'[r].pc \notin {"idle", "check"} => row'[proc'[r].task].status # "absent"
  /\ proc'[r].pc \in Ending => proc'[r].status \in Terminal

\* An execution that stands still stays fine,
LEMMA RunRests ==
  ASSUME ProcInv, LifeInv, \A t \in Tasks : Present(t) => Present(t)', NEW r \in Runs,
         proc'[r].pc = proc[r].pc, proc'[r].task = proc[r].task, proc'[r].status = proc[r].status
  PROVE  RunFine(r)
<1>1. proc[r].pc # "idle" => proc[r].task \in Tasks
  BY PcsApart DEF ProcInv, Placed, Procs
<1> QED
  BY <1>1 DEF RunFine, LifeInv, WorkPresent, EndDecided, Present

\* and so does one that goes on.
LEMMA RunGoesOn ==
  ASSUME ProcInv, DataInv, LifeInv, \A t \in Tasks : Present(t) => Present(t)', NEW r \in Runs,
         Start(r) \/ Exit(r) \/ RunEnd(r) \/ Deliver(r)
  PROVE  RunFine(r)
<1>1. r \in Procs /\ proc[r] \in Proc /\ r # Api /\ r # Recovery
  BY EngineAssumption DEF EngineAssumption, Procs, ProcInv
<1>2. CASE proc'[r] = Idle
  BY <1>2, IdleProc, PcsApart DEF RunFine, Ending
<1>3. CASE Start(r) /\ proc'[r] # Idle
  <2>1. proc'[r].task = proc[r].task /\ proc'[r].pc \notin Ending /\ proc[r].task \in Tasks
        /\ row[proc[r].task].status # "absent"
    <3>1. SameJob(r) /\ proc'[r].pc \in SlotPcs
      BY <1>3, StartShape
    <3>2. proc[r].pc \in SlotPcs
      BY <1>3 DEF Start, StartCheck, StartGate, StartClaim, Launch, Register, StartFails, FailEvent,
                  FailFinish, SlotPcs
    <3>3. proc[r].task \in Tasks
      BY <1>1, <3>2, PcsApart DEF ProcInv, Placed, SlotPcs
    <3>4. proc[r].pc = "check" => row[proc[r].task].status = "queued"
      <4>1. ReleaseSlot(r) => proc'[r] = Idle
        BY <1>1, BecomeAlone DEF ReleaseSlot
      <4> QED
        BY <1>3, <4>1 DEF Start, StartCheck, StartGate, StartClaim, Launch, Register, StartFails,
                          FailEvent, FailFinish
    <3> QED
      BY <3>1, <3>2, <3>3, <3>4, PcsApart DEF SameJob, Ending, LifeInv, WorkPresent, Present
  <2> QED
    BY <2>1 DEF RunFine, Present
<1>4. CASE Exit(r) /\ proc'[r] # Idle
  <2>1. SameJob(r) /\ proc[r].pc = "live" /\ proc[r].task \in Tasks
    BY <1>1, <1>4, ExitShape DEF Exit, ProcInv, Placed
  <2>2. proc'[r].status \in Terminal
    <3>1. PICK result \in {"succeeded", "failed"} :
            Become(r, [proc[r] EXCEPT !.pc = "finalize", !.status = result,
                         !.msg = mem[proc[r].task].parked,
                         !.wasCanceled = mem[proc[r].task].canceled])
      BY <1>1, <1>4, BecomeAlone DEF Exit
    <3> DEFINE v == [proc[r] EXCEPT !.pc = "finalize", !.status = result,
                       !.msg = mem[proc[r].task].parked,
                       !.wasCanceled = mem[proc[r].task].canceled]
    <3>2. v.status \in Terminal
      BY <1>1 DEF Proc, Terminal
    <3> QED
      BY <1>1, <3>1, <3>2, BecomeAlone
  <2>3. Present(proc[r].task)
    BY <2>1 DEF LifeInv, WorkPresent
  <2> QED
    BY <2>1, <2>2, <2>3 DEF RunFine, SameJob, Present
<1>5. CASE (RunEnd(r) \/ Deliver(r)) /\ proc'[r] # Idle
  <2>1. SameJob(r) /\ proc[r].pc \in Ending
    BY <1>1, <1>5, EndShape, DeliverShape
       DEF RunEnd, FinalizeSucceeds, FinalizeFails, Promote, Requeue, Reread, Finish, Unwind, Deliver,
           Pop, Write, Invalidate, Enqueue, ReportReplaced, ReportRefused, Ending, FinishPcs, DeliverPcs
  <2>2. proc[r].task \in Tasks /\ Present(proc[r].task) /\ proc[r].status \in Terminal
    BY <1>1, <2>1 DEF ProcInv, Placed, LifeInv, WorkPresent, EndDecided, Ending, FinishPcs, DeliverPcs
  <2>3. proc'[r].status \in Terminal
    BY <1>5, <2>2, EndDecides
  <2> QED
    BY <2>1, <2>2, <2>3 DEF RunFine, SameJob, Present
<1> QED
  BY <1>2, <1>3, <1>4, <1>5

\* The same for the goroutine of the requests,
ApiFine ==
  /\ proc'[Api].pc # "idle" => row'[proc'[Api].task].status # "absent"
  /\ proc'[Api].pc = "idle" => ~proc'[Api].revive

\* when it stands still,
LEMMA ApiRestsFine ==
  ASSUME ProcInv, LifeInv, \A t \in Tasks : Present(t) => Present(t)', proc'[Api] = proc[Api]
  PROVE  ApiFine
<1>1. proc[Api].pc # "idle" => proc[Api].task \in Tasks
  BY PcsApart DEF ProcInv, Placed, Procs
<1> QED
  BY <1>1 DEF ApiFine, LifeInv, WorkPresent, ApiRests, Present

\* when it goes on with a request or a delivery,
LEMMA ApiGoesOnFine ==
  ASSUME ProcInv, LifeInv, \A t \in Tasks : Present(t) => Present(t)',
         Cancel \/ FollowUp \/ Deliver(Api)
  PROVE  ApiFine
<1>1. proc[Api].pc # "idle" /\ proc[Api].pc # "recover"
  BY PcsApart
     DEF Cancel, CancelMark, CancelDiscard, CancelDequeue, CancelKill, CancelFinish, FollowUp,
         FollowUpCheck, FollowUpQueue, FollowUpInterrupt, FollowUpResume, Deliver, Pop, Write,
         Invalidate, Enqueue, ReportReplaced, ReportRefused
<1>2. proc[Api].task \in Tasks /\ Present(proc[Api].task)
  BY <1>1 DEF ProcInv, Placed, Procs, LifeInv, WorkPresent
<1>3. CASE proc'[Api] = Idle
  BY <1>3 DEF Idle, ApiFine
<1>4. CASE SameJob(Api) /\ proc'[Api].pc # "idle"
  BY <1>2, <1>4 DEF SameJob, ApiFine, Present
<1> QED
  BY <1>3, <1>4, ApiGoesOn

\* and when it takes a request up.
LEMMA ApiAsksFine ==
  ASSUME ProcInv, LifeInv, \A t \in Tasks : Present(t) => Present(t)', NEW t \in Tasks, Request(t)
  PROVE  ApiFine
<1>1. Api \in Procs
  BY DEF Procs
<1>2. CASE CreateInsert(t)
  BY <1>2, ApiRestsFine DEF CreateInsert
<1>3. ASSUME NEW v, Become(Api, v), v.pc # "idle", v.task = t, row[t].status # "absent", row' = row
      PROVE  ApiFine
  BY <1>1, <1>3, BecomeAlone DEF ApiFine
<1>4. CASE CancelBegin(t)
  <2> DEFINE v == [Idle EXCEPT !.pc = "c_mark", !.task = t]
  <2>1. v.pc # "idle" /\ v.task = t
    BY DEF Idle
  <2> QED
    BY <1>3, <1>4, <2>1 DEF CancelBegin, store
<1>5. ASSUME NEW m \in Msgs, NEW k \in AllOps, FollowUpBegin(t, m, k)
      PROVE  ApiFine
  <2> DEFINE v == [Idle EXCEPT !.pc = "f_check", !.task = t, !.msg = m,
                     !.revive = (row[t].status \in Terminal), !.interrupt = (k = "interrupt")]
  <2>1. v.pc # "idle" /\ v.task = t
    BY DEF Idle
  <2> QED
    BY <1>3, <1>5, <2>1 DEF FollowUpBegin, store
<1> QED
  BY <1>2, <1>4, <1>5 DEF Request

\* for Recovery's,
RecoveryFine ==
  proc'[Recovery].pc \in DeliverPcs \ {"pop"} => row'[proc'[Recovery].task].status # "absent"

\* when it stands still,
LEMMA RecoveryRestsFine ==
  ASSUME ProcInv, LifeInv, \A t \in Tasks : Present(t) => Present(t)',
         proc'[Recovery].pc = proc[Recovery].pc, proc'[Recovery].task = proc[Recovery].task
  PROVE  RecoveryFine
<1>1. proc[Recovery].pc \in DeliverPcs => proc[Recovery].task \in Tasks
  BY DEF ProcInv, Placed, Procs, DeliverPcs
<1> QED
  BY <1>1 DEF RecoveryFine, LifeInv, WorkPresent, Present

\* and when it recovers a task or delivers a message.
LEMMA RecoveryGoesOnFine ==
  ASSUME ProcInv, DataInv, LifeInv, \A t \in Tasks : Present(t) => Present(t)',
         Recover \/ Deliver(Recovery)
  PROVE  RecoveryFine
<1> DEFINE t == proc[Recovery].task
<1>1. Recovery \in Procs /\ proc[Recovery] \in Proc /\ Recovery \notin Runs /\ Recovery # Api
  BY EngineAssumption DEF EngineAssumption, Procs, ProcInv
<1>2. ASSUME NEW v, Become(Recovery, v), v.pc \in {"idle", "recover", "pop"}
      PROVE  RecoveryFine
  BY <1>1, <1>2, BecomeAlone DEF RecoveryFine, DeliverPcs
<1>3. ASSUME NEW v, Become(Recovery, v), v.task = t, t \in Tasks, Present(t)
      PROVE  RecoveryFine
  BY <1>1, <1>3, BecomeAlone DEF RecoveryFine, Present
<1>4. CASE Recover
  <2>1. \A u : [proc[Recovery] EXCEPT !.pc = "pop", !.task = u, !.todo = @ \ {u}].pc = "pop"
    BY <1>1 DEF Proc
  <2> QED
    BY <1>2, <1>4, <2>1, IdleProc DEF Recover, RecoverNext, RecoverDone
<1>5. CASE Become(Recovery, Returned(Recovery))
  <2>1. Returned(Recovery) = [Idle EXCEPT !.pc = "recover", !.todo = proc[Recovery].todo]
    BY <1>1 DEF Returned
  <2>2. Returned(Recovery).pc = "recover"
    BY <2>1 DEF Idle
  <2> QED
    BY <1>2, <1>5, <2>2
<1>6. CASE Deliver(Recovery) /\ ~Become(Recovery, Returned(Recovery))
  <2>1. proc[Recovery].pc \in DeliverPcs /\ t \in Tasks
    BY <1>1, <1>6 DEF Deliver, Pop, Write, Invalidate, Enqueue, ReportReplaced, ReportRefused, DeliverPcs,
                      ProcInv, Placed
  <2>2. Present(t)
    <3>1. CASE proc[Recovery].pc # "pop"
      BY <2>1, <3>1 DEF LifeInv, WorkPresent
    <3>2. CASE proc[Recovery].pc = "pop"
      <4>1. pending[t] # <<>>
        BY <1>1, <1>6, <3>2 DEF Deliver, Pop, Write, Invalidate, Enqueue, ReportReplaced, ReportRefused
      <4> QED
        BY <2>1, <4>1 DEF LifeInv, WorkPresent
    <3> QED
      BY <3>1, <3>2
  <2> DEFINE v == [proc[Recovery] EXCEPT !.pc = "write", !.msg = Head(pending[t])]
             w == [proc[Recovery] EXCEPT !.pc = "replaced", !.msg = mem[t].label]
             x(l) == [proc[Recovery] EXCEPT !.pc = l]
  <2>3. v.task = t /\ w.task = t /\ \A l : x(l).task = t
    BY <1>1 DEF Proc
  <2> HIDE DEF v, w, x
  <2>4. \/ Become(Recovery, v) \/ Become(Recovery, w) \/ \E l : Become(Recovery, x(l))
    BY <1>1, <1>6 DEF Deliver, Pop, Write, Invalidate, Enqueue, ReportReplaced, ReportRefused, Goto, v, w, x
  <2> QED
    BY <1>3, <2>1, <2>2, <2>3, <2>4
<1> QED
  BY <1>4, <1>5, <1>6

\* and for the messages that wait.
PendingFine == \A t \in Tasks : pending'[t] # <<>> => row'[t].status # "absent"

\* which only a request, and the push back of a delivery, add to.
LEMMA PendingStaysFine ==
  ASSUME ProcInv, DataInv, LifeInv, \A t \in Tasks : Present(t) => Present(t)', [Next]_vars
  PROVE  PendingFine
<1>1. pending \in [Tasks -> Seq(Msgs)]
  BY DEF DataInv
<1>2. CASE \A t \in Tasks : pending'[t] # <<>> => pending[t] # <<>>
  BY <1>2 DEF PendingFine, LifeInv, WorkPresent, Present
<1>3. CASE UNCHANGED pending
  BY <1>2, <1>3
<1>4. ASSUME NEW p \in Procs, Pop(p)
      PROVE  PendingFine
  <2>1. \/ pending' = pending
        \/ /\ pending[proc[p].task] # <<>>
           /\ pending' = [pending EXCEPT ![proc[p].task] = Tail(@)]
    BY <1>4 DEF Pop
  <2> QED
    BY <1>1, <1>2, <2>1
<1>5. CASE CancelDiscard
  <2>1. pending' = [pending EXCEPT ![ApiTask] = <<>>]
    BY <1>5 DEF CancelDiscard
  <2> QED
    BY <1>1, <1>2, <2>1
<1>6. CASE FollowUpQueue
  <2>1. pending' = [pending EXCEPT ![ApiTask] = Append(@, proc[Api].msg)] /\ proc[Api].pc = "f_queue"
    BY <1>6 DEF FollowUpQueue
  <2>2. ApiTask \in Tasks /\ Present(ApiTask)
    BY <2>1 DEF ApiTask, ProcInv, Placed, Procs, LifeInv, WorkPresent
  <2>3. \A t \in Tasks : pending'[t] # <<>> => pending[t] # <<>> \/ t = ApiTask
    BY <1>1, <2>1
  <2> QED
    BY <2>2, <2>3 DEF PendingFine, LifeInv, WorkPresent, Present
<1>7. CASE UNCHANGED vars
  BY <1>3, <1>7 DEF vars
<1>8. CASE Pump \/ Recover \/ Restart \/ \E t \in Tasks : Request(t) \/ CreateEnqueue(t)
  BY <1>3, <1>8 DEF Pump, PumpPop, PumpReturn, Recover, RecoverNext, RecoverDone, Restart, Request,
                    CreateInsert, CancelBegin, FollowUpBegin, CreateEnqueue, store
<1>9. ASSUME NEW r \in Runs, Start(r) \/ Exit(r) \/ RunEnd(r)
      PROVE  PendingFine
  BY <1>3, <1>9 DEF Start, StartCheck, StartGate, StartClaim, Launch, Register, StartFails, FailEvent,
                    FailFinish, Exit, RunEnd, FinalizeSucceeds, FinalizeFails, Promote, Requeue, Reread,
                    Finish, Unwind, store
<1>10. ASSUME NEW p \in Procs, Deliver(p)
       PROVE  PendingFine
  BY <1>3, <1>4, <1>10 DEF Deliver, Write, Invalidate, Enqueue, ReportReplaced, ReportRefused, store
<1>11. CASE Cancel \/ FollowUp
  BY <1>3, <1>5, <1>6, <1>11
     DEF Cancel, CancelMark, CancelDequeue, CancelKill, CancelFinish, FollowUp, FollowUpCheck,
         FollowUpInterrupt, FollowUpResume, store
<1> QED
  BY <1>7, <1>8, <1>9, <1>10, <1>11 DEF Next

\* Together they are LifeInv in the next state.
LEMMA AllFine ==
  ASSUME PendingFine, \A r \in Runs : RunFine(r), ApiFine, RecoveryFine
  PROVE  LifeInv'
BY DEF PendingFine, RunFine, ApiFine, RecoveryFine, LifeInv, WorkPresent, EndDecided, ApiRests, Present

\* One goroutine goes on and the others stand still.
LEMMA AloneFine ==
  ASSUME ProcInv, LifeInv, \A t \in Tasks : Present(t) => Present(t)', PendingFine,
         NEW p \in Procs, Alone(p),
         p \in Runs => RunFine(p), p = Api => ApiFine, p = Recovery => RecoveryFine
  PROVE  LifeInv'
<1>1. \A r \in Runs : RunFine(r)
  BY RunRests DEF Alone, Procs
<1>2. ApiFine
  BY ApiRestsFine DEF Alone, Procs
<1>3. RecoveryFine
  BY RecoveryRestsFine DEF Alone, Procs
<1> QED
  BY <1>1, <1>2, <1>3, AllFine

\* Every step keeps LifeInv.
LEMMA LifeStep ==
  ASSUME ProcInv, DataInv, LifeInv, [Next]_vars
  PROVE  LifeInv'
<1>1. \A t \in Tasks : Present(t) => Present(t)'
  BY RowsStay DEF LifeInv
<1>2. PendingFine
  BY <1>1, PendingStaysFine
<1>3. /\ Api \in Procs /\ Recovery \in Procs /\ Runs \subseteq Procs
      /\ Api \notin Runs /\ Recovery \notin Runs /\ Api # Recovery
  BY EngineAssumption DEF EngineAssumption, Procs
<1>4. CASE UNCHANGED proc
  BY <1>1, <1>2, <1>3, <1>4, AloneFine, ApiRestsFine DEF Alone
<1>5. CASE UNCHANGED vars \/ PumpReturn \/ \E t \in Tasks : CreateEnqueue(t)
  BY <1>4, <1>5 DEF vars, PumpReturn, CreateEnqueue
<1>6. ASSUME NEW r \in Runs, PumpPop(r)
      PROVE  LifeInv'
  <2> DEFINE v == [Idle EXCEPT !.pc = "check", !.task = Head(queue)]
  <2>1. v.pc = "check" /\ Become(r, v)
    BY <1>6 DEF Idle, PumpPop
  <2> HIDE DEF v
  <2>2. Alone(r) /\ proc'[r].pc = "check"
    BY <1>3, <2>1, BecomeAlone
  <2>3. RunFine(r)
    BY <2>2 DEF RunFine, Ending, FinishPcs, DeliverPcs
  <2> QED
    BY <1>1, <1>2, <1>3, <2>2, <2>3, AloneFine
<1>7. ASSUME NEW r \in Runs, Start(r) \/ Exit(r) \/ RunEnd(r)
      PROVE  LifeInv'
  <2>1. Alone(r) /\ RunFine(r)
    BY <1>1, <1>7, StartShape, ExitShape, EndShape, RunGoesOn
  <2> QED
    BY <1>1, <1>2, <1>3, <2>1, AloneFine
<1>8. ASSUME NEW p \in Procs, Deliver(p)
      PROVE  LifeInv'
  <2>1. Alone(p)
    BY <1>8, DeliverShape
  <2>2. p \in Runs => RunFine(p)
    BY <1>1, <1>8, RunGoesOn
  <2>3. (p = Api => ApiFine) /\ (p = Recovery => RecoveryFine)
    BY <1>1, <1>8, ApiGoesOnFine, RecoveryGoesOnFine
  <2> QED
    BY <1>1, <1>2, <2>1, <2>2, <2>3, AloneFine
<1>9. CASE Recover
  <2>1. Alone(Recovery) /\ RecoveryFine
    BY <1>1, <1>9, RecoverShape, RecoveryGoesOnFine
  <2> QED
    BY <1>1, <1>2, <1>3, <2>1, AloneFine
<1>10. CASE Cancel \/ FollowUp \/ \E t \in Tasks : Request(t)
  <2>1. \A q \in Procs : q # Api =>
          proc'[q].pc = proc[q].pc /\ proc'[q].task = proc[q].task /\ proc'[q].status = proc[q].status
    BY <1>10, RequestShape
  <2>2. \A r \in Runs : RunFine(r)
    BY <1>1, <1>3, <2>1, RunRests
  <2>3. RecoveryFine
    BY <1>1, <1>3, <2>1, RecoveryRestsFine
  <2>4. ApiFine
    BY <1>1, <1>10, ApiGoesOnFine, ApiAsksFine
  <2> QED
    BY <1>2, <2>2, <2>3, <2>4, AllFine
<1>11. CASE Restart
  <2> DEFINE v == [Idle EXCEPT !.pc = "recover", !.todo = Orphans \cup {t \in Tasks : pending[t] # <<>>}]
  <2>1. v.pc = "recover"
    BY DEF Idle
  <2> HIDE DEF v
  <2>2. proc'[Recovery] = v /\ \A p \in Procs \ {Recovery} : proc'[p] = Idle
    BY <1>3, <1>11 DEF Restart, v
  <2>3. Idle.pc = "idle" /\ Idle.revive = FALSE
    BY DEF Idle
  <2>4. RecoveryFine /\ ApiFine /\ \A r \in Runs : RunFine(r)
    BY <1>3, <2>1, <2>2, <2>3, PcsApart DEF RecoveryFine, ApiFine, RunFine, Ending, DeliverPcs
  <2> QED
    BY <1>2, <2>4, AllFine
<1> QED
  BY <1>5, <1>6, <1>7, <1>8, <1>9, <1>10, <1>11 DEF Next, Pump

\* From the first state on, whoever works on a task works on one that exists.
LEMMA LifeInvariant == Spec => []LifeInv
<1>1. Init => LifeInv
  BY PcsApart DEF Init, LifeInv, WorkPresent, EndDecided, ApiRests, Idle, Ending, DeliverPcs, Procs
<1>2. (ProcInv /\ DataInv) /\ LifeInv /\ [Next]_vars => LifeInv'
  BY LifeStep
<1> QED
  BY <1>1, <1>2, CoreInvariant, PTL DEF Spec

\* The engine implements the lifecycle: whatever its goroutines, requests and
\* restarts do in whatever order, only the execution in charge ends a task on
\* its own account, a cancel leaves nobody in charge, a canceled task comes
\* back by the user's message alone, and a task starts in a slot.
THEOREM EngineImplementsLifecycle == Spec => ImplementsLifecycle
<1>1. Init => Lifecycle!Init
  BY InitMaps
<1>2. (ProcInv /\ DataInv) /\ (OwnedRowLive /\ ReviveIsApi) /\ LifeInv /\ [Next]_vars =>
        [Lifecycle!Next]_(Lifecycle!vars)
  BY StepMaps DEF Maps, Same, Lifecycle!vars
<1> QED
  BY <1>1, <1>2, CoreInvariant, OwnersInvariant, LifeInvariant, PTL
     DEF Spec, ImplementsLifecycle, Lifecycle!Spec

-----------------------------------------------------------------------------
(***************************************************************************)
(* Fourth part: the messages of users who do not interrupt, and who also   *)
(* do not cancel in the end                                                *)
(***************************************************************************)

-----------------------------------------------------------------------------
(* What a step does with the message in hand *)

\* p goes on at l with the message m, and keeps the rest of what it carries.
Moved(p, l, m) ==
  /\ Alone(p) /\ SameJob(p)
  /\ proc'[p].pc = l /\ proc'[p].msg = m
  /\ proc'[p].interrupt = proc[p].interrupt /\ proc'[p].todo = proc[p].todo
  /\ l # "finalize" => proc'[p].wasCanceled = proc[p].wasCanceled
  /\ l # "fail_event" => proc'[p].allowQueued = proc[p].allowQueued
  /\ l \notin {"finalize", "reread", "finish", "unwind"} => proc'[p].status = proc[p].status

\* p is through.
Rests(p) == Alone(p) /\ proc'[p] = Idle

\* A step to another place, with the same message.
LEMMA GotoMoved ==
  ASSUME ProcInv, NEW p \in Procs, NEW l, Goto(p, l)
  PROVE  Moved(p, l, proc[p].msg) /\ proc'[p].status = proc[p].status
<1>1. proc[p] \in Proc
  BY DEF ProcInv
<1>2. Alone(p) /\ proc'[p] = [proc[p] EXCEPT !.pc = l]
  BY BecomeAlone DEF Goto
<1> QED
  BY <1>1, <1>2 DEF Moved, SameJob, Proc

\* A step to another place, with another message.
LEMMA MessageMoved ==
  ASSUME ProcInv, NEW p \in Procs, NEW l, NEW m,
         Become(p, [proc[p] EXCEPT !.pc = l, !.msg = m])
  PROVE  Moved(p, l, m) /\ proc'[p].status = proc[p].status
<1>1. proc[p] \in Proc
  BY DEF ProcInv
<1>2. Alone(p) /\ proc'[p] = [proc[p] EXCEPT !.pc = l, !.msg = m]
  BY BecomeAlone
<1> QED
  BY <1>1, <1>2 DEF Moved, SameJob, Proc

\* Whoever gives its slot back is through.
LEMMA ReleaseRests ==
  ASSUME ProcInv, NEW r \in Runs, ReleaseSlot(r)
  PROVE  Rests(r)
BY BecomeAlone DEF ReleaseSlot, Rests, Procs

\* The steps of a start.
LEMMA StartMoves ==
  ASSUME ProcInv, NEW r \in Runs, Start(r)
  PROVE  LET t == proc[r].task IN
         \/ FailFinish(r) /\ Rests(r)
         \/ /\ Rests(r)
            /\ ~IsActive(r) \/ (proc[r].pc \in {"check", "claim"} /\ row[t].status # "queued")
         \/ StartCheck(r) /\ IsActive(r) /\ Moved(r, "gate", row[t].prompt)
         \/ StartGate(r) /\ IsActive(r) /\ Moved(r, "claim", proc[r].msg)
         \/ StartClaim(r) /\ row[t].status = "queued" /\ Moved(r, "launch", row[t].prompt)
         \/ Launch(r) /\ IsActive(r) /\ Moved(r, "register", proc[r].msg)
         \/ Register(r) /\ IsActive(r) /\ Moved(r, "live", None)
         \/ /\ StartFails(r) /\ IsActive(r) /\ Moved(r, "fail_event", proc[r].msg)
            /\ proc'[r].allowQueued = (proc[r].pc = "gate")
         \/ /\ FailEvent(r) /\ Moved(r, "fail_finish", proc[r].msg)
<1> DEFINE t == proc[r].task
<1>0. r \in Procs /\ proc[r] \in Proc
  BY DEF Procs, ProcInv
<1>1. ReleaseSlot(r) => Rests(r)
  BY ReleaseRests
<1>2. CASE StartCheck(r)
  <2>1. \/ IsActive(r) /\ Become(r, [proc[r] EXCEPT !.pc = "gate", !.msg = row[t].prompt])
        \/ ReleaseSlot(r) /\ proc[r].pc = "check" /\ (~IsActive(r) \/ row[t].status # "queued")
    BY <1>2 DEF StartCheck
  <2> QED
    BY <1>0, <1>1, <1>2, <2>1, MessageMoved
<1>3. CASE StartGate(r)
  <2>1. (IsActive(r) /\ Goto(r, "claim")) \/ (~IsActive(r) /\ ReleaseSlot(r))
    BY <1>3 DEF StartGate
  <2> QED
    BY <1>0, <1>1, <1>3, <2>1, GotoMoved
<1>4. CASE StartClaim(r)
  <2>1. \/ /\ row[t].status = "queued"
           /\ Become(r, [proc[r] EXCEPT !.pc = "launch", !.msg = row[t].prompt])
        \/ ReleaseSlot(r) /\ proc[r].pc = "claim" /\ row[t].status # "queued"
    BY <1>4 DEF StartClaim
  <2> QED
    BY <1>0, <1>1, <1>4, <2>1, MessageMoved
<1>5. CASE Launch(r)
  <2>1. (IsActive(r) /\ Goto(r, "register")) \/ (~IsActive(r) /\ ReleaseSlot(r))
    BY <1>5 DEF Launch
  <2> QED
    BY <1>0, <1>1, <1>5, <2>1, GotoMoved
<1>6. CASE Register(r)
  <2>1. ASSUME Become(r, [proc[r] EXCEPT !.pc = "live", !.msg = None, !.killed = mem[t].canceled])
        PROVE  Moved(r, "live", None)
    <3>1. Alone(r) /\ proc'[r] = [proc[r] EXCEPT !.pc = "live", !.msg = None,
                                                 !.killed = mem[t].canceled]
      BY <1>0, <2>1, BecomeAlone
    <3> QED
      BY <1>0, <3>1 DEF Moved, SameJob, Proc
  <2>2. \/ /\ IsActive(r)
           /\ Become(r, [proc[r] EXCEPT !.pc = "live", !.msg = None, !.killed = mem[t].canceled])
        \/ ~IsActive(r) /\ ReleaseSlot(r)
    BY <1>6 DEF Register
  <2> QED
    BY <1>1, <1>6, <2>1, <2>2
<1>7. CASE StartFails(r)
  <2> DEFINE b == proc[r].pc = "gate"
  <2>1. ASSUME Become(r, [proc[r] EXCEPT !.pc = "fail_event", !.allowQueued = b])
        PROVE  Moved(r, "fail_event", proc[r].msg) /\ proc'[r].allowQueued = b
    <3>1. Alone(r) /\ proc'[r] = [proc[r] EXCEPT !.pc = "fail_event", !.allowQueued = b]
      BY <1>0, <2>1, BecomeAlone
    <3>2. Moved(r, "fail_event", proc[r].msg)
      BY <1>0, <3>1 DEF Moved, SameJob, Proc
    <3>3. proc'[r].allowQueued = b
      BY <1>0, <3>1 DEF Proc
    <3> QED
      BY <3>2, <3>3
  <2>2. \/ IsActive(r) /\ Become(r, [proc[r] EXCEPT !.pc = "fail_event", !.allowQueued = b])
        \/ ~IsActive(r) /\ ReleaseSlot(r)
    BY <1>7 DEF StartFails
  <2> QED
    BY <1>1, <1>7, <2>1, <2>2
<1>8. CASE FailEvent(r)
  BY <1>0, <1>8, GotoMoved DEF FailEvent
<1>9. CASE FailFinish(r)
  BY <1>1, <1>9 DEF FailFinish
<1> HIDE DEF t
<1> QED
  BY <1>2, <1>3, <1>4, <1>5, <1>6, <1>7, <1>8, <1>9 DEF Start

\* The end of a run.
LEMMA EndMoves ==
  ASSUME ProcInv, NEW r \in Runs, Exit(r) \/ RunEnd(r)
  PROVE  LET t == proc[r].task IN
         \/ Exit(r) /\ ~IsActive(r) /\ Rests(r)
         \/ /\ Exit(r) /\ IsActive(r) /\ Moved(r, "finalize", mem[t].parked)
            /\ proc'[r].wasCanceled = mem[t].canceled
            /\ proc'[r].status \in {"succeeded", "failed"}
         \/ /\ FinalizeSucceeds(r) /\ proc'[r].status = proc[r].status
            /\ \/ proc[r].msg # None /\ Moved(r, "write", proc[r].msg)
               \/ proc[r].msg = None /\ proc[r].wasCanceled /\ Moved(r, "reread", None)
               \/ proc[r].msg = None /\ ~proc[r].wasCanceled /\ Moved(r, "pop", None)
         \/ /\ FinalizeFails(r) /\ proc'[r].status = "failed"
            /\ Moved(r, IF proc[r].msg # None THEN "finish" ELSE "reread", None)
         \/ Promote(r) /\ Moved(r, "requeue", proc[r].msg)
         \/ Requeue(r) /\ Moved(r, "unwind", proc[r].msg) /\ proc'[r].status = proc[r].status
         \/ /\ Reread(r)
            /\ Moved(r, IF row[t].status = "canceled" THEN "unwind" ELSE "finish", proc[r].msg)
            /\ proc'[r].status = IF proc[r].wasCanceled THEN "canceled" ELSE proc[r].status
         \/ Finish(r) /\ Moved(r, "unwind", proc[r].msg) /\ proc'[r].status = proc[r].status
         \/ Unwind(r) /\ Rests(r)
<1> DEFINE t == proc[r].task
<1>0. r \in Procs /\ proc[r] \in Proc
  BY DEF Procs, ProcInv
<1>1. CASE Exit(r)
  <2>1. CASE ~IsActive(r)
    BY <1>0, <1>1, <2>1, BecomeAlone DEF Exit, Rests
  <2>2. ASSUME NEW result \in {"succeeded", "failed"}, IsActive(r),
               Become(r, [proc[r] EXCEPT !.pc = "finalize", !.status = result,
                            !.msg = mem[t].parked, !.wasCanceled = mem[t].canceled])
        PROVE  /\ Moved(r, "finalize", mem[t].parked) /\ proc'[r].wasCanceled = mem[t].canceled
               /\ proc'[r].status \in {"succeeded", "failed"}
    <3>1. Alone(r) /\ proc'[r] = [proc[r] EXCEPT !.pc = "finalize", !.status = result,
                                    !.msg = mem[t].parked, !.wasCanceled = mem[t].canceled]
      BY <1>0, <2>2, BecomeAlone
    <3> QED
      BY <1>0, <3>1 DEF Moved, SameJob, Proc
  <2> QED
    BY <1>1, <2>1, <2>2 DEF Exit
<1>2. CASE FinalizeSucceeds(r)
  <2> DEFINE l == IF proc[r].msg # None THEN "write"
                  ELSE IF proc[r].wasCanceled THEN "reread" ELSE "pop"
  <2>1. Goto(r, l)
    BY <1>2 DEF FinalizeSucceeds
  <2>2. \/ proc[r].msg # None /\ l = "write"
        \/ proc[r].msg = None /\ proc[r].wasCanceled /\ l = "reread"
        \/ proc[r].msg = None /\ ~proc[r].wasCanceled /\ l = "pop"
    OBVIOUS
  <2> HIDE DEF l
  <2>3. Moved(r, l, proc[r].msg) /\ proc'[r].status = proc[r].status
    BY <1>0, <2>1, GotoMoved
  <2> QED
    BY <1>2, <2>2, <2>3
<1>3. CASE FinalizeFails(r)
  <2> DEFINE l == IF proc[r].msg # None THEN "finish" ELSE "reread"
  <2>1. Become(r, [proc[r] EXCEPT !.status = "failed", !.msg = None, !.pc = l])
    BY <1>3 DEF FinalizeFails
  <2>2. l \in {"finish", "reread"}
    OBVIOUS
  <2> HIDE DEF l
  <2>3. Alone(r) /\ proc'[r] = [proc[r] EXCEPT !.status = "failed", !.msg = None, !.pc = l]
    BY <1>0, <2>1, BecomeAlone
  <2>4. Moved(r, l, None) /\ proc'[r].status = "failed"
    BY <1>0, <2>2, <2>3 DEF Moved, SameJob, Proc
  <2> QED
    BY <1>3, <2>4 DEF l
<1>4. CASE Promote(r)
  BY <1>0, <1>4, GotoMoved DEF Promote
<1>5. CASE Requeue(r)
  BY <1>0, <1>5, GotoMoved DEF Requeue
<1>6. CASE Reread(r)
  <2> DEFINE l == IF row[t].status = "canceled" THEN "unwind" ELSE "finish"
             s == IF proc[r].wasCanceled THEN "canceled" ELSE proc[r].status
  <2>1. Become(r, [proc[r] EXCEPT !.pc = l, !.status = s])
    BY <1>6 DEF Reread
  <2>2. l \in {"finish", "unwind"}
    OBVIOUS
  <2> HIDE DEF l, s
  <2>3. Alone(r) /\ proc'[r] = [proc[r] EXCEPT !.pc = l, !.status = s]
    BY <1>0, <2>1, BecomeAlone
  <2>4. Moved(r, l, proc[r].msg) /\ proc'[r].status = s
    BY <1>0, <2>2, <2>3 DEF Moved, SameJob, Proc
  <2> QED
    BY <1>6, <2>4 DEF l, s
<1>7. CASE Finish(r)
  BY <1>0, <1>7, GotoMoved DEF Finish
<1>8. CASE Unwind(r)
  BY <1>0, <1>8, BecomeAlone DEF Unwind, Rests
<1> QED
  BY <1>1, <1>2, <1>3, <1>4, <1>5, <1>6, <1>7, <1>8 DEF RunEnd

\* p is back in the code that began its delivery.
Back(p) ==
  \/ p = Api /\ Rests(p)
  \/ p = Recovery /\ Alone(p) /\ proc'[p] = [Idle EXCEPT !.pc = "recover", !.todo = proc[p].todo]
  \/ p \in Runs /\ Moved(p, "unwind", None) /\ proc'[p].status = proc[p].status

\* With nothing in hand.
LEMMA BackMoves ==
  ASSUME ProcInv, NEW p \in Procs, Back(p)
  PROVE  /\ Alone(p) /\ proc'[p].msg = None
         /\ proc'[p].pc \in {"idle", "recover", "unwind"}
         /\ p = Recovery => proc'[p].todo = proc[p].todo /\ proc'[p].pc = "recover"
         /\ proc'[p].wasCanceled => proc[p].wasCanceled
         /\ proc'[p].status \in {"absent", proc[p].status}
<1> DEFINE v == [Idle EXCEPT !.pc = "recover", !.todo = proc[p].todo]
<1>1. /\ v.pc = "recover" /\ v.msg = None /\ v.todo = proc[p].todo
      /\ ~v.wasCanceled /\ v.status = "absent"
  BY DEF Idle
<1>2. /\ Idle.pc = "idle" /\ Idle.msg = None /\ ~Idle.wasCanceled /\ Idle.status = "absent"
      /\ Api # Recovery /\ Recovery \notin Runs
  BY EngineAssumption DEF Idle, EngineAssumption
<1> HIDE DEF v
<1> QED
  BY <1>1, <1>2 DEF Back, Rests, Moved, v

\* The return of a delivery.
LEMMA ReturnedBack ==
  ASSUME ProcInv, NEW p \in Procs, Become(p, Returned(p))
  PROVE  Back(p)
<1>1. Alone(p) /\ proc'[p] = Returned(p)
  BY BecomeAlone
<1>2. CASE p \in Runs
  <2>1. Returned(p) = [proc[p] EXCEPT !.pc = "unwind", !.msg = None]
    BY <1>2, EngineAssumption DEF Returned, EngineAssumption
  <2> QED
    <3>1. Moved(p, "unwind", None) /\ proc'[p].status = proc[p].status
      <4>1. Become(p, [proc[p] EXCEPT !.pc = "unwind", !.msg = None])
        BY <2>1 DEF Become
      <4> QED
        BY <4>1, MessageMoved
    <3> QED
      BY <1>2, <3>1 DEF Back
<1>3. CASE p = Recovery
  BY <1>1, <1>3, EngineAssumption DEF Returned, Back, EngineAssumption
<1>4. CASE p = Api
  BY <1>1, <1>4 DEF Returned, Back, Rests
<1> QED
  BY <1>2, <1>3, <1>4 DEF Procs

\* A delivery.
LEMMA DeliverMoves ==
  ASSUME ProcInv, NEW p \in Procs, Deliver(p)
  PROVE  LET t == proc[p].task IN
         \/ /\ Pop(p) /\ pending[t] = <<>> /\ p \in Runs /\ Moved(p, "reread", proc[p].msg)
            /\ proc'[p].status = proc[p].status
         \/ Pop(p) /\ pending[t] = <<>> /\ p \notin Runs /\ Back(p)
         \/ Pop(p) /\ pending[t] # <<>> /\ Moved(p, "write", Head(pending[t]))
         \/ Write(p) /\ WriteAccepted(p) /\ Moved(p, "invalidate", proc[p].msg)
         \/ Write(p) /\ ~WriteAccepted(p) /\ Moved(p, "refused", proc[p].msg)
         \/ Invalidate(p) /\ Moved(p, "enqueue", proc[p].msg)
         \/ Enqueue(p) /\ row[t].status = "canceled" /\ Moved(p, "refused", proc[p].msg)
         \/ /\ Enqueue(p) /\ row[t].status # "canceled"
            /\ Msg(mem[t].label) \ {proc[p].msg} # {} /\ Moved(p, "replaced", mem[t].label)
         \/ /\ Enqueue(p) /\ row[t].status # "canceled"
            /\ Msg(mem[t].label) \ {proc[p].msg} = {} /\ Back(p)
         \/ ReportReplaced(p) /\ Back(p)
         \/ ReportRefused(p) /\ p \in Runs /\ Moved(p, "finish", None)
         \/ ReportRefused(p) /\ p \notin Runs /\ Back(p)
<1> DEFINE t == proc[p].task
<1>1. CASE Pop(p)
  BY <1>1, GotoMoved, MessageMoved, ReturnedBack DEF Pop
<1>2. CASE Write(p)
  BY <1>2, GotoMoved DEF Write
<1>3. CASE Invalidate(p)
  BY <1>3, GotoMoved DEF Invalidate
<1>4. CASE Enqueue(p)
  BY <1>4, GotoMoved, MessageMoved, ReturnedBack DEF Enqueue
<1>5. CASE ReportReplaced(p)
  BY <1>5, ReturnedBack DEF ReportReplaced
<1>6. CASE ReportRefused(p)
  <2>1. CASE p \in Runs
    <3>1. proc[p] \in Proc
      BY DEF ProcInv
    <3>2. Become(p, [proc[p] EXCEPT !.pc = "finish", !.msg = None, !.status = "canceled"])
      BY <1>6, <2>1 DEF ReportRefused
    <3>3. proc'[p] = [proc[p] EXCEPT !.pc = "finish", !.msg = None, !.status = "canceled"]
          /\ Alone(p)
      BY <3>2, BecomeAlone
    <3>4. Moved(p, "finish", None)
      BY <3>1, <3>3 DEF Moved, SameJob, Proc
    <3> QED
      BY <1>6, <2>1, <3>4
  <2>2. CASE p \notin Runs
    BY <1>6, <2>2, ReturnedBack DEF ReportRefused
  <2> QED
    BY <2>1, <2>2
<1> QED
  BY <1>1, <1>2, <1>3, <1>4, <1>5, <1>6 DEF Deliver

\* q's part of a step that is not its own: at most it is told to die.
Kept(q) ==
  /\ proc'[q].pc = proc[q].pc /\ proc'[q].task = proc[q].task /\ proc'[q].msg = proc[q].msg
  /\ proc'[q].revive = proc[q].revive /\ proc'[q].interrupt = proc[q].interrupt
  /\ proc'[q].wasCanceled = proc[q].wasCanceled /\ proc'[q].status = proc[q].status
  /\ proc'[q].allowQueued = proc[q].allowQueued /\ proc'[q].todo = proc[q].todo

\* No request interrupts a turn.
Patient ==
  /\ \A t \in Tasks : mem[t].parked = None
  /\ \A r \in Runs : proc[r].pc = "finalize" => proc[r].msg = None
  /\ proc[Api].pc \notin {"f_interrupt", "f_resume"} /\ ~proc[Api].interrupt

PatientUsers == Ops \subseteq {"cancel", "followup"}

\* A step of the goroutine of the requests.
LEMMA RequestMoves ==
  ASSUME ProcInv, Patient, PatientUsers, Cancel \/ FollowUp \/ \E t \in Tasks : Request(t)
  PROVE  /\ \A q \in Procs : q # Api => Kept(q)
         /\ \/ UNCHANGED proc /\ \E t \in Tasks : CreateInsert(t)
            \/ /\ Cancel \/ \E t \in Tasks : CancelBegin(t)
               /\ proc'[Api].pc \in CancelPcs \cup {"idle"} /\ ~proc'[Api].interrupt
            \/ \E t \in Tasks, m \in Msgs :
                 /\ FollowUpBegin(t, m, "followup") /\ Alone(Api)
                 /\ proc'[Api].pc = "f_check" /\ proc'[Api].task = t /\ proc'[Api].msg = m
                 /\ proc'[Api].revive <=> row[t].status \in Terminal
                 /\ ~proc'[Api].interrupt /\ ~proc'[Api].wasCanceled /\ proc'[Api].status = "absent"
            \/ FollowUpCheck /\ (Rests(Api) \/ Moved(Api, "f_queue", proc[Api].msg))
            \/ FollowUpQueue /\ proc[Api].revive /\ Moved(Api, "pop", None)
            \/ FollowUpQueue /\ ~proc[Api].revive /\ Rests(Api)
<1>0. Api \in Procs /\ proc \in [Procs -> Proc] /\ Idle \in Proc /\ ~Idle.interrupt
      /\ Idle.pc = "idle"
  BY IdleProc DEF Procs, ProcInv, Idle
<1>1. Alone(Api) => \A q \in Procs : q # Api => Kept(q)
  BY DEF Alone, Kept
<1>2. ASSUME NEW l \in CancelPcs, Goto(Api, l)
      PROVE  Alone(Api) /\ proc'[Api].pc \in CancelPcs /\ ~proc'[Api].interrupt
  BY <1>0, <1>2, GotoMoved DEF Moved, Patient
<1>3. ASSUME Become(Api, Idle)
      PROVE  Rests(Api) /\ proc'[Api].pc = "idle" /\ ~proc'[Api].interrupt
  BY <1>0, <1>3, BecomeAlone DEF Rests
<1>4. ASSUME NEW h, RequestKills(h)
      PROVE  proc'[Api] = Idle /\ \A q \in Procs : q # Api => Kept(q)
  <2>1. proc'[Api] = Idle
    BY <1>0, <1>4 DEF RequestKills
  <2>2. ASSUME NEW q \in Procs, q # Api
        PROVE  Kept(q)
    <3>1. proc[q] \in Proc
      BY <1>0
    <3>2. proc'[q] = proc[q] \/ proc'[q] = [proc[q] EXCEPT !.killed = TRUE]
      BY <1>4, <2>2 DEF RequestKills
    <3> QED
      BY <3>1, <3>2 DEF Kept, Proc
  <2> QED
    BY <2>1, <2>2
<1>5. ASSUME NEW t \in Tasks, CreateInsert(t)
      PROVE  UNCHANGED proc /\ \A q \in Procs : q # Api => Kept(q)
  BY <1>5 DEF CreateInsert, Kept
<1>6. ASSUME NEW t \in Tasks, CancelBegin(t)
      PROVE  /\ proc'[Api].pc \in CancelPcs \cup {"idle"} /\ ~proc'[Api].interrupt
             /\ Alone(Api)
  <2> DEFINE v == [Idle EXCEPT !.pc = "c_mark", !.task = t]
  <2>1. v.pc = "c_mark" /\ ~v.interrupt
    BY DEF Idle
  <2>2. Become(Api, v)
    BY <1>6 DEF CancelBegin
  <2> QED
    BY <1>0, <2>1, <2>2, BecomeAlone DEF CancelPcs
<1>7. CASE Cancel
  <2>1. CASE CancelMark
    <3>1. Become(Api, Idle) \/ Goto(Api, "c_discard")
      BY <2>1 DEF CancelMark, ApiGoto
    <3>2. "c_discard" \in CancelPcs
      BY DEF CancelPcs
    <3> QED
      BY <1>1, <1>2, <1>3, <1>7, <3>1, <3>2 DEF Rests
  <2>2. CASE CancelDiscard
    <3>1. Goto(Api, "c_dequeue")
      BY <2>2 DEF CancelDiscard, ApiGoto
    <3>2. "c_dequeue" \in CancelPcs
      BY DEF CancelPcs
    <3> QED
      BY <1>1, <1>2, <1>7, <3>1, <3>2
  <2>3. CASE CancelDequeue
    <3> DEFINE t == ApiTask
               l == IF mem[t].handle # None THEN "c_kill" ELSE "c_finish"
    <3>1. CASE Goto(Api, "c_finish")
      BY <1>0, <1>1, <1>2, <1>7, <3>1 DEF CancelPcs
    <3>2. CASE Become(Api, [proc[Api] EXCEPT !.msg = mem[t].parked, !.handle = mem[t].handle,
                                             !.pc = l])
      <4>1. l \in CancelPcs
        BY DEF CancelPcs
      <4> HIDE DEF l
      <4>2. Alone(Api) /\ proc'[Api] = [proc[Api] EXCEPT !.msg = mem[t].parked,
                                          !.handle = mem[t].handle, !.pc = l]
        BY <1>0, <3>2, BecomeAlone
      <4>3. proc'[Api].pc = l /\ proc'[Api].interrupt = proc[Api].interrupt
        BY <1>0, <4>2 DEF Proc
      <4> QED
        BY <1>1, <1>7, <4>1, <4>2, <4>3 DEF Patient
    <3> QED
      BY <2>3, <3>1, <3>2 DEF CancelDequeue, ApiGoto
  <2>4. CASE CancelKill
    BY <1>0, <1>4, <1>7, <2>4 DEF CancelKill
  <2>5. CASE CancelFinish
    BY <1>0, <1>1, <1>3, <1>7, <2>5 DEF CancelFinish, Rests
  <2> QED
    BY <1>7, <2>1, <2>2, <2>3, <2>4, <2>5 DEF Cancel
<1>8. CASE FollowUp
  <2>1. CASE FollowUpCheck
    <3>1. Become(Api, Idle) \/ Goto(Api, "f_queue")
      BY <2>1 DEF FollowUpCheck, ApiGoto, Patient
    <3>2. Rests(Api) \/ Moved(Api, "f_queue", proc[Api].msg)
      BY <1>0, <1>3, <3>1, GotoMoved, ZenonT(20)
    <3> QED
      BY <1>1, <2>1, <3>2 DEF Rests, Moved
  <2>2. CASE FollowUpQueue
    <3>1. CASE proc[Api].revive
      <4>1. Moved(Api, "pop", None)
        BY <1>0, <2>2, <3>1, MessageMoved DEF FollowUpQueue
      <4> QED
        BY <1>1, <2>2, <3>1, <4>1 DEF Moved
    <3>2. CASE ~proc[Api].revive
      BY <1>1, <1>3, <2>2, <3>2 DEF FollowUpQueue, Rests
    <3> QED
      BY <3>1, <3>2
  <2>3. ~FollowUpInterrupt /\ ~FollowUpResume
    BY DEF FollowUpInterrupt, FollowUpResume, Patient
  <2> QED
    BY <1>8, <2>1, <2>2, <2>3 DEF FollowUp
<1>9. ASSUME NEW t \in Tasks, NEW m \in Msgs, NEW k \in AllOps, FollowUpBegin(t, m, k)
      PROVE  /\ FollowUpBegin(t, m, "followup") /\ Alone(Api)
             /\ proc'[Api].pc = "f_check" /\ proc'[Api].task = t /\ proc'[Api].msg = m
             /\ proc'[Api].revive <=> row[t].status \in Terminal
             /\ ~proc'[Api].interrupt /\ ~proc'[Api].wasCanceled /\ proc'[Api].status = "absent"
  <2>1. k = "followup"
    BY <1>9 DEF FollowUpBegin, PatientUsers
  <2> DEFINE b == row[t].status \in Terminal
             v == [Idle EXCEPT !.pc = "f_check", !.task = t, !.msg = m, !.revive = b,
                               !.interrupt = (k = "interrupt")]
  <2>2. Become(Api, v)
    BY <1>9 DEF FollowUpBegin
  <2>3. Alone(Api) /\ proc'[Api] = v
    BY <1>0, <2>2, BecomeAlone
  <2>4. v.pc = "f_check" /\ v.task = t /\ v.msg = m /\ ~v.wasCanceled /\ v.status = "absent"
    BY DEF Idle
  <2>5. v.interrupt = (k = "interrupt") /\ v.revive = b
    BY ZenonT(20) DEF Idle
  <2> HIDE DEF v
  <2> QED
    BY <1>9, <2>1, <2>3, <2>4, <2>5
<1>10. ASSUME NEW t \in Tasks, Request(t)
       PROVE  \/ CreateInsert(t) \/ CancelBegin(t)
              \/ \E m \in Msgs, k \in AllOps : FollowUpBegin(t, m, k)
  BY <1>10 DEF Request
<1>11. CASE \E t \in Tasks : Request(t)
  <2>1. PICK t \in Tasks : Request(t)
    BY <1>11
  <2>2. CASE CreateInsert(t)
    BY <1>5, <2>2
  <2>3. CASE CancelBegin(t)
    BY <1>1, <1>6, <2>3
  <2>4. CASE \E m \in Msgs, k \in AllOps : FollowUpBegin(t, m, k)
    <3>1. PICK m \in Msgs, k \in AllOps : FollowUpBegin(t, m, k)
      BY <2>4
    <3> QED
      BY <1>1, <1>9, <3>1
  <2> QED
    BY <1>10, <2>1, <2>2, <2>3, <2>4
<1> QED
  BY <1>7, <1>8, <1>11

\* The goroutine of Engine.Recover.
LEMMA RecoverMoves ==
  ASSUME ProcInv, Recover
  PROVE  /\ Alone(Recovery)
         /\ \/ RecoverDone /\ Rests(Recovery)
            \/ \E t \in Tasks :
                 /\ RecoverNext(t) /\ proc'[Recovery].pc = "pop" /\ proc'[Recovery].task = t
                 /\ proc'[Recovery].msg = proc[Recovery].msg
                 /\ proc'[Recovery].revive = proc[Recovery].revive
                 /\ proc'[Recovery].wasCanceled = proc[Recovery].wasCanceled
                 /\ proc'[Recovery].status = proc[Recovery].status
                 /\ proc'[Recovery].todo = proc[Recovery].todo \ {t}
<1>1. Recovery \in Procs /\ proc[Recovery] \in Proc
  BY DEF Procs, ProcInv
<1>2. CASE RecoverDone
  BY <1>1, <1>2, BecomeAlone DEF RecoverDone, Rests
<1>3. ASSUME NEW t \in Tasks, RecoverNext(t)
      PROVE  Alone(Recovery) /\ proc'[Recovery] = [proc[Recovery] EXCEPT !.pc = "pop", !.task = t,
                                                                         !.todo = @ \ {t}]
  BY <1>1, <1>3, BecomeAlone DEF RecoverNext
<1>4. ASSUME NEW t \in Tasks, RecoverNext(t)
      PROVE  /\ proc'[Recovery].pc = "pop" /\ proc'[Recovery].task = t
             /\ proc'[Recovery].msg = proc[Recovery].msg
             /\ proc'[Recovery].revive = proc[Recovery].revive
             /\ proc'[Recovery].wasCanceled = proc[Recovery].wasCanceled
             /\ proc'[Recovery].status = proc[Recovery].status
             /\ proc'[Recovery].todo = proc[Recovery].todo \ {t}
  BY <1>1, <1>3, <1>4 DEF Proc
<1> QED
  BY <1>2, <1>3, <1>4 DEF Recover, Rests

\* pump() hands the head of the queue to an execution.
LEMMA PumpMoves ==
  ASSUME ProcInv, NEW r \in Runs, PumpPop(r)
  PROVE  /\ Alone(r) /\ proc[r].pc = "idle"
         /\ proc'[r] = [Idle EXCEPT !.pc = "check", !.task = Head(queue)]
         /\ proc'[r].pc = "check" /\ proc'[r].task = Head(queue) /\ proc'[r].msg = None
         /\ ~proc'[r].revive /\ ~proc'[r].wasCanceled /\ proc'[r].status = "absent"
<1>1. Become(r, [Idle EXCEPT !.pc = "check", !.task = Head(queue)]) /\ proc[r].pc = "idle"
  BY DEF PumpPop, FreeRuns
<1>2. Alone(r) /\ proc'[r] = [Idle EXCEPT !.pc = "check", !.task = Head(queue)]
  BY <1>1, BecomeAlone DEF Procs
<1>3. LET v == [Idle EXCEPT !.pc = "check", !.task = Head(queue)] IN
      v.pc = "check" /\ v.task = Head(queue) /\ v.msg = None /\ ~v.revive /\ ~v.wasCanceled
      /\ v.status = "absent"
  BY DEF Idle
<1> QED
  BY <1>1, <1>2, <1>3

\* A restart leaves nobody but Recovery.
LEMMA RestartMoves ==
  ASSUME Restart
  PROVE  /\ \A p \in Procs : p # Recovery => proc'[p] = Idle
         /\ proc'[Recovery] = [Idle EXCEPT !.pc = "recover",
              !.todo = Orphans \cup {t \in Tasks : pending[t] # <<>>}]
         /\ proc'[Recovery].pc = "recover" /\ proc'[Recovery].msg = None
         /\ ~proc'[Recovery].revive /\ ~proc'[Recovery].wasCanceled
         /\ proc'[Recovery].status = "absent"
         /\ proc'[Recovery].todo = Orphans \cup {t \in Tasks : pending[t] # <<>>}
<1> DEFINE v == [Idle EXCEPT !.pc = "recover",
                   !.todo = Orphans \cup {t \in Tasks : pending[t] # <<>>}]
<1>1. /\ v.pc = "recover" /\ v.msg = None /\ ~v.revive /\ ~v.wasCanceled /\ v.status = "absent"
      /\ v.todo = Orphans \cup {t \in Tasks : pending[t] # <<>>}
  BY DEF Idle
<1> HIDE DEF v
<1>2. proc'[Recovery] = v /\ \A p \in Procs : p # Recovery => proc'[p] = Idle
  BY DEF Restart, Procs, v
<1> QED
  BY <1>1, <1>2 DEF v

-----------------------------------------------------------------------------
(* Oldest first *)

Before(m, n) == \E i, j \in 1..Len(sent) : i < j /\ sent[i] = m /\ sent[j] = n

\* m was accepted before everything that still waits for t.
Leads(m, t) ==
  m # None => m \in Elems(sent) /\ \A n \in Elems(pending[t]) : Before(m, n)

SentOnce == \A i, j \in 1..Len(sent) : sent[i] = sent[j] => i = j

\* What waits for a task waits in the order in which it was accepted.
InLine ==
  \A t \in Tasks :
    /\ Elems(pending[t]) \subseteq Elems(sent)
    /\ \A i, j \in 1..Len(pending[t]) : i < j => Before(pending[t][i], pending[t][j])

\* The prompt of the row, and what a start or a delivery carries, came out of
\* the line before the rest of it.
Ahead ==
  /\ \A t \in Tasks : Leads(row[t].prompt, t)
  /\ \A p \in Procs : proc[p].pc \in {"launch", "write"} => Leads(proc[p].msg, proc[p].task)

\* A request carries a message nobody has accepted yet.
Fresh == proc[Api].pc \in {"f_check", "f_queue"} => proc[Api].msg \in Msgs \ Elems(sent)

OrderInv == Patient /\ SentOnce /\ InLine /\ Ahead /\ Fresh

\* A line that loses its first message or all of them is still one.
LEMMA LineKept ==
  ASSUME DataInv, SentOnce, InLine, sent' = sent,
         \A t \in Tasks : \/ pending'[t] \in {pending[t], <<>>}
                          \/ pending[t] # <<>> /\ pending'[t] = Tail(pending[t])
  PROVE  /\ SentOnce' /\ InLine'
         /\ \A m, t : t \in Tasks /\ Leads(m, t) => Leads(m, t)'
<1>1. \A m, n : Before(m, n)' <=> Before(m, n)
  BY DEF Before
<1>2. ASSUME NEW t \in Tasks
      PROVE  /\ Elems(pending'[t]) \subseteq Elems(pending[t])
             /\ \A i, j \in 1..Len(pending'[t]) : i < j =>
                  \E k, l \in 1..Len(pending[t]) :
                    k < l /\ pending[t][k] = pending'[t][i] /\ pending[t][l] = pending'[t][j]
  <2>1. pending[t] \in Seq(Msgs) /\ Len(pending[t]) \in Nat
    BY DEF DataInv
  <2>2. CASE pending'[t] = pending[t]
    BY <2>1, <2>2
  <2>3. CASE pending'[t] = <<>>
    BY <2>3 DEF Elems
  <2>4. CASE pending[t] # <<>> /\ pending'[t] = Tail(pending[t])
    <3>1. /\ Len(pending'[t]) = Len(pending[t]) - 1
          /\ \A i \in 1..Len(pending'[t]) : pending'[t][i] = pending[t][i + 1]
      BY <2>1, <2>4, HeadTailProperties
    <3>2. \A i \in 1..Len(pending'[t]) : i + 1 \in 1..Len(pending[t])
      BY <2>1, <3>1
    <3>3. Elems(pending'[t]) \subseteq Elems(pending[t])
      BY <3>1, <3>2 DEF Elems
    <3>4. ASSUME NEW i \in 1..Len(pending'[t]), NEW j \in 1..Len(pending'[t]), i < j
          PROVE  \E k, l \in 1..Len(pending[t]) :
                   k < l /\ pending[t][k] = pending'[t][i] /\ pending[t][l] = pending'[t][j]
      <4>1. i + 1 < j + 1 /\ pending[t][i + 1] = pending'[t][i] /\ pending[t][j + 1] = pending'[t][j]
        BY <3>1, <3>4
      <4> QED
        BY <3>2, <4>1
    <3> QED
      BY <3>3, <3>4
  <2> QED
    BY <2>2, <2>3, <2>4
<1>3. SentOnce'
  BY DEF SentOnce
<1>4. InLine'
  <2> SUFFICES ASSUME NEW t \in Tasks
               PROVE  /\ Elems(pending'[t]) \subseteq Elems(sent)
                      /\ \A i, j \in 1..Len(pending'[t]) : i < j => Before(pending'[t][i], pending'[t][j])
    BY <1>1 DEF InLine
  <2>1. Elems(pending'[t]) \subseteq Elems(sent)
    BY <1>2 DEF InLine
  <2>2. ASSUME NEW i \in 1..Len(pending'[t]), NEW j \in 1..Len(pending'[t]), i < j
        PROVE  Before(pending'[t][i], pending'[t][j])
    BY <1>2, <2>2 DEF InLine
  <2> QED
    BY <2>1, <2>2
<1>5. ASSUME NEW m, NEW t, t \in Tasks, Leads(m, t)
      PROVE  Leads(m, t)'
  BY <1>1, <1>2, <1>5 DEF Leads
<1> QED
  BY <1>3, <1>4, <1>5

\* The first in line leads the rest of it.
LEMMA HeadLeads ==
  ASSUME DataInv, InLine, sent' = sent, NEW t \in Tasks, NEW m,
         pending[t] # <<>>, m = Head(pending[t]), pending'[t] = Tail(pending[t])
  PROVE  Leads(m, t)'
<1> DEFINE q == pending[t]
<1>1. q \in Seq(Msgs) /\ Len(q) \in Nat \ {0} /\ Head(q) = q[1]
  BY EmptySeq DEF DataInv
<1>2. Len(Tail(q)) = Len(q) - 1 /\ \A i \in 1..Len(Tail(q)) : Tail(q)[i] = q[i + 1]
  BY <1>1, HeadTailProperties
<1>3. q[1] \in Elems(sent)
  <2>1. q[1] \in Elems(q)
    BY <1>1 DEF Elems
  <2> QED
    BY <2>1 DEF InLine
<1>4. ASSUME NEW n \in Elems(Tail(q))
      PROVE  Before(q[1], n)
  <2>1. PICK i \in 1..Len(Tail(q)) : n = Tail(q)[i]
    BY DEF Elems
  <2>2. 1 \in 1..Len(q) /\ i + 1 \in 1..Len(q) /\ 1 < i + 1 /\ n = q[i + 1]
    BY <1>1, <1>2, <2>1
  <2> QED
    BY <2>2 DEF InLine
<1> QED
  <2>1. m = q[1] /\ Elems(pending'[t]) = Elems(Tail(q)) /\ Elems(sent') = Elems(sent)
    BY <1>1
  <2>2. \A n : Before(m, n) => Before(m, n)'
    BY DEF Before
  <2> HIDE DEF q
  <2> QED
    BY <1>3, <1>4, <2>1, <2>2 DEF Leads

\* A message accepted now goes to the end.
LEMMA LineGrows ==
  ASSUME DataInv, SentOnce, InLine, NEW t \in Tasks, NEW m \in Msgs \ Elems(sent),
         sent' = Append(sent, m), pending' = [pending EXCEPT ![t] = Append(@, m)]
  PROVE  /\ SentOnce' /\ InLine'
         /\ \A n, u : u \in Tasks /\ Leads(n, u) => Leads(n, u)'
<1>1. /\ sent \in Seq(Msgs) /\ Len(sent) \in Nat /\ Len(sent') = Len(sent) + 1
      /\ \A i \in 1..Len(sent) : sent'[i] = sent[i]
      /\ sent'[Len(sent) + 1] = m
  BY AppendProperties DEF DataInv
<1>2. \A i \in 1..Len(sent') : i \in 1..Len(sent) \/ i = Len(sent) + 1
  BY <1>1
<1>3. \A i \in 1..Len(sent) : i \in 1..Len(sent') /\ i < Len(sent) + 1 /\ sent[i] # m
  BY <1>1 DEF Elems
<1>4. Len(sent) + 1 \in 1..Len(sent')
  BY <1>1
<1>5. SentOnce'
  <2> SUFFICES ASSUME NEW i \in 1..Len(sent'), NEW j \in 1..Len(sent'), sent'[i] = sent'[j]
               PROVE  i = j
    BY DEF SentOnce
  <2> QED
    BY <1>1, <1>2, <1>3 DEF SentOnce
<1>6. Elems(sent') = Elems(sent) \cup {m}
  BY <1>1, <1>2, <1>3, <1>4 DEF Elems
<1>7. ASSUME NEW a, NEW b, Before(a, b)
      PROVE  Before(a, b)'
  <2>1. PICK i, j \in 1..Len(sent) : i < j /\ sent[i] = a /\ sent[j] = b
    BY <1>7 DEF Before
  <2>2. i \in 1..Len(sent') /\ j \in 1..Len(sent') /\ sent'[i] = a /\ sent'[j] = b
    BY <1>1, <1>3, <2>1
  <2> QED
    BY <2>1, <2>2 DEF Before
<1>8. ASSUME NEW a \in Elems(sent)
      PROVE  Before(a, m)'
  <2>1. PICK i \in 1..Len(sent) : sent[i] = a
    BY DEF Elems
  <2> QED
    BY <1>1, <1>3, <1>4, <2>1 DEF Before
<1>9. ASSUME NEW u \in Tasks
      PROVE  Elems(pending'[u]) = IF u = t THEN Elems(pending[u]) \cup {m} ELSE Elems(pending[u])
  <2>1. pending[u] \in Seq(Msgs) /\ Len(pending[u]) \in Nat
    BY DEF DataInv
  <2>2. CASE u = t
    <3>1. pending'[u] = Append(pending[u], m)
      BY <2>2 DEF DataInv
    <3>2. /\ Len(pending'[u]) = Len(pending[u]) + 1
          /\ \A i \in 1..Len(pending[u]) : pending'[u][i] = pending[u][i]
          /\ pending'[u][Len(pending[u]) + 1] = m
      BY <2>1, <3>1, AppendProperties
    <3>3. /\ \A i \in 1..Len(pending'[u]) : i \in 1..Len(pending[u]) \/ i = Len(pending[u]) + 1
          /\ \A i \in 1..Len(pending[u]) : i \in 1..Len(pending'[u])
          /\ Len(pending[u]) + 1 \in 1..Len(pending'[u])
      BY <2>1, <3>2
    <3> QED
      BY <2>2, <3>2, <3>3 DEF Elems
  <2>3. CASE u # t
    BY <2>3 DEF DataInv
  <2> QED
    BY <2>2, <2>3
<1>10. InLine'
  <2> SUFFICES ASSUME NEW u \in Tasks
               PROVE  /\ Elems(pending'[u]) \subseteq Elems(sent')
                      /\ (\A i, j \in 1..Len(pending[u]) : i < j =>
                           Before(pending[u][i], pending[u][j]))'
    BY DEF InLine
  <2>1. Elems(pending[u]) \subseteq Elems(sent)
    BY DEF InLine
  <2>2. Elems(pending'[u]) \subseteq Elems(sent')
    <3>1. Elems(pending'[u]) \subseteq Elems(pending[u]) \cup {m}
      BY <1>9
    <3> QED
      BY <1>6, <2>1, <3>1
  <2>3. pending[u] \in Seq(Msgs) /\ Len(pending[u]) \in Nat
    BY DEF DataInv
  <2>4. \A i, j \in 1..Len(pending[u]) : i < j => Before(pending[u][i], pending[u][j])
    BY DEF InLine
  <2>5. ASSUME NEW i \in 1..Len(pending'[u]), NEW j \in 1..Len(pending'[u]), i < j,
               NEW a, NEW b, a = pending'[u][i], b = pending'[u][j]
        PROVE  Before(a, b)'
    <3>1. CASE u = t
      <4>1. pending'[u] = Append(pending[u], m)
        BY <3>1 DEF DataInv
      <4>2. /\ Len(pending'[u]) = Len(pending[u]) + 1
            /\ \A k \in 1..Len(pending[u]) : pending'[u][k] = pending[u][k]
            /\ pending'[u][Len(pending[u]) + 1] = m
        BY <2>3, <4>1, AppendProperties
      <4>3. i \in 1..Len(pending[u]) /\ a = pending[u][i]
        BY <2>3, <2>5, <4>2
      <4>4. CASE j \in 1..Len(pending[u])
        <5>1. b = pending[u][j]
          BY <2>5, <4>2, <4>4
        <5>2. Before(a, b)
          BY <2>4, <2>5, <4>3, <4>4, <5>1
        <5> QED
          BY <1>7, <5>2
      <4>5. CASE j = Len(pending[u]) + 1
        <5>1. a \in Elems(sent)
          BY <2>1, <4>3 DEF Elems
        <5>2. b = m
          BY <2>5, <4>2, <4>5
        <5> QED
          BY <1>8, <5>1, <5>2
      <4> QED
        BY <2>3, <4>2, <4>4, <4>5
    <3>2. CASE u # t
      <4>1. pending'[u] = pending[u]
        BY <3>2 DEF DataInv
      <4>2. Before(a, b)
        BY <2>4, <2>5, <4>1
      <4> QED
        BY <1>7, <4>2
    <3> QED
      BY <3>1, <3>2
  <2> QED
    BY <2>2, <2>5
<1>11. ASSUME NEW n, NEW u, u \in Tasks, Leads(n, u)
       PROVE  Leads(n, u)'
  <2> SUFFICES ASSUME n # None
               PROVE  n \in Elems(sent') /\ \A x \in Elems(pending'[u]) : Before(n, x)'
    BY DEF Leads
  <2>1. n \in Elems(sent) /\ \A x \in Elems(pending[u]) : Before(n, x)
    BY <1>11 DEF Leads
  <2>2. Elems(pending'[u]) \subseteq Elems(pending[u]) \cup {m}
    BY <1>9, <1>11
  <2>3. n \in Elems(sent')
    BY <1>6, <2>1
  <2>4. ASSUME NEW x \in Elems(pending'[u])
        PROVE  Before(n, x)'
    BY <1>7, <1>8, <2>1, <2>2, <2>4
  <2> QED
    BY <2>3, <2>4
<1> QED
  BY <1>5, <1>10, <1>11

\* clearActiveRun, and the unwinding that goes with it, take no message and no
\* mark of a cancel.
LEMMA ClearedMessages ==
  ASSUME DataInv, NEW r \in Runs, proc[r].task \in Tasks, mem' = ClearedRun(r) \/ Unwind(r)
  PROVE  \A u \in Tasks :
           /\ mem'[u].parked = mem[u].parked /\ mem'[u].label = mem[u].label
           /\ mem'[u].canceled = mem[u].canceled
           /\ mem[u].activeRun # r => mem'[u].activeRun = mem[u].activeRun
<1> DEFINE t == proc[r].task
           a == IF mem[t].activeRun = r THEN None ELSE mem[t].activeRun
           c == IF mem[t].committing = r THEN None ELSE mem[t].committing
           m == [mem[t] EXCEPT !.activeRun = a]
           n == [m EXCEPT !.committing = c]
<1>1. mem \in [Tasks -> Mem] /\ mem[t] \in Mem
  BY DEF DataInv
<1>2. /\ m.parked = mem[t].parked /\ m.label = mem[t].label /\ m.canceled = mem[t].canceled
      /\ n.parked = mem[t].parked /\ n.label = mem[t].label /\ n.canceled = mem[t].canceled
      /\ mem[t].activeRun # r => m.activeRun = mem[t].activeRun /\ n.activeRun = mem[t].activeRun
  BY <1>1 DEF Mem
<1>3. ClearedRun(r) = [mem EXCEPT ![t] = m]
  BY DEF ClearedRun
<1>4. CASE mem' = ClearedRun(r)
  <2> HIDE DEF m, n
  <2> QED
    BY <1>1, <1>2, <1>3, <1>4
<1>5. CASE Unwind(r)
  <2>1. mem' = [ClearedRun(r) EXCEPT ![t].committing = IF @ = r THEN None ELSE @]
    BY <1>5 DEF Unwind
  <2>2. m.committing = mem[t].committing
    BY <1>1 DEF Mem
  <2>3. ClearedRun(r)[t] = m
    BY <1>1, <1>3
  <2>4. mem' = [ClearedRun(r) EXCEPT ![t] = n]
    BY <2>1, <2>2, <2>3
  <2>5. \A u \in Tasks : mem'[u] = IF u = t THEN n ELSE mem[u]
    BY <1>1, <1>3, <2>4
  <2> HIDE DEF m, n
  <2> QED
    BY <1>2, <2>5
<1> QED
  BY <1>4, <1>5

\* Without interrupts nothing is ever parked.
LEMMA ParkedStep ==
  ASSUME ProcInv, DataInv, Patient, [Next]_vars
  PROVE  \A t \in Tasks : mem'[t].parked = None
<1>1. mem \in [Tasks -> Mem] /\ \A t \in Tasks : mem[t].parked = None
  BY DEF DataInv, Patient
<1>2. CASE mem' = mem
  BY <1>1, <1>2
<1>3. CASE UNCHANGED vars
  BY <1>2, <1>3 DEF vars
<1>4. ASSUME NEW r \in Runs, Start(r) \/ Exit(r) \/ RunEnd(r)
      PROVE  \A t \in Tasks : mem'[t].parked = None
  <2>0. proc[r].task \in Tasks
    BY <1>4 DEF ProcInv, Placed, Procs, Start, StartCheck, StartGate, StartClaim, Launch, Register,
         StartFails, FailEvent, FailFinish, Exit, RunEnd, FinalizeSucceeds, FinalizeFails,
         Promote, Requeue, Reread, Finish, Unwind
  <2>1. CASE mem' = ClearedRun(r) \/ Unwind(r)
    BY <1>1, <2>0, <2>1, ClearedMessages
  <2>2. CASE StartCheck(r) \/ StartGate(r) \/ StartClaim(r) \/ Launch(r) \/ StartFails(r)
    BY <1>2, <2>1, <2>2 DEF StartCheck, StartGate, StartClaim, Launch, StartFails
  <2>3. CASE Register(r)
    BY <1>1, <2>3 DEF Register, Mem
  <2>4. CASE FailEvent(r)
    BY <1>1, <2>4 DEF FailEvent, Mem
  <2>5. CASE FailFinish(r) \/ Finish(r)
    <3>1. mem' = mem \/ mem' = [mem EXCEPT ![proc[r].task].activeRun = None]
      BY <2>5 DEF FailFinish, Finish, FinishRun
    <3> QED
      BY <1>1, <3>1 DEF Mem
  <2>6. CASE Exit(r)
    BY <1>1, <2>6 DEF Exit, Mem
  <2>7. CASE FinalizeSucceeds(r) \/ FinalizeFails(r) \/ Promote(r) \/ Requeue(r) \/ Reread(r)
    BY <1>2, <2>7 DEF FinalizeSucceeds, FinalizeFails, Promote, Requeue, Reread
  <2> QED
    BY <1>4, <2>1, <2>2, <2>3, <2>4, <2>5, <2>6, <2>7 DEF Start, RunEnd
<1>5. ASSUME NEW p \in Procs, Deliver(p)
      PROVE  \A t \in Tasks : mem'[t].parked = None
  <2>1. CASE Invalidate(p)
    BY <1>1, <2>1 DEF Invalidate, Mem
  <2>2. CASE Enqueue(p)
    BY <1>1, <2>2 DEF Enqueue, Mem
  <2>3. CASE Pop(p) \/ Write(p) \/ ReportReplaced(p) \/ ReportRefused(p)
    BY <1>2, <2>3 DEF Pop, Write, ReportReplaced, ReportRefused
  <2> QED
    BY <1>5, <2>1, <2>2, <2>3 DEF Deliver
<1>6. CASE Cancel
  <2>1. CASE CancelMark
    BY <1>1, <2>1 DEF CancelMark, Mem
  <2>2. CASE CancelDequeue
    BY <1>1, <2>2 DEF CancelDequeue, Mem
  <2>3. CASE CancelKill
    BY <1>1, <2>3 DEF CancelKill, Mem
  <2>4. CASE CancelFinish
    BY <1>1, <2>4 DEF CancelFinish, Mem
  <2>5. CASE CancelDiscard
    BY <1>2, <2>5 DEF CancelDiscard
  <2> QED
    BY <1>6, <2>1, <2>2, <2>3, <2>4, <2>5 DEF Cancel
<1>7. CASE FollowUp
  BY <1>2, <1>7 DEF FollowUp, FollowUpCheck, FollowUpQueue, FollowUpInterrupt, FollowUpResume,
                    Patient
<1>8. ASSUME NEW t \in Tasks, Request(t) \/ CreateEnqueue(t)
      PROVE  mem' = mem
  BY <1>8 DEF Request, CreateInsert, CreateEnqueue, CancelBegin, FollowUpBegin
<1>9. CASE Recover
  BY <1>2, <1>9 DEF Recover, RecoverNext, RecoverDone
<1>10. CASE Restart
  BY <1>10 DEF Restart, Forgotten
<1>11. CASE PumpReturn
  BY <1>2, <1>11 DEF PumpReturn
<1>12. ASSUME NEW r \in Runs, PumpPop(r)
       PROVE  \A t \in Tasks : mem'[t].parked = None
  BY <1>1, <1>12 DEF PumpPop, Mem
<1> QED
  BY <1>2, <1>3, <1>4, <1>5, <1>6, <1>7, <1>8, <1>9, <1>10, <1>11, <1>12 DEF Next, Pump

\* Users who do not interrupt keep the engine from it.
LEMMA PatientStep ==
  ASSUME ProcInv, DataInv, Patient, PatientUsers, [Next]_vars
  PROVE  Patient'
<1>0. /\ \A t \in Tasks : mem'[t].parked = None
      /\ Runs \subseteq Procs /\ Api \in Procs /\ Api \notin Runs /\ Recovery \notin Runs
      /\ Api # Recovery /\ Idle.pc = "idle" /\ ~Idle.interrupt
  BY ParkedStep, EngineAssumption, IdleProc DEF EngineAssumption, Procs, Idle
<1>1. ASSUME \A r \in Runs : proc'[r].pc = "finalize" =>
               proc[r].pc = "finalize" /\ proc'[r].msg = proc[r].msg,
             proc'[Api].pc \notin {"f_interrupt", "f_resume"} /\ ~proc'[Api].interrupt
      PROVE  Patient'
  BY <1>0, <1>1 DEF Patient
<1>2. CASE UNCHANGED proc
  BY <1>1, <1>2 DEF Patient
<1>3. CASE UNCHANGED vars
  BY <1>2, <1>3 DEF vars
<1>4. ASSUME NEW p \in Procs, p # Api, Alone(p), p \in Runs /\ proc'[p].pc = "finalize" => proc'[p].msg = None
      PROVE  Patient'
  BY <1>0, <1>4 DEF Patient, Alone
<1>5. ASSUME NEW r \in Runs, Start(r) \/ Exit(r) \/ RunEnd(r)
      PROVE  Patient'
  <2>1. \/ Rests(r)
        \/ \E l, m : Moved(r, l, m) /\ (l = "finalize" => m = mem[proc[r].task].parked)
    BY <1>5, StartMoves, EndMoves
  <2>2. proc[r].task \in Tasks
    BY <1>5 DEF ProcInv, Placed, Procs, Start, StartCheck, StartGate, StartClaim, Launch, Register,
         StartFails, FailEvent, FailFinish, Exit, RunEnd, FinalizeSucceeds, FinalizeFails,
         Promote, Requeue, Reread, Finish, Unwind
  <2> QED
    BY <1>0, <1>4, <2>1, <2>2 DEF Rests, Moved, Patient
<1>6. ASSUME NEW p \in Procs, Deliver(p)
      PROVE  Patient'
  <2>1. \/ Back(p)
        \/ \E l, m : Moved(p, l, m) /\ l \notin {"finalize", "f_interrupt", "f_resume"}
    BY <1>6, DeliverMoves
  <2>2. CASE p = Api
    <3>1. Alone(p) /\ proc'[p].pc \notin {"f_interrupt", "f_resume"} /\ ~proc'[p].interrupt
      BY <1>0, <2>1, <2>2 DEF Back, Rests, Moved, Patient
    <3> QED
      BY <1>0, <1>1, <2>2, <3>1 DEF Alone
  <2>3. CASE p # Api
    <3>1. Alone(p) /\ (p \in Runs => proc'[p].pc # "finalize")
      BY <1>0, <2>1, <2>3 DEF Back, Rests, Moved
    <3> QED
      BY <1>4, <2>3, <3>1
  <2> QED
    BY <2>2, <2>3
<1>7. CASE Cancel \/ FollowUp \/ \E t \in Tasks : Request(t)
  <2>1. \A q \in Procs : q # Api => Kept(q)
    BY <1>7, RequestMoves
  <2>2. proc'[Api].pc \notin {"f_interrupt", "f_resume"} /\ ~proc'[Api].interrupt
    BY <1>0, <1>7, RequestMoves DEF Rests, Moved, CancelPcs, Patient
  <2> QED
    BY <1>0, <1>1, <2>1, <2>2 DEF Kept
<1>8. CASE Recover
  BY <1>0, <1>4, <1>8, RecoverMoves DEF Procs
<1>9. CASE Restart
  BY <1>0, <1>1, <1>9, RestartMoves
<1>10. ASSUME NEW r \in Runs, PumpPop(r)
       PROVE  Patient'
  BY <1>0, <1>4, <1>10, PumpMoves
<1>11. CASE PumpReturn
  BY <1>2, <1>11 DEF PumpReturn
<1>12. ASSUME NEW t \in Tasks, CreateEnqueue(t)
       PROVE  Patient'
  BY <1>2, <1>12 DEF CreateEnqueue
<1> QED
  BY <1>3, <1>5, <1>6, <1>7, <1>8, <1>9, <1>10, <1>11, <1>12 DEF Next, Pump

\* What a step does to the line of what waits, and to what is accepted.
LEMMA LineMoves ==
  ASSUME ProcInv, DataInv, Patient, [Next]_vars
  PROVE  \/ /\ sent' = sent
            /\ \A t \in Tasks : \/ pending'[t] \in {pending[t], <<>>}
                                \/ pending[t] # <<>> /\ pending'[t] = Tail(pending[t])
         \/ FollowUpQueue
<1>0. pending \in [Tasks -> Seq(Msgs)]
  BY DEF DataInv
<1>1. CASE sent' = sent /\ pending' = pending
  BY <1>1
<1>2. CASE UNCHANGED vars
  BY <1>1, <1>2 DEF vars
<1>3. ASSUME NEW r \in Runs, Start(r)
      PROVE  sent' = sent /\ pending' = pending
  BY <1>3 DEF Start, StartCheck, StartGate, StartClaim, Launch, Register, StartFails, FailEvent,
     FailFinish, store, ledger
<1>4. ASSUME NEW r \in Runs, Exit(r) \/ RunEnd(r)
      PROVE  sent' = sent /\ pending' = pending
  BY <1>4 DEF Exit, RunEnd, FinalizeSucceeds, FinalizeFails, Promote, Requeue, Reread, Finish,
     Unwind, store, ledger
<1>5. ASSUME NEW p \in Procs, Deliver(p), ~Pop(p)
      PROVE  sent' = sent /\ pending' = pending
  BY <1>5 DEF Deliver, Write, Invalidate, Enqueue, ReportReplaced, ReportRefused, store, ledger
<1>6. ASSUME NEW p \in Procs, Pop(p)
      PROVE  /\ sent' = sent
             /\ \A t \in Tasks : \/ pending'[t] \in {pending[t], <<>>}
                                 \/ pending[t] # <<>> /\ pending'[t] = Tail(pending[t])
  BY <1>0, <1>6 DEF Pop, ledger
<1>7. CASE Cancel
  BY <1>0, <1>7 DEF Cancel, CancelMark, CancelDiscard, CancelDequeue, CancelKill, CancelFinish,
     store, ledger
<1>8. CASE FollowUp
  BY <1>1, <1>8 DEF FollowUp, FollowUpCheck, FollowUpInterrupt, FollowUpResume, Patient, store,
     ledger
<1>9. ASSUME NEW t \in Tasks, Request(t) \/ CreateEnqueue(t)
      PROVE  sent' = sent /\ pending' = pending
  BY <1>9 DEF Request, CreateInsert, CancelBegin, FollowUpBegin, CreateEnqueue, store, ledger
<1>10. CASE Recover \/ Restart
  BY <1>1, <1>10 DEF Recover, RecoverNext, RecoverDone, Restart, store, ledger
<1>11. CASE Pump
  BY <1>1, <1>11 DEF Pump, PumpReturn, PumpPop, store, ledger
<1> QED
  BY <1>2, <1>3, <1>4, <1>5, <1>6, <1>7, <1>8, <1>9, <1>10, <1>11 DEF Next

\* A step's line is one, and everybody who was ahead of it still is.
LEMMA LineStep ==
  ASSUME ProcInv, DataInv, OrderInv, [Next]_vars
  PROVE  /\ SentOnce' /\ InLine'
         /\ \A m, t : t \in Tasks /\ Leads(m, t) => Leads(m, t)'
<1>1. CASE /\ sent' = sent
           /\ \A t \in Tasks : \/ pending'[t] \in {pending[t], <<>>}
                               \/ pending[t] # <<>> /\ pending'[t] = Tail(pending[t])
  BY <1>1, LineKept DEF OrderInv
<1>2. CASE FollowUpQueue
  <2>1. proc[Api].task \in Tasks
    BY <1>2 DEF FollowUpQueue, ProcInv, Placed, Procs
  <2>2. proc[Api].msg \in Msgs \ Elems(sent)
    BY <1>2 DEF FollowUpQueue, OrderInv, Fresh
  <2>3. /\ sent' = Append(sent, proc[Api].msg)
        /\ pending' = [pending EXCEPT ![proc[Api].task] = Append(@, proc[Api].msg)]
    BY <1>2 DEF FollowUpQueue, ApiTask
  <2> QED
    BY <2>1, <2>2, <2>3, LineGrows DEF OrderInv
<1> QED
  BY <1>1, <1>2, LineMoves DEF OrderInv

\* The message of a request stays fresh until the request queues it.
LEMMA FreshStep ==
  ASSUME ProcInv, DataInv, OrderInv, PatientUsers, [Next]_vars
  PROVE  Fresh'
<1>0. /\ Api \in Procs /\ Api \notin Runs /\ Recovery \notin Runs /\ Api # Recovery
      /\ Idle.pc = "idle" /\ Patient /\ Runs \subseteq Procs /\ Recovery \in Procs
  BY EngineAssumption, IdleProc DEF EngineAssumption, Procs, OrderInv
<1>1. CASE sent' = sent /\ proc'[Api] = proc[Api]
  BY <1>1 DEF OrderInv, Fresh
<1>2. CASE proc'[Api].pc \notin {"f_check", "f_queue"}
  BY <1>2 DEF Fresh
<1>3. CASE UNCHANGED vars
  BY <1>1, <1>3 DEF vars
<1>6. ASSUME NEW r \in Runs, Start(r) \/ Exit(r) \/ RunEnd(r)
      PROVE  Fresh'
  <2>1. Alone(r) /\ sent' = sent
    <3>1. Alone(r)
      BY <1>6, StartMoves, EndMoves DEF Rests, Moved
    <3>2. sent' = sent
      BY <1>6 DEF Start, StartCheck, StartGate, StartClaim, Launch, Register, StartFails,
         FailEvent, FailFinish, Exit, RunEnd, FinalizeSucceeds, FinalizeFails, Promote, Requeue,
         Reread, Finish, Unwind, ledger
    <3> QED
      BY <3>1, <3>2
  <2> QED
    BY <1>0, <1>1, <2>1 DEF Alone
<1>7. ASSUME NEW p \in Procs, Deliver(p)
      PROVE  Fresh'
  <2>1. \/ Back(p)
        \/ \E l, m : Moved(p, l, m) /\ l \notin {"f_check", "f_queue"}
    BY <1>7, DeliverMoves
  <2>2. CASE p = Api
    BY <1>0, <1>2, <2>1, <2>2 DEF Back, Rests, Moved
  <2>3. CASE p # Api
    <3>1. proc'[Api] = proc[Api]
      BY <1>0, <2>1, <2>3 DEF Back, Rests, Moved, Alone
    <3>2. sent' = sent
      BY <1>7 DEF Deliver, Pop, Write, Invalidate, Enqueue, ReportReplaced, ReportRefused, ledger
    <3> QED
      BY <1>1, <3>1, <3>2
  <2> QED
    BY <2>2, <2>3
<1>8. CASE Cancel \/ FollowUp \/ \E t \in Tasks : Request(t)
  <2>1. CASE \E t \in Tasks : CreateInsert(t)
    BY <1>1, <2>1 DEF CreateInsert, ledger
  <2>2. CASE proc'[Api].pc \in CancelPcs \cup {"idle"}
    BY <1>2, <2>2 DEF CancelPcs
  <2>3. ASSUME NEW t \in Tasks, NEW m \in Msgs, FollowUpBegin(t, m, "followup"), proc'[Api].msg = m
        PROVE  Fresh'
    BY <2>3 DEF FollowUpBegin, Fresh, ledger
  <2>4. CASE FollowUpCheck /\ Moved(Api, "f_queue", proc[Api].msg)
    BY <2>4 DEF FollowUpCheck, Moved, OrderInv, Fresh, ledger
  <2>5. CASE Rests(Api)
    BY <1>0, <1>2, <2>5 DEF Rests
  <2>6. CASE Moved(Api, "pop", None)
    BY <1>2, <2>6 DEF Moved
  <2> QED
    BY <1>0, <1>8, <2>1, <2>2, <2>3, <2>4, <2>5, <2>6, RequestMoves
<1>9. CASE Recover
  <2>1. sent' = sent
    BY <1>9 DEF Recover, RecoverNext, RecoverDone, ledger
  <2> QED
    BY <1>0, <1>1, <1>9, <2>1, RecoverMoves DEF Alone
<1>10. CASE Restart
  BY <1>0, <1>2, <1>10, RestartMoves
<1>11. CASE Pump
  <2>1. sent' = sent
    BY <1>11 DEF Pump, PumpReturn, PumpPop, ledger
  <2>2. proc'[Api] = proc[Api]
    BY <1>0, <1>11, PumpMoves DEF Pump, PumpReturn, Alone
  <2> QED
    BY <1>1, <2>1, <2>2
<1>12. ASSUME NEW t \in Tasks, CreateEnqueue(t)
       PROVE  Fresh'
  BY <1>1, <1>12 DEF CreateEnqueue, ledger
<1> QED
  BY <1>3, <1>6, <1>7, <1>8, <1>9, <1>10, <1>11, <1>12 DEF Next

\* The prompt of a row changes when a delivery writes it, and then to what the
\* delivery carries.
LEMMA PromptMoves ==
  ASSUME ProcInv, DataInv, [Next]_vars
  PROVE  \A t \in Tasks :
           \/ row'[t].prompt = row[t].prompt
           \/ \E p \in Procs : /\ proc[p].pc = "write" /\ proc[p].task = t
                               /\ row'[t].prompt = proc[p].msg
<1>0. row \in [Tasks -> Row]
  BY DEF DataInv
<1>1. CASE row' = row
  BY <1>1
<1>2. ASSUME NEW t, NEW s, row' = [row EXCEPT ![t].status = s]
      PROVE  \A u \in Tasks : row'[u].prompt = row[u].prompt
  BY <1>0, <1>2 DEF Row
<1>3. CASE UNCHANGED vars
  BY <1>1, <1>3 DEF vars
<1>4. ASSUME NEW r \in Runs, Start(r)
      PROVE  row' = row \/ \E t, s : row' = [row EXCEPT ![t].status = s]
  BY <1>4 DEF Start, StartCheck, StartGate, StartClaim, Launch, Register, StartFails,
     FailEvent, FailFinish, FinishRun, store
<1>5. ASSUME NEW r \in Runs, Exit(r) \/ RunEnd(r), ~Promote(r)
      PROVE  row' = row \/ \E t, s : row' = [row EXCEPT ![t].status = s]
  BY <1>5 DEF Exit, RunEnd, FinalizeSucceeds, FinalizeFails, Requeue, Reread, Finish, FinishRun,
     Unwind, store
<1>6. ASSUME NEW r \in Runs, Promote(r)
      PROVE  \A u \in Tasks : row'[u].prompt = row[u].prompt
  BY <1>0, <1>6 DEF Promote, Row
<1>7. ASSUME NEW p \in Procs, Deliver(p), ~Write(p)
      PROVE  row' = row
  BY <1>7 DEF Deliver, Pop, Invalidate, Enqueue, ReportReplaced, ReportRefused, store
<1>8. ASSUME NEW p \in Procs, Write(p)
      PROVE  \A u \in Tasks : \/ row'[u].prompt = row[u].prompt
                              \/ /\ proc[p].pc = "write" /\ proc[p].task = u
                                 /\ row'[u].prompt = proc[p].msg
  <2>1. CASE row' = row
    BY <2>1
  <2>2. CASE row' = [row EXCEPT ![proc[p].task].status = "queued", ![proc[p].task].prompt = proc[p].msg]
    BY <1>0, <1>8, <2>2 DEF Write, Row
  <2> QED
    BY <1>8, <2>1, <2>2 DEF Write
<1>9. CASE Cancel \/ FollowUp
  <2>1. row' = row \/ \E t, s : row' = [row EXCEPT ![t].status = s]
    BY <1>9 DEF Cancel, CancelMark, CancelDiscard, CancelDequeue, CancelKill, CancelFinish,
       FollowUp, FollowUpCheck, FollowUpQueue, FollowUpInterrupt, FollowUpResume, store
  <2> QED
    BY <1>1, <1>2, <2>1
<1>10. ASSUME NEW t \in Tasks, Request(t) \/ CreateEnqueue(t)
       PROVE  row' = row \/ \E u, s : row' = [row EXCEPT ![u].status = s]
  BY <1>10 DEF Request, CreateInsert, CancelBegin, FollowUpBegin, CreateEnqueue, store
<1>11. CASE Recover \/ Pump
  BY <1>1, <1>11 DEF Recover, RecoverNext, RecoverDone, Pump, PumpReturn, PumpPop, store
<1>12. CASE Restart
  <2>1. \A u \in Tasks : row'[u] = row[u] \/ row'[u] = [row[u] EXCEPT !.status = "failed"]
    BY <1>12 DEF Restart
  <2> QED
    BY <1>0, <2>1 DEF Row
<1> QED
  BY <1>1, <1>2, <1>3, <1>4, <1>5, <1>6, <1>7, <1>8, <1>9, <1>10, <1>11, <1>12 DEF Next

\* The message p carries to a claimed row or to the write of a delivery came out
\* of the line before what still waits.
Leading(p) ==
  proc'[p].pc \in {"launch", "write"} =>
    \E m, t : m = proc'[p].msg /\ t = proc'[p].task /\ Leads(m, t)'

\* So it is after every step.
LEMMA CarriersStep ==
  ASSUME ProcInv, DataInv, DataInv', ProcInv', OrderInv, PatientUsers, [Next]_vars
  PROVE  \A p \in Procs : Leading(p)
<1>0. /\ Api \in Procs /\ Api \notin Runs /\ Recovery \notin Runs /\ Api # Recovery
      /\ Idle.pc = "idle" /\ Patient /\ Runs \subseteq Procs /\ Recovery \in Procs
      /\ Ahead
  BY EngineAssumption, IdleProc DEF EngineAssumption, Procs, OrderInv
<1>1. \A m, t : t \in Tasks /\ Leads(m, t) => Leads(m, t)'
  BY LineStep
<1>2. \A p \in Procs : proc[p].pc \in {"launch", "write"} =>
        proc[p].task \in Tasks /\ Leads(proc[p].msg, proc[p].task)
  BY <1>0 DEF Ahead, ProcInv, Placed
<1>3. ASSUME NEW p \in Procs, Kept(p)
      PROVE  Leading(p)
  BY <1>1, <1>2, <1>3 DEF Leading, Kept
<1>4. ASSUME NEW p \in Procs, Alone(p), Leading(p)
      PROVE  \A q \in Procs : Leading(q)
  BY <1>3, <1>4 DEF Alone, Kept
<1>5. ASSUME NEW p \in Procs, proc'[p].pc \notin {"launch", "write"}
      PROVE  Leading(p)
  BY <1>5 DEF Leading
<1>6. CASE UNCHANGED proc
  BY <1>3, <1>6 DEF Kept
<1>7. CASE UNCHANGED vars
  BY <1>6, <1>7 DEF vars
<1>8. ASSUME NEW r \in Runs, Start(r)
      PROVE  \A q \in Procs : Leading(q)
  <2>0. PICK t, m : t = proc[r].task /\ m = row[t].prompt
    OBVIOUS
  <2>1. CASE Rests(r)
    BY <1>0, <1>4, <1>5, <2>1 DEF Rests
  <2>2. CASE \E l, n : Moved(r, l, n) /\ l \notin {"launch", "write"}
    BY <1>0, <1>4, <1>5, <2>2 DEF Moved
  <2>3. CASE StartClaim(r) /\ Moved(r, "launch", m)
    <3>1. t \in Tasks
      BY <1>0, <2>0, <2>3 DEF StartClaim, ProcInv, Placed
    <3>2. Leads(m, t)
      BY <1>0, <2>0, <3>1 DEF Ahead
    <3>3. proc'[r].msg = m /\ proc'[r].task = t
      BY <2>0, <2>3 DEF Moved, SameJob
    <3>4. Leads(m, t)'
      BY <1>1, <3>1, <3>2
    <3> QED
      BY <1>0, <1>4, <2>3, <3>3, <3>4 DEF Leading, Moved
  <2> QED
    BY <1>8, <2>0, <2>1, <2>2, <2>3, StartMoves
<1>9. ASSUME NEW r \in Runs, Exit(r) \/ RunEnd(r)
      PROVE  \A q \in Procs : Leading(q)
  <2>1. \/ Rests(r)
        \/ \E l, n : Moved(r, l, n) /\ l \notin {"launch", "write"}
        \/ FinalizeSucceeds(r) /\ proc[r].msg # None
    BY <1>9, EndMoves
  <2>2. ~(FinalizeSucceeds(r) /\ proc[r].msg # None)
    BY <1>0 DEF FinalizeSucceeds, Patient
  <2> QED
    BY <1>0, <1>4, <1>5, <2>1, <2>2 DEF Rests, Moved
<1>10. ASSUME NEW p \in Procs, Deliver(p)
       PROVE  \A q \in Procs : Leading(q)
  <2>1. \/ Back(p)
        \/ \E l, n : Moved(p, l, n) /\ l \notin {"launch", "write"}
        \/ Pop(p) /\ pending[proc[p].task] # <<>> /\ Moved(p, "write", Head(pending[proc[p].task]))
    BY <1>10, DeliverMoves
  <2>2. CASE Back(p)
    <3>1. Alone(p) /\ proc'[p].pc \notin {"launch", "write"}
      BY <2>2, BackMoves
    <3> QED
      BY <1>4, <1>5, <3>1
  <2>3. CASE \E l, n : Moved(p, l, n) /\ l \notin {"launch", "write"}
    BY <1>4, <1>5, <2>3 DEF Moved
  <2>4. CASE Pop(p) /\ pending[proc[p].task] # <<>> /\ Moved(p, "write", Head(pending[proc[p].task]))
    <3>1. PICK t, m : t = proc[p].task /\ m = Head(pending[t])
      OBVIOUS
    <3>2. t \in Tasks
      BY <2>4, <3>1 DEF Pop, ProcInv, Placed
    <3>3. pending'[t] = Tail(pending[t]) /\ sent' = sent
      BY <2>4, <3>1, <3>2 DEF Pop, DataInv, ledger
    <3>4. Leads(m, t)'
      BY <2>4, <3>1, <3>2, <3>3, HeadLeads DEF OrderInv
    <3>5. proc'[p].msg = m /\ proc'[p].task = t /\ Alone(p)
      BY <2>4, <3>1 DEF Moved, SameJob
    <3> QED
      BY <1>4, <3>4, <3>5 DEF Leading
  <2> QED
    BY <2>1, <2>2, <2>3, <2>4
<1>11. CASE Cancel \/ FollowUp \/ \E t \in Tasks : Request(t)
  <2>1. \A q \in Procs : q # Api => Kept(q)
    BY <1>0, <1>11, RequestMoves
  <2>2. Kept(Api) \/ proc'[Api].pc \notin {"launch", "write"}
    BY <1>0, <1>11, RequestMoves DEF Rests, Moved, CancelPcs, Kept
  <2> QED
    BY <1>3, <1>5, <2>1, <2>2
<1>12. CASE Recover
  BY <1>0, <1>4, <1>5, <1>12, RecoverMoves DEF Rests
<1>13. CASE Restart
  BY <1>0, <1>5, <1>13, RestartMoves
<1>14. ASSUME NEW r \in Runs, PumpPop(r)
       PROVE  \A q \in Procs : Leading(q)
  BY <1>0, <1>4, <1>5, <1>14, PumpMoves
<1>15. CASE PumpReturn
  BY <1>6, <1>15 DEF PumpReturn
<1>16. ASSUME NEW t \in Tasks, CreateEnqueue(t)
       PROVE  \A q \in Procs : Leading(q)
  BY <1>6, <1>16 DEF CreateEnqueue
<1> QED
  BY <1>7, <1>8, <1>9, <1>10, <1>11, <1>12, <1>13, <1>14, <1>15, <1>16 DEF Next, Pump

\* Nothing that waits is older than what went before it.
LEMMA OrderStep ==
  ASSUME ProcInv, DataInv, ProcInv', DataInv', OrderInv, PatientUsers, [Next]_vars
  PROVE  OrderInv'
<1>1. Patient' /\ SentOnce' /\ InLine' /\ Fresh'
  BY PatientStep, LineStep, FreshStep DEF OrderInv
<1>2. \A m, t : t \in Tasks /\ Leads(m, t) => Leads(m, t)'
  BY LineStep
<1>3. ASSUME NEW t \in Tasks
      PROVE  Leads(row[t].prompt, t)'
  <2>1. PICK m : m = row'[t].prompt
    OBVIOUS
  <2>2. Leads(m, t)
    BY <2>1, PromptMoves DEF OrderInv, Ahead
  <2>3. Leads(m, t)'
    BY <1>2, <2>2
  <2> QED
    BY <2>1, <2>3 DEF Leads
<1>4. ASSUME NEW p \in Procs, proc'[p].pc \in {"launch", "write"}
      PROVE  Leads(proc[p].msg, proc[p].task)'
  <2>1. PICK m, t : m = proc'[p].msg /\ t = proc'[p].task /\ Leads(m, t)'
    BY <1>4, CarriersStep DEF Leading
  <2> QED
    BY <2>1 DEF Leads
<1>5. Ahead'
  BY <1>3, <1>4 DEF Ahead
<1> QED
  BY <1>1, <1>5 DEF OrderInv

\* As long as nobody interrupts a turn.
LEMMA OrderInvariant ==
  ASSUME PatientUsers
  PROVE  Spec => []OrderInv
<1>1. Init => OrderInv
  <2> SUFFICES ASSUME Init PROVE OrderInv
    OBVIOUS
  <2>1. /\ Elems(sent) = {} /\ Len(sent) = 0
        /\ \A t \in Tasks : Elems(pending[t]) = {} /\ Len(pending[t]) = 0 /\ row[t].prompt = None
                            /\ mem[t].parked = None
        /\ \A p \in Procs : proc[p] = Idle
    BY DEF Init, Elems, Forgotten
  <2>2. Idle.pc = "idle" /\ ~Idle.interrupt /\ Api \in Procs /\ Runs \subseteq Procs
    BY IdleProc DEF Idle, Procs
  <2> QED
    BY <2>1, <2>2 DEF OrderInv, Patient, SentOnce, InLine, Ahead, Leads, Fresh
<1>2. (ProcInv /\ DataInv) /\ (ProcInv /\ DataInv)' /\ OrderInv /\ [Next]_vars => OrderInv'
  BY OrderStep
<1> QED
  BY <1>1, <1>2, CoreInvariant, PTL DEF Spec

\* Where users send follow-ups and cancel, an agent is given the messages of a
\* task in the order in which they were accepted, whoever of the runs, the
\* requests and the recovery takes the next one out of the line, and when.
THEOREM MessagesInOrder ==
  ASSUME Ops \subseteq {"cancel", "followup"}
  PROVE  Spec => OldestFirst
<1>1. ASSUME ProcInv, OrderInv, NEW m, NEW t \in Tasks, NEW n \in Elems(pending[t]),
             NEW r \in Runs, proc[r].task = t, proc[r].msg = m, proc[r].pc = "launch", m # None
      PROVE  ~ \E i, j \in 1..Len(sent) : i < j /\ sent[i] = n /\ sent[j] = m
  <2>1. Before(m, n)
    BY <1>1 DEF OrderInv, Ahead, Leads, Procs
  <2>2. PICK k, l \in 1..Len(sent) : k < l /\ sent[k] = m /\ sent[l] = n
    BY <2>1 DEF Before
  <2> SUFFICES ASSUME NEW i \in 1..Len(sent), NEW j \in 1..Len(sent), i < j,
                      sent[i] = n, sent[j] = m
               PROVE  FALSE
    OBVIOUS
  <2>3. i = l /\ j = k
    BY <1>1, <2>2 DEF OrderInv, SentOnce
  <2> QED
    BY <2>2, <2>3
<1>2. (ProcInv /\ DataInv)' /\ (ProcInv /\ DataInv) /\ OrderInv /\ [Next]_vars =>
        [\A m \in handed' \ handed : \A t \in Tasks : \A m0 \in Elems(pending[t]) :
          (\E r \in Runs : proc[r].task = t /\ proc[r].msg = m /\ proc[r].pc = "launch")
            => ~ \E i, j \in 1..Len(sent) : i < j /\ sent[i] = m0 /\ sent[j] = m]_vars
  <2>1. DataInv' => None \notin handed'
    BY EngineAssumption DEF DataInv, EngineAssumption
  <2> QED
    BY <1>1, <2>1, SMTT(30)
<1>3. Spec => []OrderInv
  BY OrderInvariant DEF PatientUsers
<1> QED
  BY <1>2, <1>3, CoreInvariant, PTL DEF Spec, OldestFirst

-----------------------------------------------------------------------------
(* Nothing lost, and one turn at a time, where users only follow up *)

FollowUsers == Ops \subseteq {"followup"}

QueuedPcs  == {"check", "gate", "claim", "invalidate", "enqueue", "requeue"}
RunningPcs == {"launch", "register", "live", "finalize", "reread", "finish"}
FailPcs    == {"fail_event", "fail_finish"}
HandPcs    == QueuedPcs \cup RunningPcs \cup FailPcs \cup {"pop", "write"}
StartPcs   == {"check", "gate", "claim", "launch", "register", "fail_event"}
EmptyPcs   == {"idle", "recover", "check", "live", "finalize", "pop", "reread", "requeue",
               "finish", "unwind"}
PromptPcs  == {"gate", "claim", "launch", "register", "fail_event", "fail_finish",
               "invalidate", "enqueue"}

\* A follow-up to a task that has ended, from its first look at the row.
Reviving(p) == proc[p].revive /\ proc[p].pc \in {"f_check", "f_queue"}

\* p has the task it works on in hand: what happens to it next is p's to say.
Holding(p) == proc[p].pc \in HandPcs \/ Reviving(p)

\* Nobody holds what another one holds, what waits in the start queue, or what
\* Create has not put there yet.
OneHand ==
  /\ \A p, q \in Procs : Holding(p) /\ Holding(q) /\ proc[p].task = proc[q].task => p = q
  /\ \A t \in Elems(queue) \cup creating :
       row[t].status = "queued" /\ \A p \in Procs : Holding(p) => proc[p].task # t
  /\ creating \cap Elems(queue) = {}
  /\ \A i, j \in 1..Len(queue) : queue[i] = queue[j] => i = j

\* What Recovery has still to deliver to has ended, and Recovery is alone with it.
Recovering ==
  /\ \A t \in proc[Recovery].todo : row[t].status \in Terminal
  /\ proc[Recovery].pc \in HandPcs => proc[Recovery].task \notin proc[Recovery].todo
  /\ Up => proc[Recovery].todo = {}
  /\ ~Up => creating = {} /\ proc[Api].pc = "idle"

\* The row reads what the holder left or found in it.
Fits(p) ==
  LET s == row[proc[p].task].status IN
  /\ proc[p].pc \in QueuedPcs => s = "queued"
  /\ proc[p].pc \in RunningPcs => s = "running"
  /\ proc[p].pc \in FailPcs => s = IF proc[p].allowQueued THEN "queued" ELSE "running"
  /\ proc[p].pc \in {"pop", "write"} /\ p \in Runs => s = "running"
  /\ (proc[p].pc \in {"pop", "write"} /\ p \notin Runs) \/ Reviving(p) => s \in Terminal

\* An execution that holds a task is the one the engine calls current.
Charged(p) == p \in Runs /\ proc[p].pc \in HandPcs \ {"enqueue"} => IsActive(p)

\* What p carries is the row's prompt, and it carries it no longer than needed.
Carries(p) ==
  /\ proc[p].pc \in PromptPcs => proc[p].msg = row[proc[p].task].prompt
  /\ proc[p].pc = "register" => proc[p].msg \in handed \cup {None}
  /\ proc[p].pc = "fail_finish" => proc[p].msg \in reported \cup {None}
  /\ proc[p].pc \in EmptyPcs => proc[p].msg = None

\* No delivery is refused, and none displaces another.
Plain(p) ==
  /\ ~proc[p].wasCanceled /\ proc[p].status # "canceled"
  /\ proc[p].pc \notin {"replaced", "refused"} \cup CancelPcs

Sound(p) == Fits(p) /\ Charged(p) /\ Carries(p) /\ Plain(p)

\* A label names the prompt of a turn that is still to start.
Labelled(t) ==
  mem[t].label # None =>
    /\ mem[t].label = row[t].prompt
    /\ \/ t \in Elems(queue)
       \/ \E r \in Runs : proc[r].task = t /\ proc[r].pc \in StartPcs

SoundTask(t) == Labelled(t) /\ ~mem[t].canceled /\ row[t].status # "canceled"

Settled(m) == m \in handed \cup reported \/ Owed(m)

FollowInv ==
  /\ OneHand /\ Recovering /\ NoSilentLoss
  /\ \A p \in Procs : Sound(p)
  /\ \A t \in Tasks : SoundTask(t)

\* Two places, two names.
LEMMA HandPlaces ==
  /\ SlotPcs \subseteq HandPcs /\ StartPcs \subseteq HandPcs /\ PromptPcs \subseteq HandPcs
  /\ "idle" \notin HandPcs /\ "recover" \notin HandPcs /\ "unwind" \notin HandPcs
  /\ "f_check" \notin HandPcs /\ "f_queue" \notin HandPcs
BY DEF SlotPcs, StartPcs, HandPcs, PromptPcs, QueuedPcs, RunningPcs, FailPcs

\* Whoever holds a task holds one of the engine's.
LEMMA HoldsTask ==
  ASSUME ProcInv, NEW p \in Procs, Holding(p)
  PROVE  proc[p].task \in Tasks
BY HandPlaces DEF ProcInv, Placed, Holding, Reviving

\* A message is lost only where its place is.
LEMMA LossKept ==
  ASSUME DataInv, NoSilentLoss, restarts' = restarts,
         \A m \in Elems(sent') : m \in Elems(sent) \/ Settled(m)',
         \A m \in Msgs : m \in Elems(sent) /\ Settled(m) => Settled(m)'
  PROVE  NoSilentLoss'
<1>1. \A m \in Elems(sent) : m \in Msgs
  BY DEF DataInv, Elems
<1> QED
  BY <1>1 DEF NoSilentLoss, Settled

\* A task that joins a queue of others.
LEMMA ElemsGrow ==
  ASSUME NEW S, NEW s \in Seq(S), NEW e \in S
  PROVE  Elems(Append(s, e)) = Elems(s) \cup {e}
<1>1. /\ Len(Append(s, e)) = Len(s) + 1 /\ Len(s) \in Nat
      /\ \A i \in 1..Len(s) : Append(s, e)[i] = s[i]
      /\ Append(s, e)[Len(s) + 1] = e
  BY AppendProperties
<1>2. /\ \A i \in 1..Len(Append(s, e)) : i \in 1..Len(s) \/ i = Len(s) + 1
      /\ \A i \in 1..Len(s) : i \in 1..Len(Append(s, e))
      /\ Len(s) + 1 \in 1..Len(Append(s, e))
  BY <1>1
<1> QED
  BY <1>1, <1>2 DEF Elems

\* The same for the start queue, which still has every task once.
LEMMA QueueGrows ==
  ASSUME DataInv, NEW t \in Tasks, t \notin Elems(queue), queue' = Append(queue, t),
         \A i, j \in 1..Len(queue) : queue[i] = queue[j] => i = j
  PROVE  /\ Elems(queue') = Elems(queue) \cup {t}
         /\ \A i, j \in 1..Len(queue') : queue'[i] = queue'[j] => i = j
<1>1. queue \in Seq(Tasks)
  BY DEF DataInv
<1>2. /\ Len(queue') = Len(queue) + 1 /\ Len(queue) \in Nat
      /\ \A i \in 1..Len(queue) : queue'[i] = queue[i] /\ queue[i] # t
      /\ queue'[Len(queue) + 1] = t
  BY <1>1, AppendProperties DEF Elems
<1>3. \A i \in 1..Len(queue') : i \in 1..Len(queue) \/ i = Len(queue) + 1
  BY <1>2
<1> QED
  BY <1>1, <1>2, <1>3, ElemsGrow

\* p steps, and t, which no other one holds, is the only task that changes.
OwnStep(p, t) ==
  /\ Alone(p) /\ handed \subseteq handed' /\ reported \subseteq reported'
  /\ \A q \in Procs : q # p /\ Holding(q) => proc[q].task # t
  /\ \A u \in Tasks : u # t => row'[u] = row[u] /\ mem'[u].activeRun = mem[u].activeRun

\* Whoever does not step has no part in what one hand does to its own task.
LEMMA OthersSound ==
  ASSUME ProcInv, FollowInv, NEW p \in Procs, NEW t, OwnStep(p, t)
  PROVE  \A q \in Procs : q # p => Sound(q)' /\ (Holding(q)' <=> Holding(q))
<1> SUFFICES ASSUME NEW q \in Procs, q # p
             PROVE  Sound(q)' /\ (Holding(q)' <=> Holding(q))
  OBVIOUS
<1>1. proc'[q] = proc[q] /\ Sound(q)
  BY DEF Alone, OwnStep, FollowInv
<1>2. (Holding(q)' <=> Holding(q)) /\ (Reviving(q)' <=> Reviving(q))
  BY <1>1 DEF Holding, Reviving
<1>0. handed \subseteq handed' /\ reported \subseteq reported'
  BY DEF OwnStep
<1>3. CASE Holding(q)
  <2>1. proc[q].task \in Tasks /\ proc[q].task # t
    BY <1>3, HoldsTask DEF OwnStep
  <2>2. /\ row'[proc[q].task] = row[proc[q].task]
        /\ mem'[proc[q].task].activeRun = mem[proc[q].task].activeRun
    BY <2>1 DEF OwnStep
  <2>3. Fits(q)'
    BY <1>1, <1>2, <2>2 DEF Sound, Fits
  <2>4. Charged(q)'
    BY <1>1, <2>2 DEF Sound, Charged, IsActive
  <2>5. Carries(q)'
    BY <1>0, <1>1, <2>2 DEF Sound, Carries
  <2> QED
    BY <1>1, <1>2, <2>3, <2>4, <2>5 DEF Sound, Plain
<1>4. CASE ~Holding(q)
  <2>1. proc[q].pc \notin HandPcs /\ ~Reviving(q)
    BY <1>4 DEF Holding
  <2>2. Fits(q)'
    BY <1>1, <1>2, <2>1 DEF Fits, HandPcs
  <2>3. Charged(q)'
    BY <1>1, <2>1 DEF Charged
  <2>4. Carries(q)'
    BY <1>0, <1>1, <2>1, HandPlaces DEF Sound, Carries, HandPcs, RunningPcs, FailPcs
  <2> QED
    BY <1>1, <1>2, <2>2, <2>3, <2>4 DEF Sound, Plain
<1> QED
  BY <1>3, <1>4

\* A step of the one who has t in hand.
LEMMA TurnStep ==
  ASSUME ProcInv, DataInv, FollowInv, NEW p \in Procs, NEW t, t = proc[p].task, Holding(p),
         Alone(p), Holding(p)' => proc'[p].task = t,
         queue' = queue \/ (queue' = Append(queue, t) /\ ~Holding(p)' /\ row'[t].status = "queued"),
         creating' = creating, restarts' = restarts,
         \A m \in Elems(sent') : m \in Elems(sent) \/ Settled(m)',
         handed \subseteq handed', reported \subseteq reported',
         \A u \in Tasks : u # t => row'[u] = row[u] /\ mem'[u] = mem[u] /\ pending'[u] = pending[u],
         Sound(p)', SoundTask(t)',
         p = Recovery => /\ proc'[p].todo = proc[p].todo /\ proc'[p].pc # "idle",
         \A m \in Msgs : /\ m \in Elems(sent)
                          /\ m \in {proc[p].msg, mem[t].label, mem[t].parked} \cup Elems(pending[t])
                          => Settled(m)'
  PROVE  FollowInv'
<1>0. /\ Api \in Procs /\ Recovery \in Procs /\ Runs \subseteq Procs /\ Api # Recovery
      /\ Recovery \notin Runs /\ Api \notin Runs /\ t \in Tasks
  BY EngineAssumption, HoldsTask DEF EngineAssumption, Procs
<1>1. \A q \in Procs : q # p /\ Holding(q) => proc[q].task # t
  BY DEF FollowInv, OneHand
<1>2. \A q \in Procs : q # p => proc'[q] = proc[q] /\ Sound(q)' /\ (Holding(q)' <=> Holding(q))
  <2>1. OwnStep(p, t)
    BY <1>1 DEF OwnStep
  <2>2. \A q \in Procs : q # p => Sound(q)' /\ (Holding(q)' <=> Holding(q))
    BY <2>1, OthersSound
  <2> QED
    BY <2>2 DEF Alone
<1>3. OneHand'
  <2>1. \A q, s \in Procs : Holding(q)' /\ Holding(s)' /\ proc'[q].task = proc'[s].task => q = s
    BY <1>1, <1>2 DEF FollowInv, OneHand
  <2>2. ASSUME NEW u \in Elems(queue) \cup creating
        PROVE  /\ u # t /\ row'[u].status = "queued"
               /\ \A q \in Procs : Holding(q)' => proc'[q].task # u
    <3>1. /\ u # t /\ row[u].status = "queued" /\ u \in Tasks
          /\ \A q \in Procs : Holding(q) => proc[q].task # u
      <4>1. \A v \in Elems(queue) \cup creating :
              row[v].status = "queued" /\ \A q \in Procs : Holding(q) => proc[q].task # v
        BY DEF FollowInv, OneHand
      <4>2. Elems(queue) \subseteq Tasks /\ creating \subseteq Tasks
        BY DEF DataInv, Elems
      <4> QED
        BY <4>1, <4>2
    <3> QED
      BY <1>2, <3>1
  <2>3. CASE queue' = queue
    <3>1. Elems(queue') = Elems(queue) /\ queue' = queue /\ creating' = creating
      BY <2>3
    <3>2. /\ creating \cap Elems(queue) = {}
          /\ \A i, j \in 1..Len(queue) : queue[i] = queue[j] => i = j
      BY DEF FollowInv, OneHand
    <3> QED
      BY <2>1, <2>2, <3>1, <3>2 DEF OneHand
  <2>4. CASE queue' = Append(queue, t) /\ ~Holding(p)' /\ row'[t].status = "queued"
    <3>1. Elems(queue') = Elems(queue) \cup {t}
          /\ \A i, j \in 1..Len(queue') : queue'[i] = queue'[j] => i = j
      BY <1>0, <2>2, <2>4, QueueGrows DEF FollowInv, OneHand
    <3>2. \A q \in Procs : Holding(q)' => proc'[q].task # t
      BY <1>1, <1>2, <2>4
    <3> QED
      BY <2>1, <2>2, <2>4, <3>1, <3>2 DEF FollowInv, OneHand
  <2> QED
    BY <2>3, <2>4
<1>4. Recovering'
  <2>1. ASSUME NEW u \in proc[Recovery].todo
        PROVE  u # t /\ u \in Tasks /\ row[u].status \in Terminal
    <3>1. u \in Tasks /\ row[u].status \in Terminal /\ ~Up
      BY <1>0 DEF FollowInv, Recovering, ProcInv, Proc
    <3>2. CASE p = Recovery
      BY <3>1, <3>2, HandPlaces DEF FollowInv, Recovering, Holding, Reviving, ProcInv, Placed,
         RecoveryPcs, DeliverPcs
    <3>3. CASE p \in Runs
      <4>1. proc[p].pc \in HandPcs
        BY <3>3, HandPlaces DEF Holding, Reviving, ProcInv, Placed, RunPcs, SlotPcs, FinishPcs,
           DeliverPcs
      <4>2. row[t].status \in {"queued", "running"}
        BY <3>3, <4>1 DEF FollowInv, Sound, Fits, HandPcs
      <4> QED
        BY <3>1, <4>2 DEF Terminal
    <3>4. p # Api
      BY <3>1, HandPlaces DEF FollowInv, Recovering, Holding, Reviving
    <3> QED
      BY <3>1, <3>2, <3>3, <3>4 DEF Procs
  <2>2. proc'[Recovery].todo = proc[Recovery].todo
    BY <1>0, <1>2
  <2>3. \A u \in proc'[Recovery].todo : row'[u].status \in Terminal
    BY <2>1, <2>2
  <2>4. CASE p = Recovery
    <3>1. ~Up /\ ~Up'
      BY <2>4, HandPlaces DEF Up, FollowInv, Holding, Reviving
    <3>2. proc'[Recovery].pc \in HandPcs => proc'[Recovery].task \notin proc'[Recovery].todo
      BY <2>1, <2>2, <2>4 DEF Holding
    <3> QED
      BY <1>0, <1>2, <2>3, <2>4, <3>1, <3>2 DEF FollowInv, Recovering, Up
  <2>5. CASE p # Recovery
    <3>1. proc'[Recovery] = proc[Recovery] /\ (Up' <=> Up)
      BY <1>0, <1>2, <2>5 DEF Up
    <3>2. ~Up => proc'[Api] = proc[Api]
      BY <1>0, <1>2, HandPlaces DEF FollowInv, Recovering, Holding, Reviving
    <3> QED
      BY <2>3, <3>1, <3>2 DEF FollowInv, Recovering
  <2> QED
    BY <2>4, <2>5
<1>5. ASSUME NEW u \in Tasks
      PROVE  SoundTask(u)'
  <2>1. CASE u = t
    BY <2>1
  <2>2. CASE u # t
    <3>1. row'[u] = row[u] /\ mem'[u] = mem[u] /\ SoundTask(u)
      BY <2>2 DEF FollowInv
    <3>2. \A r \in Runs : proc[r].task = u => proc'[r] = proc[r]
      BY <1>0, <1>2, <2>2
    <3>3. Elems(queue) \subseteq Elems(queue')
      <4>1. queue \in Seq(Tasks)
        BY DEF DataInv
      <4>2. CASE queue' = queue
        BY <4>2
      <4>3. CASE queue' = Append(queue, t)
        BY <1>0, <4>1, <4>3, ElemsGrow
      <4> QED
        BY <4>2, <4>3
    <3> QED
      BY <3>1, <3>2, <3>3 DEF SoundTask, Labelled
  <2> QED
    BY <2>1, <2>2
<1>6. NoSilentLoss'
  <2>1. ASSUME NEW m \in Msgs, m \in Elems(sent), Settled(m)
        PROVE  Settled(m)'
    <3>1. CASE m \in handed \cup reported
      BY <3>1 DEF Settled
    <3>2. ASSUME NEW u \in Tasks, m \in Elems(pending[u]) \cup {mem[u].parked, mem[u].label}
          PROVE  Settled(m)'
      <4>1. CASE u = t
        BY <2>1, <3>2, <4>1
      <4>2. CASE u # t
        BY <3>2, <4>2 DEF Settled, Owed
      <4> QED
        BY <4>1, <4>2
    <3>3. ASSUME NEW q \in Procs, proc[q].msg = m
          PROVE  Settled(m)'
      BY <1>2, <2>1, <3>3 DEF Settled, Owed
    <3> QED
      BY <2>1, <3>1, <3>2, <3>3 DEF Settled, Owed
  <2> QED
    BY <2>1, LossKept DEF FollowInv
<1> QED
  BY <1>2, <1>3, <1>4, <1>5, <1>6 DEF FollowInv

\* A step of one who has nothing in hand, before or after it.
LEMMA BystanderStep ==
  ASSUME ProcInv, DataInv, FollowInv, NEW p \in Procs, ~Holding(p), ~Holding(p)', Alone(p),
         queue' = queue, creating' = creating, restarts' = restarts,
         \A m \in Elems(sent') : m \in Elems(sent) \/ Settled(m)',
         handed' = handed, reported' = reported, row' = row,
         \A u \in Tasks : Elems(pending[u]) \subseteq Elems(pending'[u]),
         \A u \in Tasks :
           /\ mem'[u].label = mem[u].label /\ mem'[u].canceled = mem[u].canceled
           /\ mem'[u].parked = mem[u].parked
           /\ mem[u].activeRun # p => mem'[u].activeRun = mem[u].activeRun,
         Sound(p)', Recovering',
         \A m \in Msgs : m = proc[p].msg => m \notin Elems(sent) \/ Settled(m)'
  PROVE  FollowInv'
<1>0. Runs \subseteq Procs
  BY DEF Procs
<1>1. ASSUME NEW q \in Procs, q # p
      PROVE  proc'[q] = proc[q] /\ Sound(q)' /\ (Holding(q)' <=> Holding(q))
  <2>1. proc'[q] = proc[q] /\ Sound(q)
    BY <1>1 DEF Alone, FollowInv
  <2>2. (Holding(q)' <=> Holding(q)) /\ (Reviving(q)' <=> Reviving(q))
    BY <2>1 DEF Holding, Reviving
  <2>3. Fits(q)'
    BY <2>1, <2>2 DEF Sound, Fits
  <2>4. Charged(q)'
    BY <1>1, <2>1, HoldsTask DEF Sound, Charged, IsActive, Holding
  <2>5. Carries(q)'
    BY <2>1 DEF Sound, Carries
  <2> QED
    BY <2>1, <2>2, <2>3, <2>4, <2>5 DEF Sound, Plain
<1>2. OneHand'
  BY <1>1 DEF FollowInv, OneHand
<1>3. ASSUME NEW u \in Tasks
      PROVE  SoundTask(u)'
  <2>1. \A r \in Runs : proc[r].pc \in StartPcs => proc'[r] = proc[r]
    BY <1>0, <1>1, HandPlaces DEF Holding
  <2> QED
    BY <2>1 DEF FollowInv, SoundTask, Labelled
<1>4. NoSilentLoss'
  <2>1. ASSUME NEW m \in Msgs, m \in Elems(sent), Settled(m)
        PROVE  Settled(m)'
    <3>1. CASE m = proc[p].msg
      BY <2>1, <3>1
    <3>2. CASE m # proc[p].msg
      BY <1>1, <2>1, <3>2 DEF Settled, Owed
    <3> QED
      BY <3>1, <3>2
  <2> QED
    BY <2>1, LossKept DEF FollowInv
<1> QED
  BY <1>1, <1>2, <1>3, <1>4 DEF FollowInv

\* A label is gone once the turn it announces is on its way.
LEMMA NoLabel ==
  ASSUME ProcInv, FollowInv, NEW p \in Procs, Holding(p), proc[p].pc \notin StartPcs
  PROVE  mem[proc[p].task].label = None
<1> DEFINE t == proc[p].task
<1>1. t \in Tasks /\ Labelled(t) /\ Runs \subseteq Procs
  BY HoldsTask DEF FollowInv, SoundTask, Procs
<1>2. t \notin Elems(queue)
  BY DEF FollowInv, OneHand
<1>3. \A r \in Runs : proc[r].task = t /\ proc[r].pc \in StartPcs => r = p
  BY <1>1, HandPlaces DEF FollowInv, OneHand, Holding
<1> QED
  BY <1>1, <1>2, <1>3 DEF Labelled

\* A step of the holder that leaves the queue and the messages where they are.
LEMMA QuietTurn ==
  ASSUME ProcInv, DataInv, FollowInv, Patient, NEW p \in Procs, NEW t, t = proc[p].task,
         Holding(p), Alone(p), Holding(p)' => proc'[p].task = t,
         queue' = queue, creating' = creating, restarts' = restarts, sent' = sent,
         handed \subseteq handed', reported \subseteq reported', pending' = pending,
         \A u \in Tasks : u # t => row'[u] = row[u] /\ mem'[u] = mem[u],
         mem'[t].label = mem[t].label, mem'[t].canceled = FALSE,
         mem'[t].parked = mem[t].parked,
         row'[t].status # "canceled",
         \/ proc[p].pc \notin StartPcs
         \/ p \in Runs /\ proc'[p].pc \in StartPcs /\ row'[t].prompt = row[t].prompt,
         Sound(p)',
         p = Recovery => proc'[p].todo = proc[p].todo /\ proc'[p].pc # "idle",
         \/ proc[p].msg = None \/ proc'[p].msg = proc[p].msg
         \/ proc[p].msg \in handed' \cup reported' \/ proc[p].msg \notin Elems(sent)
  PROVE  FollowInv'
<1>1. t \in Tasks
  BY HoldsTask
<1>2. SoundTask(t)'
  <2>1. CASE proc[p].pc \notin StartPcs
    <3>1. mem[t].label = None
      BY <2>1, NoLabel
    <3> QED
      BY <3>1 DEF SoundTask, Labelled
  <2>2. CASE p \in Runs /\ proc'[p].pc \in StartPcs /\ row'[t].prompt = row[t].prompt
    <3>1. proc'[p].task = t
      BY <2>2, HandPlaces DEF Holding
    <3>2. mem[t].label # None => mem[t].label = row[t].prompt
      BY <1>1 DEF FollowInv, SoundTask, Labelled
    <3> QED
      BY <2>2, <3>1, <3>2 DEF SoundTask, Labelled
  <2> QED
    BY <2>1, <2>2
<1>3. None \notin Msgs
  BY EngineAssumption DEF EngineAssumption
<1>4. ASSUME NEW m \in Msgs, m \in Elems(sent),
             m \in {proc[p].msg, mem[t].label, mem[t].parked} \cup Elems(pending[t])
      PROVE  Settled(m)'
  BY <1>1, <1>3, <1>4 DEF Settled, Owed
<1> QED
  BY <1>1, <1>2, <1>4, TurnStep

\* The steps of a start.
LEMMA StartFollows ==
  ASSUME ProcInv, DataInv, FollowInv, Patient, NEW r \in Runs, Start(r)
  PROVE  FollowInv'
<1>0. PICK t : t = proc[r].task
  OBVIOUS
<1>1. /\ r \in Procs /\ r # Recovery /\ r # Api /\ Sound(r) /\ None \notin Msgs
      /\ mem \in [Tasks -> Mem] /\ row \in [Tasks -> Row]
  BY EngineAssumption DEF EngineAssumption, Procs, FollowInv, DataInv
<1>2. proc[r].pc \in StartPcs \cup {"fail_finish"}
  BY DEF Start, StartCheck, StartGate, StartClaim, Launch, Register, StartFails, FailEvent,
     FailFinish, StartPcs
<1>3. Holding(r) /\ t \in Tasks /\ IsActive(r) /\ mem[t].activeRun = r
  <2>1. Holding(r)
    BY <1>2, HandPlaces DEF Holding, HandPcs, FailPcs
  <2> QED
    BY <1>0, <1>1, <1>2, <2>1, HoldsTask, HandPlaces DEF Sound, Charged, IsActive, HandPcs, FailPcs,
       StartPcs
<1>4. SoundTask(t) /\ mem[t].canceled = FALSE /\ row[t].status # "canceled"
  BY <1>1, <1>3 DEF FollowInv, SoundTask, Mem
<1>5. proc[r].pc \in {"check", "claim"} => row[t].status = "queued"
  BY <1>0, <1>1 DEF Sound, Fits, QueuedPcs
<1>6. CASE StartCheck(r) /\ Moved(r, "gate", row[t].prompt)
  <2>1. /\ UNCHANGED <<row, pending, creating, queue, mem, sent, handed, reported, restarts>>
        /\ proc[r].pc = "check"
    BY <1>0, <1>3, <1>5, <1>6 DEF StartCheck, store, ledger, bounds
  <2>2. proc[r].msg = None
    BY <1>1, <2>1 DEF Sound, Carries, EmptyPcs
  <2>3. Sound(r)'
    BY <1>0, <1>1, <1>3, <1>5, <1>6, <2>1
       DEF Moved, SameJob, Sound, Fits, Charged, Carries, Plain, Reviving, IsActive, QueuedPcs,
           RunningPcs, FailPcs, PromptPcs, EmptyPcs, CancelPcs
  <2> QED
    BY <1>0, <1>1, <1>3, <1>4, <1>6, <2>1, <2>2, <2>3, QuietTurn DEF Moved, SameJob, StartPcs
<1>7. CASE StartGate(r) /\ Moved(r, "claim", proc[r].msg)
  <2>1. /\ UNCHANGED <<row, pending, creating, queue, mem, sent, handed, reported, restarts>>
        /\ proc[r].pc = "gate"
    BY <1>7 DEF StartGate, store, ledger, bounds
  <2>2. Sound(r)'
    BY <1>0, <1>1, <1>3, <1>7, <2>1
       DEF Moved, SameJob, Sound, Fits, Charged, Carries, Plain, Reviving, IsActive, QueuedPcs,
           RunningPcs, FailPcs, PromptPcs, EmptyPcs, CancelPcs
  <2> QED
    BY <1>0, <1>1, <1>3, <1>4, <1>7, <2>1, <2>2, QuietTurn DEF Moved, SameJob, StartPcs
<1>8. CASE StartClaim(r) /\ Moved(r, "launch", row[t].prompt)
  <2>1. /\ UNCHANGED <<pending, creating, queue, mem, sent, handed, reported, restarts>>
        /\ proc[r].pc = "claim" /\ row' = [row EXCEPT ![t].status = "running"]
    BY <1>0, <1>5, <1>8 DEF StartClaim, ledger, bounds
  <2>2. /\ \A u \in Tasks : u # t => row'[u] = row[u]
        /\ row'[t].status = "running" /\ row'[t].prompt = row[t].prompt
    BY <1>1, <1>3, <2>1 DEF Row
  <2>3. proc[r].msg = row[t].prompt
    BY <1>0, <1>1, <2>1 DEF Sound, Carries, PromptPcs
  <2>4. Sound(r)'
    BY <1>0, <1>1, <1>3, <1>8, <2>1, <2>2
       DEF Moved, SameJob, Sound, Fits, Charged, Carries, Plain, Reviving, IsActive, QueuedPcs,
           RunningPcs, FailPcs, PromptPcs, EmptyPcs, CancelPcs
  <2>5. /\ Alone(r) /\ proc'[r].task = t /\ proc'[r].msg = proc[r].msg
        /\ proc'[r].pc \in StartPcs /\ row'[t].status # "canceled"
    BY <1>0, <1>8, <2>2, <2>3 DEF Moved, SameJob, StartPcs
  <2> QED
    BY <1>0, <1>1, <1>3, <1>4, <2>1, <2>2, <2>4, <2>5, QuietTurn
<1>9. CASE Launch(r) /\ Moved(r, "register", proc[r].msg)
  <2>1. /\ UNCHANGED <<row, pending, creating, queue, mem, sent, reported, restarts>>
        /\ proc[r].pc = "launch" /\ handed' = handed \cup Msg(proc[r].msg)
    BY <1>3, <1>9 DEF Launch, store, bounds
  <2>2. proc[r].msg \in handed' \cup {None} /\ handed \subseteq handed'
    BY <2>1 DEF Msg
  <2>3. Sound(r)'
    BY <1>0, <1>1, <1>3, <1>9, <2>1, <2>2
       DEF Moved, SameJob, Sound, Fits, Charged, Carries, Plain, Reviving, IsActive, QueuedPcs,
           RunningPcs, FailPcs, PromptPcs, EmptyPcs, CancelPcs
  <2> QED
    BY <1>0, <1>1, <1>3, <1>4, <1>9, <2>1, <2>2, <2>3, QuietTurn DEF Moved, SameJob, StartPcs
<1>10. CASE StartFails(r) /\ Moved(r, "fail_event", proc[r].msg)
            /\ proc'[r].allowQueued = (proc[r].pc = "gate")
  <2>1. /\ UNCHANGED <<row, pending, creating, queue, mem, sent, handed, reported, restarts>>
        /\ proc[r].pc \in {"gate", "launch"}
    BY <1>10 DEF StartFails, store, ledger, bounds
  <2>2. Sound(r)'
    BY <1>0, <1>1, <1>3, <1>10, <2>1
       DEF Moved, SameJob, Sound, Fits, Charged, Carries, Plain, Reviving, IsActive, QueuedPcs,
           RunningPcs, FailPcs, PromptPcs, EmptyPcs, CancelPcs
  <2> QED
    BY <1>0, <1>1, <1>3, <1>4, <1>10, <2>1, <2>2, QuietTurn DEF Moved, SameJob, StartPcs
<1>11. CASE FailFinish(r) /\ Rests(r)
  <2>1. /\ UNCHANGED <<pending, creating, queue, sent, handed, reported, restarts>>
        /\ proc[r].pc = "fail_finish"
    BY <1>11 DEF FailFinish, bounds
  <2>0. \/ row' = row /\ mem' = mem
        \/ /\ row' = [row EXCEPT ![t].status = "failed"]
           /\ mem' = [mem EXCEPT ![t].activeRun = None]
    BY <1>0, <1>11 DEF FailFinish, FinishRun
  <2>2. /\ \A u \in Tasks : u # t => row'[u] = row[u] /\ mem'[u] = mem[u]
        /\ mem'[t].label = mem[t].label /\ mem'[t].canceled = mem[t].canceled
        /\ mem'[t].parked = mem[t].parked /\ row'[t].status # "canceled"
    BY <1>1, <1>3, <1>4, <2>0 DEF Row, Mem
  <2>3. proc[r].msg \in reported \cup {None} /\ proc[r].pc \notin StartPcs
    BY <1>1, <2>1 DEF Sound, Carries, StartPcs
  <2>4. Sound(r)' /\ ~Holding(r)'
    BY <1>1, <1>11, HandPlaces
       DEF Rests, Idle, Sound, Fits, Charged, Carries, Plain, Reviving, Holding, QueuedPcs,
           RunningPcs, FailPcs, PromptPcs, EmptyPcs, CancelPcs
  <2>5. /\ Alone(r) /\ mem'[t].canceled = FALSE
        /\ proc[r].msg = None \/ proc[r].msg \in handed' \cup reported'
    BY <1>4, <1>11, <2>1, <2>2, <2>3 DEF Rests
  <2> QED
    BY <1>0, <1>1, <1>3, <2>1, <2>2, <2>3, <2>4, <2>5, QuietTurn, ZenonT(60)
<1>12. CASE Register(r) /\ Moved(r, "live", None)
  <2>1. /\ UNCHANGED <<row, pending, creating, queue, sent, handed, reported, restarts>>
        /\ proc[r].pc = "register"
        /\ mem' = [mem EXCEPT ![t].handle = r, ![t].label = None]
    BY <1>0, <1>3, <1>12 DEF Register, store, ledger, bounds
  <2>2. /\ \A u \in Tasks : u # t => mem'[u] = mem[u]
        /\ mem'[t].label = None /\ mem'[t].canceled = mem[t].canceled
        /\ mem'[t].parked = mem[t].parked /\ mem'[t].activeRun = r
    BY <1>1, <1>3, <2>1 DEF Mem
  <2>3. proc[r].msg \in handed \cup {None} /\ proc[r].msg = row[t].prompt
    BY <1>0, <1>1, <2>1 DEF Sound, Carries, PromptPcs
  <2>4. mem[t].label \in {None, proc[r].msg} /\ mem[t].parked = None
    BY <1>3, <1>4, <2>3 DEF SoundTask, Labelled, Patient
  <2>5. Sound(r)'
    BY <1>0, <1>1, <1>3, <1>12, <2>1, <2>2
       DEF Moved, SameJob, Sound, Fits, Charged, Carries, Plain, Reviving, IsActive, QueuedPcs,
           RunningPcs, FailPcs, PromptPcs, EmptyPcs, CancelPcs
  <2>6. SoundTask(t)'
    BY <1>4, <2>1, <2>2 DEF SoundTask, Labelled
  <2>7. ASSUME NEW m \in Msgs,
               m \in {proc[r].msg, mem[t].label, mem[t].parked} \cup Elems(pending[t])
        PROVE  Settled(m)'
    BY <1>1, <1>3, <2>1, <2>3, <2>4, <2>7 DEF Settled, Owed
  <2> QED
    BY <1>0, <1>1, <1>3, <1>12, <2>1, <2>2, <2>5, <2>6, <2>7, TurnStep DEF Moved, SameJob
<1>13. CASE FailEvent(r) /\ Moved(r, "fail_finish", proc[r].msg)
  <2>1. /\ UNCHANGED <<row, pending, creating, queue, sent, handed, restarts>>
        /\ proc[r].pc = "fail_event"
        /\ mem' = [mem EXCEPT ![t].label = None]
        /\ reported' = reported \cup Msg(proc[r].msg)
    BY <1>0, <1>13 DEF FailEvent, store, bounds
  <2>2. /\ \A u \in Tasks : u # t => mem'[u] = mem[u]
        /\ mem'[t].label = None /\ mem'[t].canceled = mem[t].canceled
        /\ mem'[t].parked = mem[t].parked /\ mem'[t].activeRun = r
    BY <1>1, <1>3, <2>1 DEF Mem
  <2>3. proc[r].msg \in reported' \cup {None} /\ reported \subseteq reported'
        /\ proc[r].msg = row[t].prompt
    BY <1>0, <1>1, <2>1 DEF Sound, Carries, PromptPcs, Msg
  <2>4. mem[t].label \in {None, proc[r].msg} /\ mem[t].parked = None
    BY <1>3, <1>4, <2>3 DEF SoundTask, Labelled, Patient
  <2>5. Sound(r)'
    BY <1>0, <1>1, <1>3, <1>13, <2>1, <2>2, <2>3
       DEF Moved, SameJob, Sound, Fits, Charged, Carries, Plain, Reviving, IsActive, QueuedPcs,
           RunningPcs, FailPcs, PromptPcs, EmptyPcs, CancelPcs
  <2>6. SoundTask(t)'
    BY <1>4, <2>1, <2>2 DEF SoundTask, Labelled
  <2>7. ASSUME NEW m \in Msgs,
               m \in {proc[r].msg, mem[t].label, mem[t].parked} \cup Elems(pending[t])
        PROVE  Settled(m)'
    BY <1>1, <1>3, <2>1, <2>3, <2>4, <2>7 DEF Settled, Owed
  <2> QED
    BY <1>0, <1>1, <1>3, <1>13, <2>1, <2>2, <2>3, <2>5, <2>6, <2>7, TurnStep DEF Moved, SameJob
<1> QED
  BY <1>0, <1>3, <1>5, <1>6, <1>7, <1>8, <1>9, <1>10, <1>11, <1>12, <1>13, StartMoves

\* One who is through has nothing in hand, and nothing to answer for.
LEMMA RestsSound ==
  ASSUME NEW p \in Procs, Rests(p)
  PROVE  Sound(p)' /\ ~Holding(p)'
BY HandPlaces DEF Rests, Idle, Sound, Fits, Charged, Carries, Plain, Reviving, Holding,
   QueuedPcs, RunningPcs, FailPcs, HandPcs, PromptPcs, EmptyPcs, CancelPcs

\* The same for one who is back from a delivery.
LEMMA BackSound ==
  ASSUME ProcInv, NEW p \in Procs, Sound(p), Back(p)
  PROVE  Sound(p)' /\ ~Holding(p)'
<1>1. /\ proc'[p].msg = None /\ proc'[p].pc \in {"idle", "recover", "unwind"}
      /\ ~proc'[p].wasCanceled /\ proc'[p].status # "canceled"
  BY BackMoves DEF Sound, Plain
<1>2. ~Holding(p)'
  BY <1>1, HandPlaces DEF Holding, Reviving
<1>3. Fits(p)' /\ Charged(p)' /\ Carries(p)' /\ Plain(p)'
  BY <1>1 DEF Fits, Charged, Carries, Plain, Reviving, QueuedPcs, RunningPcs, FailPcs, HandPcs,
     PromptPcs, EmptyPcs, CancelPcs
<1> QED
  BY <1>2, <1>3 DEF Sound

\* Recovery has no part in the step of an execution.
LEMMA RecoveringKept ==
  ASSUME FollowInv, NEW p \in Runs, Alone(p), row' = row, creating' = creating
  PROVE  Recovering'
<1>1. /\ Api \in Procs /\ Recovery \in Procs /\ p # Api /\ p # Recovery
  BY EngineAssumption DEF EngineAssumption, Procs
<1>2. proc'[Api] = proc[Api] /\ proc'[Recovery] = proc[Recovery]
  BY <1>1 DEF Alone
<1> QED
  BY <1>2 DEF FollowInv, Recovering, Up

\* The end of a run.
LEMMA EndFollows ==
  ASSUME ProcInv, DataInv, FollowInv, Patient, NEW r \in Runs, Exit(r) \/ RunEnd(r)
  PROVE  FollowInv'
<1>0. PICK t : t = proc[r].task
  OBVIOUS
<1>1. /\ r \in Procs /\ r # Recovery /\ r # Api /\ Sound(r) /\ None \notin Msgs
      /\ mem \in [Tasks -> Mem] /\ row \in [Tasks -> Row]
  BY EngineAssumption DEF EngineAssumption, Procs, FollowInv, DataInv
<1>2. proc[r].pc \in {"live", "finalize", "requeue", "reread", "finish", "unwind"}
  BY DEF Exit, RunEnd, FinalizeSucceeds, FinalizeFails, Promote, Requeue, Reread, Finish, Unwind
<1>3. proc[r].msg = None /\ ~proc[r].wasCanceled /\ proc[r].status # "canceled"
      /\ proc[r].pc \notin StartPcs
  BY <1>1, <1>2 DEF Sound, Carries, EmptyPcs, Plain, StartPcs
<1>4. t \in Tasks
  BY <1>0, <1>1, <1>2 DEF ProcInv, Placed
<1>5. SoundTask(t) /\ mem[t].canceled = FALSE /\ row[t].status # "canceled" /\ mem[t].parked = None
  BY <1>4, <1>1 DEF FollowInv, SoundTask, Mem, Patient
<1>6. proc[r].pc # "unwind" => Holding(r) /\ IsActive(r) /\ mem[t].activeRun = r /\ mem[t].label = None
  <2> SUFFICES ASSUME proc[r].pc # "unwind"
               PROVE  Holding(r) /\ IsActive(r) /\ mem[t].activeRun = r /\ mem[t].label = None
    OBVIOUS
  <2>1. proc[r].pc \in HandPcs \ {"enqueue"}
    BY <1>2 DEF HandPcs, QueuedPcs, RunningPcs
  <2>2. Holding(r) /\ IsActive(r)
    BY <1>1, <2>1 DEF Holding, Sound, Charged
  <2> QED
    BY <1>0, <1>1, <1>3, <2>2, NoLabel DEF IsActive
<1>7. /\ proc[r].pc \in {"live", "finalize", "reread", "finish"} => row[t].status = "running"
      /\ proc[r].pc = "requeue" => row[t].status = "queued"
  BY <1>0, <1>1 DEF Sound, Fits, QueuedPcs, RunningPcs
<1>8. CASE Exit(r) /\ Moved(r, "finalize", mem[t].parked) /\ proc'[r].wasCanceled = mem[t].canceled
            /\ proc'[r].status \in {"succeeded", "failed"}
  <2>1. /\ UNCHANGED <<row, pending, creating, queue, sent, handed, reported, restarts>>
        /\ proc[r].pc = "live"
        /\ mem' = [mem EXCEPT ![t].committing = r, ![t].handle = None,
                              ![t].canceled = FALSE, ![t].parked = None]
    BY <1>0, <1>6, <1>8 DEF Exit, store, ledger, bounds
  <2>2. /\ \A u \in Tasks : u # t => mem'[u] = mem[u]
        /\ mem'[t].label = mem[t].label /\ mem'[t].canceled = FALSE
        /\ mem'[t].parked = None /\ mem'[t].activeRun = mem[t].activeRun
    BY <1>1, <1>4, <2>1 DEF Mem
  <2>3. Sound(r)'
    BY <1>0, <1>1, <1>5, <1>6, <1>7, <1>8, <2>1, <2>2
       DEF Moved, SameJob, Sound, Fits, Charged, Carries, Plain, Reviving, IsActive, QueuedPcs,
           RunningPcs, FailPcs, PromptPcs, EmptyPcs, CancelPcs
  <2>4. Alone(r) /\ proc'[r].task = t
    BY <1>0, <1>8 DEF Moved, SameJob
  <2> QED
    BY <1>0, <1>1, <1>3, <1>5, <1>6, <2>1, <2>2, <2>3, <2>4, QuietTurn, ZenonT(60)
<1>9. CASE FinalizeSucceeds(r) /\ Moved(r, "pop", None)
  <2>1. /\ UNCHANGED <<row, pending, creating, queue, mem, sent, handed, reported, restarts>>
        /\ proc[r].pc = "finalize"
    BY <1>9 DEF FinalizeSucceeds, store, ledger, bounds
  <2>2. Sound(r)'
    BY <1>0, <1>1, <1>3, <1>6, <1>7, <1>9, <2>1
       DEF Moved, SameJob, Sound, Fits, Charged, Carries, Plain, Reviving, IsActive, QueuedPcs,
           RunningPcs, FailPcs, PromptPcs, EmptyPcs, CancelPcs
  <2>3. Alone(r) /\ proc'[r].task = t
    BY <1>0, <1>9 DEF Moved, SameJob
  <2> QED
    BY <1>0, <1>1, <1>3, <1>5, <1>6, <2>1, <2>2, <2>3, QuietTurn
<1>10. CASE FinalizeFails(r) /\ Moved(r, "reread", None) /\ proc'[r].status = "failed"
  <2>1. /\ UNCHANGED <<row, pending, creating, queue, mem, sent, handed, restarts>>
        /\ proc[r].pc = "finalize" /\ reported \subseteq reported'
    BY <1>10 DEF FinalizeFails, store, ledger, bounds
  <2>2. Sound(r)'
    BY <1>0, <1>1, <1>3, <1>6, <1>7, <1>10, <2>1
       DEF Moved, SameJob, Sound, Fits, Charged, Carries, Plain, Reviving, IsActive, QueuedPcs,
           RunningPcs, FailPcs, PromptPcs, EmptyPcs, CancelPcs
  <2>3. Alone(r) /\ proc'[r].task = t
    BY <1>0, <1>10 DEF Moved, SameJob
  <2> QED
    BY <1>0, <1>1, <1>3, <1>5, <1>6, <2>1, <2>2, <2>3, QuietTurn
<1>11. CASE Promote(r) /\ Moved(r, "requeue", proc[r].msg)
  <2>1. /\ UNCHANGED <<pending, creating, queue, mem, sent, handed, reported, restarts>>
        /\ proc[r].pc = "reread"
        /\ row' = [row EXCEPT ![t].status = "queued", ![t].ready = TRUE]
    BY <1>0, <1>11 DEF Promote, bounds
  <2>2. /\ \A u \in Tasks : u # t => row'[u] = row[u]
        /\ row'[t].status = "queued"
    BY <1>1, <1>4, <2>1 DEF Row
  <2>3. Sound(r)'
    BY <1>0, <1>1, <1>3, <1>6, <1>11, <2>1, <2>2
       DEF Moved, SameJob, Sound, Fits, Charged, Carries, Plain, Reviving, IsActive, QueuedPcs,
           RunningPcs, FailPcs, PromptPcs, EmptyPcs, CancelPcs
  <2>4. Alone(r) /\ proc'[r].task = t
    BY <1>0, <1>11 DEF Moved, SameJob
  <2> QED
    BY <1>0, <1>1, <1>3, <1>5, <1>6, <2>1, <2>2, <2>3, <2>4, QuietTurn
<1>12. CASE Requeue(r) /\ Moved(r, "unwind", proc[r].msg) /\ proc'[r].status = proc[r].status
  <2>1. /\ UNCHANGED <<row, pending, creating, mem, sent, handed, reported, restarts>>
        /\ proc[r].pc = "requeue" /\ queue' = Enqueued(t)
    BY <1>0, <1>12 DEF Requeue, store, ledger, bounds
  <2>2. t \notin Elems(queue)
    BY <1>0, <1>1, <1>6, <2>1 DEF FollowInv, OneHand
  <2>3. queue' = Append(queue, t)
    BY <2>1, <2>2 DEF Enqueued
  <2>4. proc'[r].pc = "unwind" /\ proc'[r].msg = None /\ Alone(r)
    BY <1>3, <1>12 DEF Moved
  <2>5. ~Holding(r)'
    BY <2>4, HandPlaces DEF Holding, Reviving
  <2>6. Sound(r)'
    BY <1>1, <1>3, <1>12, <2>4
       DEF Moved, Sound, Fits, Charged, Carries, Plain, Reviving, QueuedPcs, RunningPcs, FailPcs,
           HandPcs, PromptPcs, EmptyPcs, CancelPcs
  <2>7. SoundTask(t)'
    BY <1>5, <1>6, <2>1 DEF SoundTask, Labelled
  <2>8. ASSUME NEW m \in Msgs,
               m \in {proc[r].msg, mem[t].label, mem[t].parked} \cup Elems(pending[t])
        PROVE  Settled(m)'
    BY <1>1, <1>3, <1>4, <1>5, <1>6, <2>1, <2>8 DEF Settled, Owed
  <2> QED
    BY <1>0, <1>1, <1>6, <1>7, <2>1, <2>3, <2>4, <2>5, <2>6, <2>7, <2>8, TurnStep
<1>13. CASE Reread(r) /\ Moved(r, "finish", proc[r].msg) /\ proc'[r].status = proc[r].status
  <2>1. /\ UNCHANGED <<row, pending, creating, queue, mem, sent, handed, reported, restarts>>
        /\ proc[r].pc = "reread"
    BY <1>13 DEF Reread, store, ledger, bounds
  <2>2. Sound(r)'
    BY <1>0, <1>1, <1>3, <1>6, <1>7, <1>13, <2>1
       DEF Moved, SameJob, Sound, Fits, Charged, Carries, Plain, Reviving, IsActive, QueuedPcs,
           RunningPcs, FailPcs, PromptPcs, EmptyPcs, CancelPcs
  <2>3. Alone(r) /\ proc'[r].task = t
    BY <1>0, <1>13 DEF Moved, SameJob
  <2> QED
    BY <1>0, <1>1, <1>3, <1>5, <1>6, <2>1, <2>2, <2>3, QuietTurn
<1>14. CASE Finish(r) /\ Moved(r, "unwind", proc[r].msg) /\ proc'[r].status = proc[r].status
  <2>1. /\ UNCHANGED <<pending, creating, queue, sent, handed, reported, restarts>>
        /\ proc[r].pc = "finish"
    BY <1>14 DEF Finish, bounds
  <2>0. \/ row' = row /\ mem' = mem
        \/ /\ row' = [row EXCEPT ![t].status = proc[r].status]
           /\ mem' = [mem EXCEPT ![t].activeRun = None]
    BY <1>0, <1>14 DEF Finish, FinishRun
  <2>2. /\ \A u \in Tasks : u # t => row'[u] = row[u] /\ mem'[u] = mem[u]
        /\ mem'[t].label = mem[t].label /\ mem'[t].canceled = mem[t].canceled
        /\ mem'[t].parked = mem[t].parked /\ row'[t].status # "canceled"
    BY <1>1, <1>3, <1>4, <1>5, <2>0 DEF Row, Mem
  <2>4. proc'[r].pc = "unwind" /\ proc'[r].msg = None /\ Alone(r)
    BY <1>3, <1>14 DEF Moved
  <2>5. ~Holding(r)'
    BY <2>4, HandPlaces DEF Holding, Reviving
  <2>6. Sound(r)'
    BY <1>1, <1>3, <1>14, <2>4
       DEF Moved, Sound, Fits, Charged, Carries, Plain, Reviving, QueuedPcs, RunningPcs, FailPcs,
           HandPcs, PromptPcs, EmptyPcs, CancelPcs
  <2> QED
    BY <1>0, <1>1, <1>3, <1>5, <1>6, <2>1, <2>2, <2>4, <2>5, <2>6, QuietTurn, ZenonT(60)
<1>15. CASE Unwind(r) /\ Rests(r)
  <2>1. /\ UNCHANGED <<row, pending, creating, queue, sent, handed, reported, restarts>>
        /\ proc[r].pc = "unwind" /\ Alone(r)
    BY <1>15 DEF Unwind, Rests, store, ledger, bounds
  <2>2. \A u \in Tasks :
          /\ mem'[u].label = mem[u].label /\ mem'[u].canceled = mem[u].canceled
          /\ mem'[u].parked = mem[u].parked
          /\ mem[u].activeRun # r => mem'[u].activeRun = mem[u].activeRun
    BY <1>0, <1>4, <1>15, ClearedMessages
  <2>3. ~Holding(r) /\ Sound(r)' /\ ~Holding(r)' /\ Recovering'
    BY <1>1, <1>15, <2>1, HandPlaces, RestsSound, RecoveringKept DEF Holding, Reviving
  <2>4. \A m \in Msgs : m # proc[r].msg
    BY <1>1, <1>3
  <2> QED
    BY <1>1, <2>1, <2>2, <2>3, <2>4, BystanderStep
<1>16. \/ Exit(r) /\ ~IsActive(r)
       \/ Exit(r) /\ Moved(r, "finalize", mem[t].parked) /\ proc'[r].wasCanceled = mem[t].canceled
           /\ proc'[r].status \in {"succeeded", "failed"}
       \/ FinalizeSucceeds(r) /\ Moved(r, "pop", None)
       \/ FinalizeFails(r) /\ Moved(r, "reread", None) /\ proc'[r].status = "failed"
       \/ Promote(r) /\ Moved(r, "requeue", proc[r].msg)
       \/ Requeue(r) /\ Moved(r, "unwind", proc[r].msg) /\ proc'[r].status = proc[r].status
       \/ Reread(r) /\ Moved(r, "finish", proc[r].msg) /\ proc'[r].status = proc[r].status
       \/ Finish(r) /\ Moved(r, "unwind", proc[r].msg) /\ proc'[r].status = proc[r].status
       \/ Unwind(r) /\ Rests(r)
  BY <1>0, <1>3, <1>5, EndMoves
<1>17. Exit(r) => IsActive(r)
  BY <1>6 DEF Exit
<1> QED
  BY <1>8, <1>9, <1>10, <1>11, <1>12, <1>13, <1>14, <1>15, <1>16, <1>17
\* The line without its first message.
LEMMA ElemsPopped ==
  ASSUME NEW S, NEW q \in Seq(S), q # <<>>
  PROVE  Elems(q) = {Head(q)} \cup Elems(Tail(q))
<1>1. /\ Len(q) \in Nat \ {0} /\ Head(q) = q[1]
      /\ Len(Tail(q)) = Len(q) - 1 /\ \A i \in 1..Len(Tail(q)) : Tail(q)[i] = q[i + 1]
  BY EmptySeq, HeadTailProperties
<1>2. 1 \in 1..Len(q) /\ \A i \in 1..Len(Tail(q)) : i + 1 \in 1..Len(q)
  BY <1>1
<1>3. \A i \in 1..Len(q) : i = 1 \/ (i - 1 \in 1..Len(Tail(q)) /\ q[i] = Tail(q)[i - 1])
  BY <1>1
<1> DEFINE h == Tail(q)
<1> HIDE DEF h
<1>4. ASSUME NEW x \in Elems(q) PROVE x = Head(q) \/ x \in Elems(h)
  <2>1. PICK i \in 1..Len(q) : x = q[i]
    BY <1>4 DEF Elems
  <2>2. i = 1 \/ (i - 1 \in 1..Len(h) /\ q[i] = h[i - 1])
    BY <1>3 DEF h
  <2> QED
    BY <1>1, <2>1, <2>2 DEF Elems
<1>5. ASSUME NEW x \in Elems(h) PROVE x \in Elems(q)
  <2>1. PICK i \in 1..Len(h) : x = h[i]
    BY <1>5 DEF Elems
  <2>2. h[i] = q[i + 1] /\ i + 1 \in 1..Len(q)
    BY <1>1, <1>2 DEF h
  <2> QED
    BY <2>1, <2>2 DEF Elems
<1>6. Head(q) \in Elems(q)
  BY <1>1, <1>2 DEF Elems
<1> QED
  BY <1>4, <1>5, <1>6 DEF h

\* A delivery.
LEMMA DeliverFollows ==
  ASSUME ProcInv, DataInv, FollowInv, Patient, NEW p \in Procs, Deliver(p)
  PROVE  FollowInv'
<1>0. PICK t : t = proc[p].task
  OBVIOUS
<1>1. /\ Sound(p) /\ None \notin Msgs /\ Recovery \notin Runs
      /\ mem \in [Tasks -> Mem] /\ row \in [Tasks -> Row] /\ pending \in [Tasks -> Seq(Msgs)]
  BY EngineAssumption DEF EngineAssumption, FollowInv, DataInv
<1>2. /\ proc[p].pc \in {"pop", "write", "invalidate", "enqueue"}
      /\ ~proc[p].wasCanceled /\ proc[p].status # "canceled"
  BY <1>1 DEF Deliver, Pop, Write, Invalidate, Enqueue, ReportReplaced, ReportRefused, Sound, Plain
<1>3. /\ Holding(p) /\ proc[p].pc \notin StartPcs /\ proc[p].pc \in HandPcs
      /\ proc[p].pc = "pop" => proc[p].msg = None
  BY <1>1, <1>2 DEF Holding, HandPcs, QueuedPcs, StartPcs, Sound, Carries, EmptyPcs
<1>4. t \in Tasks /\ mem[t].label = None
  BY <1>0, <1>3, HoldsTask, NoLabel
<1>5. SoundTask(t) /\ mem[t].canceled = FALSE /\ row[t].status # "canceled" /\ mem[t].parked = None
  BY <1>4, <1>1 DEF FollowInv, SoundTask, Mem, Patient
<1>6. /\ p \in Runs /\ proc[p].pc # "enqueue" => IsActive(p) /\ mem[t].activeRun = p
      /\ proc[p].pc \in {"pop", "write"} /\ p \in Runs => row[t].status = "running"
      /\ proc[p].pc \in {"pop", "write"} /\ p \notin Runs => row[t].status \in Terminal
      /\ proc[p].pc \in {"invalidate", "enqueue"} =>
           row[t].status = "queued" /\ proc[p].msg = row[t].prompt
  BY <1>0, <1>1, <1>3 DEF Sound, Charged, IsActive, Fits, Carries, QueuedPcs, PromptPcs
<1>7. ASSUME Back(p)
      PROVE  /\ Alone(p) /\ Sound(p)' /\ ~Holding(p)'
             /\ p = Recovery => proc'[p].todo = proc[p].todo /\ proc'[p].pc # "idle"
  BY <1>1, <1>7, BackMoves, BackSound
<1>8. ASSUME NEW l, NEW m, Moved(p, l, m), l \in {"reread", "write", "invalidate", "enqueue"}
      PROVE  /\ Alone(p) /\ proc'[p].task = t
             /\ proc'[p].todo = proc[p].todo /\ proc'[p].pc # "idle"
  BY <1>0, <1>8 DEF Moved, SameJob
<1>9. CASE Pop(p) /\ pending[t] = <<>>
  <2>1. /\ UNCHANGED <<row, pending, creating, queue, mem, sent, handed, reported, restarts>>
        /\ proc[p].pc = "pop"
    BY <1>0, <1>9 DEF Pop, ledger, bounds
  <2>2. CASE Back(p)
    <3>1. /\ Alone(p) /\ Sound(p)' /\ ~Holding(p)'
          /\ p = Recovery => proc'[p].todo = proc[p].todo /\ proc'[p].pc # "idle"
      BY <1>7, <2>2
    <3> QED
      BY <1>0, <1>1, <1>3, <1>5, <2>1, <3>1, QuietTurn
  <2>3. CASE p \in Runs /\ Moved(p, "reread", proc[p].msg) /\ proc'[p].status = proc[p].status
    <3>1. Sound(p)'
      BY <1>0, <1>1, <1>2, <1>3, <1>6, <2>1, <2>3
         DEF Moved, SameJob, Sound, Fits, Charged, Carries, Plain, Reviving, IsActive, QueuedPcs,
             RunningPcs, FailPcs, PromptPcs, EmptyPcs, CancelPcs
    <3>2. /\ Alone(p) /\ proc'[p].task = t
          /\ proc'[p].todo = proc[p].todo /\ proc'[p].pc # "idle"
      BY <1>8, <2>3
    <3> QED
      BY <1>0, <1>1, <1>3, <1>5, <2>1, <3>1, <3>2, QuietTurn
  <2> QED
    BY <1>0, <1>9, <2>1, <2>2, <2>3, DeliverMoves DEF Pop, Write, Invalidate, Enqueue,
       ReportReplaced, ReportRefused
<1>10. CASE Pop(p) /\ pending[t] # <<>> /\ Moved(p, "write", Head(pending[t]))
  <2>1. /\ UNCHANGED <<row, creating, queue, mem, sent, handed, reported, restarts>>
        /\ proc[p].pc = "pop" /\ pending' = [pending EXCEPT ![t] = Tail(@)]
    BY <1>0, <1>10 DEF Pop, ledger, bounds
  <2>2. /\ pending'[t] = Tail(pending[t]) /\ \A u \in Tasks : u # t => pending'[u] = pending[u]
        /\ Elems(pending[t]) = {Head(pending[t])} \cup Elems(Tail(pending[t]))
    BY <1>1, <1>4, <1>10, <2>1, ElemsPopped
  <2>3. proc'[p].msg = Head(pending[t])
    BY <1>10 DEF Moved
  <2>4. Sound(p)'
    BY <1>0, <1>1, <1>2, <1>6, <1>10, <2>1
       DEF Moved, SameJob, Sound, Fits, Charged, Carries, Plain, Reviving, IsActive, QueuedPcs,
           RunningPcs, FailPcs, PromptPcs, EmptyPcs, CancelPcs
  <2>5. SoundTask(t)'
    BY <1>4, <1>5, <2>1 DEF SoundTask, Labelled
  <2>6. ASSUME NEW m \in Msgs,
               m \in {proc[p].msg, mem[t].label, mem[t].parked} \cup Elems(pending[t])
        PROVE  Settled(m)'
    <3>1. m = Head(pending[t]) \/ m \in Elems(pending'[t])
      BY <1>1, <1>3, <1>4, <1>5, <2>1, <2>2, <2>6
    <3> QED
      BY <1>4, <2>3, <3>1 DEF Settled, Owed
  <2>7. /\ Alone(p) /\ proc'[p].task = t
        /\ proc'[p].todo = proc[p].todo /\ proc'[p].pc # "idle"
    BY <1>8, <1>10
  <2> QED
    BY <1>0, <1>3, <2>1, <2>2, <2>4, <2>5, <2>6, <2>7, TurnStep
<1>11. CASE Write(p) /\ WriteAccepted(p) /\ Moved(p, "invalidate", proc[p].msg)
  <2>1. /\ UNCHANGED <<pending, creating, queue, mem, sent, handed, reported, restarts>>
        /\ proc[p].pc = "write"
        /\ row' = [row EXCEPT ![t].status = "queued", ![t].prompt = proc[p].msg]
    BY <1>0, <1>11 DEF Write, bounds
  <2>2. /\ \A u \in Tasks : u # t => row'[u] = row[u]
        /\ row'[t].status = "queued" /\ row'[t].prompt = proc[p].msg
    BY <1>1, <1>4, <2>1 DEF Row
  <2>3. Sound(p)'
    BY <1>0, <1>1, <1>2, <1>6, <1>11, <2>1, <2>2
       DEF Moved, SameJob, Sound, Fits, Charged, Carries, Plain, Reviving, IsActive, QueuedPcs,
           RunningPcs, FailPcs, PromptPcs, EmptyPcs, CancelPcs
  <2>4. /\ Alone(p) /\ proc'[p].task = t /\ proc'[p].msg = proc[p].msg
        /\ proc'[p].todo = proc[p].todo /\ proc'[p].pc # "idle"
    BY <1>8, <1>11 DEF Moved
  <2> QED
    BY <1>0, <1>1, <1>3, <1>5, <2>1, <2>2, <2>3, <2>4, QuietTurn
<1>12. CASE Invalidate(p) /\ Moved(p, "enqueue", proc[p].msg)
  <2>1. /\ UNCHANGED <<row, pending, creating, queue, sent, handed, reported, restarts>>
        /\ proc[p].pc = "invalidate"
        /\ mem' = [mem EXCEPT ![t].activeRun = None]
    BY <1>0, <1>12 DEF Invalidate, store, ledger, bounds
  <2>2. /\ \A u \in Tasks : u # t => mem'[u] = mem[u]
        /\ mem'[t].label = mem[t].label /\ mem'[t].canceled = mem[t].canceled
        /\ mem'[t].parked = mem[t].parked
    BY <1>1, <1>4, <2>1 DEF Mem
  <2>3. Sound(p)'
    BY <1>0, <1>1, <1>2, <1>6, <1>12, <2>1
       DEF Moved, SameJob, Sound, Fits, Charged, Carries, Plain, Reviving, IsActive, QueuedPcs,
           RunningPcs, FailPcs, PromptPcs, EmptyPcs, CancelPcs
  <2>4. /\ Alone(p) /\ proc'[p].task = t /\ proc'[p].msg = proc[p].msg
        /\ proc'[p].todo = proc[p].todo /\ proc'[p].pc # "idle"
    BY <1>8, <1>12 DEF Moved
  <2> QED
    BY <1>0, <1>1, <1>3, <1>5, <2>1, <2>2, <2>3, <2>4, QuietTurn
<1>13. CASE Enqueue(p) /\ Back(p)
  <2>0. t \notin Elems(queue)
    BY <1>0, <1>3 DEF FollowInv, OneHand
  <2>1. /\ UNCHANGED <<row, pending, creating, sent, handed, reported, restarts>>
        /\ proc[p].pc = "enqueue" /\ queue' = Append(queue, t)
        /\ mem' = [mem EXCEPT ![t].label = proc[p].msg]
    BY <1>0, <1>5, <1>13, <2>0 DEF Enqueue, Enqueued, store, ledger, bounds
  <2>2. /\ \A u \in Tasks : u # t => mem'[u] = mem[u]
        /\ mem'[t].label = proc[p].msg /\ mem'[t].canceled = mem[t].canceled
        /\ mem'[t].parked = mem[t].parked
    BY <1>1, <1>4, <2>1 DEF Mem
  <2>3. /\ Alone(p) /\ Sound(p)' /\ ~Holding(p)'
        /\ p = Recovery => proc'[p].todo = proc[p].todo /\ proc'[p].pc # "idle"
    BY <1>7, <1>13
  <2>4. t \in Elems(queue')
    BY <1>4, <2>1, ElemsGrow DEF DataInv
  <2>5. SoundTask(t)'
    BY <1>5, <1>6, <2>1, <2>2, <2>4 DEF SoundTask, Labelled
  <2>6. ASSUME NEW m \in Msgs,
               m \in {proc[p].msg, mem[t].label, mem[t].parked} \cup Elems(pending[t])
        PROVE  Settled(m)'
    BY <1>1, <1>4, <1>5, <2>1, <2>2, <2>6 DEF Settled, Owed
  <2> QED
    BY <1>0, <1>3, <1>6, <2>1, <2>2, <2>3, <2>5, <2>6, TurnStep
<1>14. Write(p) => WriteAccepted(p)
  BY <1>0, <1>5 DEF WriteAccepted
<1>15. Msg(mem[t].label) \ {proc[p].msg} = {} /\ ~ReportReplaced(p) /\ ~ReportRefused(p)
  BY <1>2, <1>4 DEF Msg, ReportReplaced, ReportRefused
<1> QED
  BY <1>0, <1>5, <1>9, <1>10, <1>11, <1>12, <1>13, <1>14, <1>15, DeliverMoves

\* Somebody takes a task in hand that nobody had in it.
LEMMA TakeStep ==
  ASSUME ProcInv, DataInv, FollowInv, NEW p \in Procs, NEW t \in Tasks,
         Alone(p), ~Holding(p), Holding(p)', proc'[p].task = t,
         \A q \in Procs : Holding(q) => proc[q].task # t,
         t \notin creating \cup Elems(queue'), creating' = creating, restarts' = restarts,
         Elems(queue) \subseteq Elems(queue') \cup {t}, Elems(queue') \subseteq Elems(queue),
         \A i, j \in 1..Len(queue') : queue'[i] = queue'[j] => i = j,
         pending' = pending, sent' = sent, handed \subseteq handed', reported \subseteq reported',
         \A u \in Tasks : row'[u] = row[u] /\ (u # t => mem'[u] = mem[u]),
         mem'[t].label = mem[t].label, mem'[t].parked = mem[t].parked,
         Sound(p)', SoundTask(t)', Recovering', proc[p].msg = None
  PROVE  FollowInv'
<1>1. \A q \in Procs : q # p => proc'[q] = proc[q] /\ Sound(q)' /\ (Holding(q)' <=> Holding(q))
  <2>1. OwnStep(p, t)
    BY DEF OwnStep
  <2>2. \A q \in Procs : q # p => Sound(q)' /\ (Holding(q)' <=> Holding(q))
    BY <2>1, OthersSound
  <2> QED
    BY <2>2 DEF Alone
<1>2. OneHand'
  <2>1. \A q, s \in Procs : Holding(q)' /\ Holding(s)' /\ proc'[q].task = proc'[s].task => q = s
    BY <1>1 DEF FollowInv, OneHand
  <2>2. ASSUME NEW u \in Elems(queue') \cup creating'
        PROVE  row'[u].status = "queued" /\ \A q \in Procs : Holding(q)' => proc'[q].task # u
    <3>0. u \in Tasks
      <4>1. Elems(queue) \subseteq Tasks /\ creating \subseteq Tasks
        BY DEF DataInv, Elems
      <4> QED
        BY <4>1
    <3>1. u # t /\ row[u].status = "queued" /\ \A q \in Procs : Holding(q) => proc[q].task # u
      BY DEF FollowInv, OneHand
    <3> QED
      BY <1>1, <3>0, <3>1
  <2>3. creating' \cap Elems(queue') = {}
    BY DEF FollowInv, OneHand
  <2> QED
    BY <2>1, <2>2, <2>3 DEF OneHand
<1>3. ASSUME NEW u \in Tasks
      PROVE  SoundTask(u)'
  <2>1. CASE u = t
    BY <2>1
  <2>2. CASE u # t
    <3>1. mem'[u] = mem[u] /\ SoundTask(u) /\ (u \in Elems(queue) => u \in Elems(queue'))
      BY <2>2 DEF FollowInv
    <3>2. \A r \in Runs : proc[r].pc \in StartPcs => proc'[r] = proc[r]
      BY <1>1, HandPlaces DEF Holding, Procs
    <3> QED
      BY <3>1, <3>2 DEF SoundTask, Labelled
  <2> QED
    BY <2>1, <2>2
<1>4. NoSilentLoss'
  <2>1. ASSUME NEW m \in Msgs, m \in Elems(sent), Settled(m)
        PROVE  Settled(m)'
    <3>1. \A u \in Tasks : mem'[u].label = mem[u].label /\ mem'[u].parked = mem[u].parked
      OBVIOUS
    <3>2. \A q \in Procs : proc[q].msg = m => proc'[q].msg = m
      BY <1>1, EngineAssumption DEF EngineAssumption
    <3> QED
      BY <2>1, <3>1, <3>2 DEF Settled, Owed
  <2>2. \A m \in Elems(sent') : m \in Elems(sent)
    OBVIOUS
  <2> QED
    BY <2>1, <2>2, LossKept DEF FollowInv
<1> QED
  BY <1>1, <1>2, <1>3, <1>4 DEF FollowInv

\* A task that has ended is in nobody's hand, and in no queue.
LEMMA EndedIsFree ==
  ASSUME ProcInv, FollowInv, NEW t \in Tasks, row[t].status \in Terminal,
         proc[Api].pc = "idle", proc[Recovery].pc \in {"idle", "recover"}
  PROVE  /\ \A q \in Procs : Holding(q) => proc[q].task # t
         /\ t \notin Elems(queue) \cup creating
<1>1. ASSUME NEW q \in Procs, Holding(q)
      PROVE  proc[q].task # t
  <2>1. q \in Runs
    BY <1>1, HandPlaces DEF Holding, Reviving, Procs
  <2>2. proc[q].pc \in HandPcs
    BY <1>1, <2>1, HandPlaces
       DEF Holding, Reviving, ProcInv, Placed, RunPcs, SlotPcs, FinishPcs, DeliverPcs
  <2>3. row[proc[q].task].status \in {"queued", "running"}
    BY <2>1, <2>2 DEF FollowInv, Sound, Fits, HandPcs
  <2> QED
    BY <2>3 DEF Terminal
<1>2. t \notin Elems(queue) \cup creating
  BY DEF FollowInv, OneHand, Terminal
<1> QED
  BY <1>1, <1>2
\* What the invariant is about did not change.
LEMMA FollowStill ==
  ASSUME ProcInv, DataInv, FollowInv,
         UNCHANGED <<row, pending, creating, queue, mem, proc, sent, handed, reported, restarts>>
  PROVE  FollowInv'
<1>1. ASSUME NEW p \in Procs
      PROVE  Sound(p)' /\ (Holding(p)' <=> Holding(p))
  <2>1. Sound(p)
    BY DEF FollowInv
  <2> QED
    BY <2>1 DEF Sound, Fits, Charged, Carries, Plain, Reviving, Holding, IsActive
<1>2. OneHand'
  BY <1>1 DEF FollowInv, OneHand
<1>3. Recovering'
  BY DEF FollowInv, Recovering, Up
<1>4. NoSilentLoss'
  BY DEF FollowInv, NoSilentLoss, Owed
<1>5. ASSUME NEW t \in Tasks
      PROVE  SoundTask(t)'
  BY DEF FollowInv, SoundTask, Labelled
<1> QED
  BY <1>1, <1>2, <1>3, <1>4, <1>5 DEF FollowInv

\* pump() takes the head of the queue in hand.
LEMMA PumpFollows ==
  ASSUME ProcInv, DataInv, FollowInv, NEW r \in Runs, PumpPop(r)
  PROVE  FollowInv'
<1>0. PICK t : t = Head(queue)
  OBVIOUS
<1>1. /\ r \in Procs /\ Sound(r) /\ mem \in [Tasks -> Mem] /\ queue \in Seq(Tasks)
  BY DEF Procs, FollowInv, DataInv
<1>2. /\ UNCHANGED <<row, pending, creating, sent, handed, reported, restarts>>
      /\ queue # <<>> /\ queue' = Tail(queue)
      /\ mem' = [mem EXCEPT ![t].canceled = FALSE, ![t].activeRun = r]
  BY <1>0 DEF PumpPop, store, ledger, bounds
<1>3. /\ Alone(r) /\ proc[r].pc = "idle" /\ proc'[r].pc = "check" /\ proc'[r].task = t
      /\ proc'[r].msg = None /\ ~proc'[r].wasCanceled /\ proc'[r].status = "absent"
  BY <1>0, PumpMoves
<1>4. t \in Tasks /\ Elems(queue) = {t} \cup Elems(queue')
  BY <1>0, <1>1, <1>2, HeadTailProperties, ElemsPopped
<1>5. /\ row[t].status = "queued" /\ t \notin creating
      /\ \A q \in Procs : Holding(q) => proc[q].task # t
      /\ \A i, j \in 1..Len(queue) : queue[i] = queue[j] => i = j
  BY <1>4 DEF FollowInv, OneHand
<1>6. /\ t \notin Elems(queue')
      /\ \A i, j \in 1..Len(queue') : queue'[i] = queue'[j] => i = j
  <2>1. /\ Len(queue) \in Nat \ {0} /\ queue[1] = t /\ Len(queue') = Len(queue) - 1
        /\ \A i \in 1..Len(queue') : queue'[i] = queue[i + 1]
    BY <1>0, <1>1, <1>2, EmptySeq, HeadTailProperties
  <2>2. 1 \in 1..Len(queue) /\ \A i \in 1..Len(queue') : i + 1 \in 1..Len(queue) /\ i + 1 # 1
    BY <2>1
  <2>3. \A i \in 1..Len(queue') : queue'[i] # t
    BY <1>5, <2>1, <2>2
  <2>4. ASSUME NEW i \in 1..Len(queue'), NEW j \in 1..Len(queue'), queue'[i] = queue'[j]
        PROVE  i = j
    <3>1. i + 1 = j + 1
      BY <1>5, <2>1, <2>2, <2>4
    <3> QED
      BY <3>1
  <2> QED
    BY <2>3, <2>4 DEF Elems
<1>7. /\ \A u \in Tasks : u # t => mem'[u] = mem[u]
      /\ mem'[t].canceled = FALSE /\ mem'[t].activeRun = r
      /\ mem'[t].label = mem[t].label /\ mem'[t].parked = mem[t].parked
  BY <1>1, <1>2, <1>4 DEF Mem
<1>8. ~Holding(r) /\ Holding(r)'
  BY <1>3, HandPlaces DEF Holding, Reviving, HandPcs, QueuedPcs
<1>9. Sound(r)'
  BY <1>2, <1>3, <1>5, <1>7
     DEF Sound, Fits, Charged, Carries, Plain, Reviving, IsActive, QueuedPcs, RunningPcs, FailPcs,
         PromptPcs, EmptyPcs, CancelPcs
<1>10. SoundTask(t)'
  <2>1. SoundTask(t)
    BY <1>4 DEF FollowInv
  <2> QED
    BY <1>2, <1>3, <1>7, <2>1 DEF SoundTask, Labelled, StartPcs
<1>11. Recovering'
  BY <1>2, <1>3, RecoveringKept
<1>12. proc[r].msg = None
  BY <1>1, <1>3 DEF Sound, Carries, EmptyPcs
<1> QED
  BY <1>1, <1>2, <1>3, <1>4, <1>5, <1>6, <1>7, <1>8, <1>9, <1>10, <1>11, <1>12, TakeStep

\* Recovery takes the next task it has to deliver to in hand, or is done.
LEMMA RecoverFollows ==
  ASSUME ProcInv, DataInv, FollowInv, Recover
  PROVE  FollowInv'
<1>1. /\ Recovery \in Procs /\ Recovery # Api /\ Api \in Procs /\ Recovery \notin Runs
      /\ None \notin Msgs /\ Sound(Recovery)
      /\ \A t \in Tasks : SoundTask(t)
  BY EngineAssumption DEF EngineAssumption, Procs, FollowInv
<1>2. /\ UNCHANGED <<row, pending, creating, queue, mem, sent, handed, reported, restarts>>
      /\ proc[Recovery].pc = "recover"
  BY DEF Recover, RecoverNext, RecoverDone, store, ledger, bounds
<1>3. /\ proc[Recovery].msg = None /\ ~proc[Recovery].wasCanceled
      /\ proc[Recovery].status # "canceled" /\ ~Holding(Recovery)
  BY <1>1, <1>2, HandPlaces DEF Sound, Carries, Plain, EmptyPcs, Holding, Reviving
<1>4. /\ Alone(Recovery) /\ proc'[Api] = proc[Api] /\ creating = {} /\ proc[Api].pc = "idle"
      /\ \A t \in proc[Recovery].todo : row[t].status \in Terminal
  BY <1>1, <1>2, RecoverMoves DEF Alone, FollowInv, Recovering, Up
<1>5. CASE RecoverDone /\ Rests(Recovery)
  <2>1. Sound(Recovery)' /\ ~Holding(Recovery)'
    BY <1>1, <1>5, RestsSound
  <2>2. proc'[Recovery].todo = {} /\ proc'[Recovery].pc = "idle"
    BY <1>5 DEF Rests, Idle
  <2>3. Recovering'
    BY <1>2, <1>4, <2>2, HandPlaces DEF Recovering, Up
  <2>4. \A m \in Msgs : m # proc[Recovery].msg
    BY <1>1, <1>3
  <2>5. \A u \in Tasks : Elems(pending[u]) \subseteq Elems(pending'[u])
    BY <1>2
  <2> QED
    BY <1>1, <1>2, <1>3, <1>4, <2>1, <2>3, <2>4, <2>5, BystanderStep
<1>6. ASSUME NEW t \in Tasks, RecoverNext(t),
             proc'[Recovery].pc = "pop", proc'[Recovery].task = t,
             proc'[Recovery].msg = proc[Recovery].msg,
             proc'[Recovery].wasCanceled = proc[Recovery].wasCanceled,
             proc'[Recovery].status = proc[Recovery].status,
             proc'[Recovery].todo = proc[Recovery].todo \ {t}
      PROVE  FollowInv'
  <2>1. row[t].status \in Terminal
    BY <1>4, <1>6 DEF RecoverNext
  <2>2. /\ \A q \in Procs : Holding(q) => proc[q].task # t
        /\ t \notin Elems(queue) \cup creating
    BY <1>2, <1>4, <2>1, EndedIsFree
  <2>3. Holding(Recovery)'
    BY <1>6 DEF Holding, HandPcs
  <2>4. Sound(Recovery)'
    BY <1>1, <1>2, <1>3, <1>6, <2>1
       DEF Sound, Fits, Charged, Carries, Plain, Reviving, QueuedPcs, RunningPcs, FailPcs,
           PromptPcs, EmptyPcs, CancelPcs
  <2>5. SoundTask(t)'
    <3>1. SoundTask(t) /\ t \notin Elems(queue)
      BY <1>1, <2>2
    <3>2. \A r \in Runs : proc[r].pc \in StartPcs => proc[r].task # t
      BY <2>2, HandPlaces DEF Holding, Procs
    <3> QED
      BY <1>2, <3>1, <3>2 DEF SoundTask, Labelled
  <2>6. Recovering'
    BY <1>2, <1>4, <1>6 DEF Recovering, Up
  <2>7. \A i, j \in 1..Len(queue') : queue'[i] = queue'[j] => i = j
    BY <1>2 DEF FollowInv, OneHand
  <2>8. /\ \A u \in Tasks : row'[u] = row[u] /\ (u # t => mem'[u] = mem[u])
        /\ mem'[t].label = mem[t].label /\ mem'[t].parked = mem[t].parked
        /\ t \notin creating \cup Elems(queue')
        /\ Elems(queue) \subseteq Elems(queue') \cup {t} /\ Elems(queue') \subseteq Elems(queue)
        /\ handed \subseteq handed' /\ reported \subseteq reported'
    BY <1>2, <2>2
  <2> QED
    BY <1>1, <1>2, <1>3, <1>4, <1>6, <2>2, <2>3, <2>4, <2>5, <2>6, <2>7, <2>8, TakeStep
<1> QED
  BY <1>5, <1>6, RecoverMoves

\* Create inserts the row of a task nobody knows yet.
LEMMA CreateFollows ==
  ASSUME ProcInv, DataInv, FollowInv, NEW t \in Tasks, CreateInsert(t)
  PROVE  FollowInv'
<1>0. /\ Api \in Procs /\ Recovery \in Procs /\ Api # Recovery /\ row \in [Tasks -> Row]
  BY EngineAssumption DEF EngineAssumption, Procs, DataInv
<1>1. /\ UNCHANGED <<pending, queue, mem, proc, sent, handed, reported, restarts>>
      /\ Up /\ row[t].status = "absent" /\ creating' = creating \cup {t}
      /\ row' = [row EXCEPT ![t].status = "queued"]
  BY DEF CreateInsert, ledger, bounds
<1>2. /\ \A u \in Tasks : u # t => row'[u] = row[u]
      /\ row'[t].status = "queued" /\ row'[t].prompt = row[t].prompt
  BY <1>0, <1>1 DEF Row
<1>3. ASSUME NEW q \in Procs, Holding(q)
      PROVE  proc[q].task # t
  <2>1. row[proc[q].task].status \in {"queued", "running"} \cup Terminal
    BY <1>3 DEF FollowInv, Sound, Fits, Holding, HandPcs
  <2> QED
    BY <1>1, <2>1 DEF Terminal
<1>4. t \notin Elems(queue) \cup creating
  BY <1>1 DEF FollowInv, OneHand
<1>5. \A p \in Procs : OwnStep(p, t)
  BY <1>1, <1>2, <1>3 DEF OwnStep, Alone
<1>6. \A q \in Procs : Sound(q)' /\ (Holding(q)' <=> Holding(q))
  <2>1. \A q \in Procs : q # Api => Sound(q)' /\ (Holding(q)' <=> Holding(q))
    BY <1>0, <1>5, OthersSound
  <2>2. \A q \in Procs : q # Recovery => Sound(q)' /\ (Holding(q)' <=> Holding(q))
    BY <1>0, <1>5, OthersSound
  <2> QED
    BY <1>0, <2>1, <2>2
<1>7. OneHand'
  <2>1. \A p, q \in Procs : Holding(p)' /\ Holding(q)' /\ proc'[p].task = proc'[q].task => p = q
    BY <1>1, <1>6 DEF FollowInv, OneHand
  <2>2. ASSUME NEW u \in Elems(queue') \cup creating'
        PROVE  row'[u].status = "queued" /\ \A p \in Procs : Holding(p)' => proc'[p].task # u
    <3>1. CASE u = t
      BY <1>1, <1>2, <1>3, <1>6, <3>1
    <3>2. CASE u # t
      <4>1. u \in Elems(queue) \cup creating /\ Elems(queue) \subseteq Tasks /\ creating \subseteq Tasks
        BY <1>1, <3>2 DEF DataInv, Elems
      <4> QED
        BY <1>1, <1>2, <1>6, <3>2, <4>1 DEF FollowInv, OneHand
    <3> QED
      BY <3>1, <3>2
  <2>3. creating' \cap Elems(queue') = {}
        /\ \A i, j \in 1..Len(queue') : queue'[i] = queue'[j] => i = j
    BY <1>1, <1>4 DEF FollowInv, OneHand
  <2> QED
    BY <2>1, <2>2, <2>3 DEF OneHand
<1>8. Recovering'
  <2>1. proc[Recovery].todo = {}
    BY <1>1 DEF FollowInv, Recovering
  <2> QED
    BY <1>1, <2>1 DEF Recovering, Up
<1>9. ASSUME NEW u \in Tasks
      PROVE  SoundTask(u)'
  <2>1. SoundTask(u) /\ row'[u].prompt = row[u].prompt /\ row'[u].status # "canceled"
    BY <1>2 DEF FollowInv, SoundTask
  <2> QED
    BY <1>1, <2>1 DEF SoundTask, Labelled
<1>10. NoSilentLoss'
  BY <1>1 DEF FollowInv, NoSilentLoss, Owed
<1> QED
  BY <1>6, <1>7, <1>8, <1>9, <1>10 DEF FollowInv

\* And puts it into the queue.
LEMMA EnqueueFollows ==
  ASSUME ProcInv, DataInv, FollowInv, NEW t \in Tasks, CreateEnqueue(t)
  PROVE  FollowInv'
<1>1. /\ UNCHANGED <<row, pending, mem, proc, sent, handed, reported, restarts>>
      /\ t \in creating /\ creating' = creating \ {t} /\ queue' = Enqueued(t)
  BY DEF CreateEnqueue, ledger, bounds
<1>2. /\ t \notin Elems(queue)
      /\ \A i, j \in 1..Len(queue) : queue[i] = queue[j] => i = j
  BY <1>1 DEF FollowInv, OneHand
<1>3. /\ Elems(queue') = Elems(queue) \cup {t}
      /\ \A i, j \in 1..Len(queue') : queue'[i] = queue'[j] => i = j
  BY <1>1, <1>2, QueueGrows DEF Enqueued
<1>4. ASSUME NEW p \in Procs
      PROVE  Sound(p)' /\ (Holding(p)' <=> Holding(p))
  <2>1. Sound(p)
    BY DEF FollowInv
  <2> QED
    BY <1>1, <2>1 DEF Sound, Fits, Charged, Carries, Plain, Reviving, Holding, IsActive
<1>5. OneHand'
  BY <1>1, <1>2, <1>3, <1>4 DEF FollowInv, OneHand
<1>6. Recovering'
  BY <1>1 DEF FollowInv, Recovering, Up
<1>7. NoSilentLoss'
  BY <1>1 DEF FollowInv, NoSilentLoss, Owed
<1>8. ASSUME NEW u \in Tasks
      PROVE  SoundTask(u)'
  BY <1>1, <1>3 DEF FollowInv, SoundTask, Labelled
<1> QED
  BY <1>4, <1>5, <1>6, <1>7, <1>8 DEF FollowInv
\* A follow-up to a task that has ended takes it in hand as soon as it has read
\* the row; one to a task at work never does.
LEMMA AskFollows ==
  ASSUME ProcInv, DataInv, FollowInv, Patient, NEW t \in Tasks, NEW n \in Msgs,
         FollowUpBegin(t, n, "followup"), Alone(Api),
         proc'[Api].pc = "f_check", proc'[Api].task = t, proc'[Api].msg = n,
         proc'[Api].revive <=> row[t].status \in Terminal,
         ~proc'[Api].wasCanceled, proc'[Api].status = "absent"
  PROVE  FollowInv'
<1>1. /\ Api \in Procs /\ Recovery \in Procs /\ Api # Recovery /\ Api \notin Runs
      /\ None \notin Msgs /\ Sound(Api) /\ \A u \in Tasks : SoundTask(u)
  BY EngineAssumption DEF EngineAssumption, Procs, FollowInv
<1>2. /\ UNCHANGED <<row, pending, creating, queue, mem, sent, handed, reported, restarts>>
      /\ proc[Api].pc = "idle" /\ Up
  BY DEF FollowUpBegin, ApiFree, store, ledger, bounds
<1>3. proc[Api].msg = None /\ ~Holding(Api)
  BY <1>1, <1>2, HandPlaces DEF Sound, Carries, EmptyPcs, Holding, Reviving
<1>4. Sound(Api)'
  BY <1>1, <1>2 DEF Sound, Fits, Charged, Carries, Plain, Reviving, QueuedPcs, RunningPcs,
     FailPcs, PromptPcs, EmptyPcs, CancelPcs
<1>5. Recovering'
  <2>1. proc'[Recovery] = proc[Recovery]
    BY <1>1 DEF Alone
  <2> QED
    BY <1>2, <2>1 DEF FollowInv, Recovering, Up
<1>6. CASE row[t].status \notin Terminal
  <2>1. ~Holding(Api)'
    BY <1>6, HandPlaces DEF Holding, Reviving
  <2>2. \A m \in Msgs : m # proc[Api].msg
    BY <1>1, <1>3
  <2>3. \A u \in Tasks : Elems(pending[u]) \subseteq Elems(pending'[u])
    BY <1>2
  <2> QED
    BY <1>1, <1>2, <1>3, <1>4, <1>5, <2>1, <2>2, <2>3, BystanderStep
<1>7. CASE row[t].status \in Terminal
  <2>1. Holding(Api)'
    BY <1>7 DEF Holding, Reviving
  <2>2. /\ \A q \in Procs : Holding(q) => proc[q].task # t
        /\ t \notin Elems(queue) \cup creating
    BY <1>2, <1>7, EndedIsFree DEF Up
  <2>3. SoundTask(t)'
    <3>1. SoundTask(t) /\ t \notin Elems(queue)
      BY <1>1, <2>2
    <3>2. \A r \in Runs : proc[r].pc \in StartPcs => proc[r].task # t
      BY <2>2, HandPlaces DEF Holding, Procs
    <3> QED
      BY <1>2, <3>1, <3>2 DEF SoundTask, Labelled
  <2>4. \A i, j \in 1..Len(queue') : queue'[i] = queue'[j] => i = j
    BY <1>2 DEF FollowInv, OneHand
  <2>5. /\ \A u \in Tasks : row'[u] = row[u] /\ (u # t => mem'[u] = mem[u])
        /\ mem'[t].label = mem[t].label /\ mem'[t].parked = mem[t].parked
        /\ t \notin creating \cup Elems(queue')
        /\ Elems(queue) \subseteq Elems(queue') \cup {t} /\ Elems(queue') \subseteq Elems(queue)
        /\ handed \subseteq handed' /\ reported \subseteq reported'
    BY <1>2, <2>2
  <2> QED
    BY <1>1, <1>2, <1>3, <1>4, <1>5, <2>1, <2>2, <2>3, <2>4, <2>5, TakeStep
<1> QED
  BY <1>6, <1>7

\* The check under the lock.
LEMMA CheckFollows ==
  ASSUME ProcInv, DataInv, FollowInv, Patient, Fresh, FollowUpCheck,
         Rests(Api) \/ Moved(Api, "f_queue", proc[Api].msg)
  PROVE  FollowInv'
<1>0. PICK t : t = proc[Api].task
  OBVIOUS
<1>1. /\ Api \in Procs /\ Recovery \in Procs /\ Api # Recovery /\ Api \notin Runs
      /\ None \notin Msgs /\ Sound(Api)
  BY EngineAssumption DEF EngineAssumption, Procs, FollowInv
<1>2. /\ UNCHANGED <<row, pending, creating, queue, mem, sent, handed, reported, restarts>>
      /\ proc[Api].pc = "f_check"
  BY DEF FollowUpCheck, store, ledger, bounds
<1>3. proc[Api].msg \notin Elems(sent) /\ t \in Tasks /\ Up /\ proc[Api].pc \notin StartPcs
  BY <1>0, <1>1, <1>2 DEF Fresh, ProcInv, Placed, FollowInv, Recovering, StartPcs
<1>4. Alone(Api) /\ proc'[Recovery] = proc[Recovery]
  BY <1>1 DEF Rests, Moved, Alone
<1>5. /\ Sound(Api)'
      /\ Holding(Api)' => Holding(Api) /\ proc'[Api].task = t
  <2>1. CASE Rests(Api)
    BY <1>1, <2>1, RestsSound
  <2>2. CASE Moved(Api, "f_queue", proc[Api].msg)
    <3>1. /\ proc'[Api].pc = "f_queue" /\ proc'[Api].task = t
          /\ proc'[Api].revive = proc[Api].revive
          /\ proc'[Api].wasCanceled = proc[Api].wasCanceled /\ proc'[Api].status = proc[Api].status
      BY <1>0, <2>2 DEF Moved, SameJob
    <3> QED
      BY <1>0, <1>1, <1>2, <3>1, HandPlaces
         DEF Sound, Fits, Charged, Carries, Plain, Reviving, Holding, QueuedPcs, RunningPcs,
             FailPcs, PromptPcs, EmptyPcs, CancelPcs
  <2> QED
    BY <2>1, <2>2
<1>6. CASE Holding(Api)
  <2>1. /\ mem[t].canceled = FALSE /\ row[t].status # "canceled"
    BY <1>3 DEF FollowInv, SoundTask, DataInv, Mem
  <2> QED
    BY <1>0, <1>1, <1>2, <1>3, <1>4, <1>5, <1>6, <2>1, QuietTurn
<1>7. CASE ~Holding(Api)
  <2>1. Recovering'
    BY <1>2, <1>3, <1>4 DEF FollowInv, Recovering, Up
  <2>2. \A u \in Tasks : Elems(pending[u]) \subseteq Elems(pending'[u])
    BY <1>2
  <2> QED
    BY <1>1, <1>2, <1>3, <1>4, <1>5, <1>7, <2>1, <2>2, BystanderStep
<1> QED
  BY <1>6, <1>7

\* The message is accepted, and waits.
LEMMA AcceptFollows ==
  ASSUME ProcInv, DataInv, FollowInv, Patient, Fresh, FollowUpQueue,
         \/ proc[Api].revive /\ Moved(Api, "pop", None)
         \/ ~proc[Api].revive /\ Rests(Api)
  PROVE  FollowInv'
<1>0. PICK t, n : t = proc[Api].task /\ n = proc[Api].msg
  OBVIOUS
<1>1. /\ Api \in Procs /\ Recovery \in Procs /\ Api # Recovery /\ Api \notin Runs
      /\ None \notin Msgs /\ Sound(Api) /\ sent \in Seq(Msgs) /\ pending \in [Tasks -> Seq(Msgs)]
  BY EngineAssumption DEF EngineAssumption, Procs, FollowInv, DataInv
<1>2. /\ UNCHANGED <<row, creating, queue, mem, handed, reported, restarts>>
      /\ proc[Api].pc = "f_queue" /\ sent' = Append(sent, n)
      /\ pending' = [pending EXCEPT ![t] = Append(@, n)]
  BY <1>0 DEF FollowUpQueue, ApiTask, bounds
<1>3. /\ n \in Msgs \ Elems(sent) /\ t \in Tasks /\ Up /\ proc[Api].pc \notin StartPcs
  BY <1>0, <1>1, <1>2 DEF Fresh, ProcInv, Placed, FollowInv, Recovering, StartPcs
<1>4. Alone(Api) /\ proc'[Recovery] = proc[Recovery]
  BY <1>1 DEF Rests, Moved, Alone
<1>5. /\ Elems(sent') = Elems(sent) \cup {n}
      /\ Elems(pending'[t]) = Elems(pending[t]) \cup {n}
      /\ \A u \in Tasks : u # t => pending'[u] = pending[u]
  <2>1. pending'[t] = Append(pending[t], n) /\ pending[t] \in Seq(Msgs)
    BY <1>1, <1>2, <1>3
  <2> QED
    BY <1>1, <1>2, <1>3, <2>1, ElemsGrow
<1>6. \A m \in Elems(sent') : m \in Elems(sent) \/ Settled(m)'
  BY <1>3, <1>5 DEF Settled, Owed
<1>7. CASE proc[Api].revive /\ Moved(Api, "pop", None)
  <2>1. Holding(Api) /\ Reviving(Api)
    BY <1>2, <1>7 DEF Holding, Reviving
  <2>2. proc'[Api].task = t /\ proc'[Api].pc = "pop" /\ proc'[Api].msg = None
        /\ proc'[Api].wasCanceled = proc[Api].wasCanceled /\ proc'[Api].status = proc[Api].status
    BY <1>0, <1>7 DEF Moved, SameJob
  <2>3. Sound(Api)'
    BY <1>0, <1>1, <1>2, <2>1, <2>2
       DEF Sound, Fits, Charged, Carries, Plain, Reviving, QueuedPcs, RunningPcs,
           FailPcs, PromptPcs, EmptyPcs, CancelPcs
  <2>4. SoundTask(t) /\ mem[t].label = None /\ mem[t].parked = None
    BY <1>0, <1>1, <1>3, <2>1, NoLabel DEF FollowInv, Patient
  <2>5. SoundTask(t)'
    BY <1>2, <2>4 DEF SoundTask, Labelled
  <2>6. ASSUME NEW m \in Msgs, m \in Elems(sent),
               m \in {proc[Api].msg, mem[t].label, mem[t].parked} \cup Elems(pending[t])
        PROVE  Settled(m)'
    BY <1>0, <1>1, <1>3, <1>5, <2>4, <2>6 DEF Settled, Owed
  <2> QED
    BY <1>0, <1>1, <1>2, <1>4, <1>5, <1>6, <2>1, <2>2, <2>3, <2>5, <2>6, TurnStep
<1>8. CASE ~proc[Api].revive /\ Rests(Api)
  <2>1. ~Holding(Api) /\ Sound(Api)' /\ ~Holding(Api)'
    BY <1>1, <1>2, <1>8, RestsSound, HandPlaces DEF Holding, Reviving
  <2>2. Recovering'
    BY <1>2, <1>3, <1>4 DEF FollowInv, Recovering, Up
  <2>3. \A u \in Tasks : Elems(pending[u]) \subseteq Elems(pending'[u])
    BY <1>5
  <2> QED
    BY <1>0, <1>1, <1>2, <1>3, <1>4, <1>6, <2>1, <2>2, <2>3, BystanderStep
<1> QED
  BY <1>7, <1>8

\* The goroutine of the requests.
LEMMA RequestFollows ==
  ASSUME ProcInv, DataInv, FollowInv, Patient, Fresh, FollowUsers,
         Cancel \/ FollowUp \/ \E t \in Tasks : Request(t)
  PROVE  FollowInv'
<1>1. PatientUsers
  BY DEF FollowUsers, PatientUsers
<1>2. ~Cancel /\ \A t \in Tasks : ~CancelBegin(t)
  <2>1. proc[Api].pc \notin CancelPcs
    BY DEF FollowInv, Sound, Plain, Procs
  <2> QED
    BY <2>1 DEF Cancel, CancelMark, CancelDiscard, CancelDequeue, CancelKill, CancelFinish,
       CancelPcs, CancelBegin, FollowUsers
<1> QED
  BY <1>1, <1>2, RequestMoves, CreateFollows, AskFollows, CheckFollows, AcceptFollows

\* The daemon dies.
LEMMA RestartFollows ==
  ASSUME ProcInv, DataInv, FollowInv, WorkPresent, Restart
  PROVE  FollowInv'
<1>1. /\ Api \in Procs /\ Recovery \in Procs /\ Api # Recovery /\ row \in [Tasks -> Row]
      /\ restarts \in Nat
  BY EngineAssumption DEF EngineAssumption, Procs, DataInv
<1>2. /\ creating' = {} /\ queue' = <<>> /\ restarts' = restarts + 1
      /\ \A t \in Tasks : mem'[t] = Forgotten
      /\ \A t \in Tasks :
           row'[t] = IF t \in Orphans THEN [row[t] EXCEPT !.status = "failed"] ELSE row[t]
  BY DEF Restart
<1>3. /\ \A p \in Procs : p # Recovery => proc'[p] = Idle
      /\ proc'[Recovery].pc = "recover" /\ proc'[Recovery].msg = None
      /\ ~proc'[Recovery].revive /\ ~proc'[Recovery].wasCanceled
      /\ proc'[Recovery].status = "absent"
      /\ proc'[Recovery].todo = Orphans \cup {t \in Tasks : pending[t] # <<>>}
  BY RestartMoves
<1>4. Idle.pc = "idle" /\ Idle.msg = None /\ ~Idle.wasCanceled /\ Idle.status = "absent"
      /\ ~Idle.revive
  BY DEF Idle
<1>5. ASSUME NEW p \in Procs
      PROVE  Sound(p)' /\ ~Holding(p)'
  <2>1. /\ proc'[p].pc \in {"idle", "recover"} /\ proc'[p].msg = None
        /\ ~proc'[p].wasCanceled /\ proc'[p].status = "absent" /\ ~proc'[p].revive
    BY <1>3, <1>4
  <2> QED
    BY <2>1, HandPlaces DEF Sound, Fits, Charged, Carries, Plain, Reviving, Holding,
       QueuedPcs, RunningPcs, FailPcs, HandPcs, PromptPcs, EmptyPcs, CancelPcs
<1>6. OneHand'
  BY <1>2, <1>5 DEF OneHand, Elems
<1>7. ASSUME NEW t \in Tasks
      PROVE  /\ t \in Orphans => row'[t].status = "failed"
             /\ t \notin Orphans => row'[t] = row[t]
  BY <1>1, <1>2 DEF Row
<1>8. Recovering'
  <2>1. ASSUME NEW t \in proc'[Recovery].todo
        PROVE  row'[t].status \in Terminal
    <3>1. CASE t \in Orphans
      BY <1>7, <3>1 DEF Orphans, Terminal
    <3>2. CASE t \notin Orphans
      <4>1. t \in Tasks /\ row[t].status \in Status \ {"absent", "queued", "running"}
        BY <1>1, <1>3, <2>1, <3>2 DEF Orphans, WorkPresent, Present, Row
      <4> QED
        BY <1>7, <3>2, <4>1 DEF Status
    <3> QED
      BY <3>1, <3>2
  <2> QED
    BY <1>1, <1>2, <1>3, <1>4, <2>1, HandPlaces DEF Recovering, Up
<1>9. NoSilentLoss'
  BY <1>1, <1>2 DEF NoSilentLoss
<1>10. ASSUME NEW t \in Tasks
       PROVE  SoundTask(t)'
  <2>1. mem'[t].label = None /\ ~mem'[t].canceled
    BY <1>2 DEF Forgotten
  <2>2. row'[t].status # "canceled"
    BY <1>7 DEF FollowInv, SoundTask
  <2> QED
    BY <2>1, <2>2 DEF SoundTask, Labelled
<1> QED
  BY <1>5, <1>6, <1>8, <1>9, <1>10 DEF FollowInv

\* Every step.
LEMMA FollowStep ==
  ASSUME ProcInv, DataInv, FollowInv, Patient, Fresh, WorkPresent, FollowUsers, [Next]_vars
  PROVE  FollowInv'
<1>1. CASE UNCHANGED vars
  BY <1>1, FollowStill DEF vars
<1>2. ASSUME NEW r \in Runs, Start(r) \/ Exit(r) \/ RunEnd(r)
      PROVE  FollowInv'
  BY <1>2, StartFollows, EndFollows
<1>3. CASE Cancel \/ FollowUp \/ \E t \in Tasks : Request(t)
  BY <1>3, RequestFollows
<1>4. CASE Pump
  <2>1. CASE PumpReturn
    BY <2>1, FollowStill DEF PumpReturn, store, ledger, bounds
  <2> QED
    BY <1>4, <2>1, PumpFollows DEF Pump
<1> QED
  BY <1>1, <1>2, <1>3, <1>4, DeliverFollows, EnqueueFollows, RecoverFollows, RestartFollows
     DEF Next

\* Nothing has begun.
LEMMA FollowInit == Init => FollowInv
<1> SUFFICES ASSUME Init PROVE FollowInv
  OBVIOUS
<1>1. /\ \A p \in Procs : proc[p] = Idle
      /\ \A t \in Tasks : mem[t] = Forgotten /\ row[t].status = "absent"
      /\ creating = {} /\ queue = <<>> /\ sent = <<>>
      /\ Api \in Procs /\ Recovery \in Procs
  BY DEF Init, Procs
<1>2. Idle.pc = "idle" /\ Idle.msg = None /\ ~Idle.wasCanceled /\ Idle.status = "absent"
      /\ ~Idle.revive /\ Idle.todo = {}
  BY DEF Idle
<1>3. Elems(queue) = {} /\ Elems(sent) = {} /\ Len(queue) = 0
  BY <1>1 DEF Elems
<1>4. \A p \in Procs : Sound(p) /\ ~Holding(p)
  BY <1>1, <1>2, HandPlaces DEF Sound, Fits, Charged, Carries, Plain, Reviving, Holding,
     QueuedPcs, RunningPcs, FailPcs, HandPcs, PromptPcs, EmptyPcs, CancelPcs
<1>5. OneHand /\ Recovering /\ NoSilentLoss
  BY <1>1, <1>2, <1>3, <1>4, HandPlaces DEF OneHand, Recovering, NoSilentLoss, Up
<1>6. \A t \in Tasks : SoundTask(t)
  BY <1>1 DEF SoundTask, Labelled, Forgotten
<1> QED
  BY <1>4, <1>5, <1>6 DEF FollowInv

\* As long as users only follow up.
LEMMA FollowInvariant ==
  ASSUME FollowUsers
  PROVE  Spec => []FollowInv
<1>1. /\ ProcInv /\ DataInv /\ OrderInv /\ LifeInv /\ FollowInv /\ [Next]_vars
      => FollowInv'
  BY FollowStep DEF OrderInv, LifeInv
<1>2. Spec => []OrderInv
  BY OrderInvariant DEF PatientUsers, FollowUsers
<1> QED
  BY <1>1, <1>2, FollowInit, CoreInvariant, LifeInvariant, PTL DEF Spec

\* Where users send follow-ups, and until the daemon dies, every message the
\* engine accepted was handed to an agent, is named by an error event, or is
\* owed by somebody who still has to deliver it.
THEOREM NoMessageLost ==
  ASSUME Ops \subseteq {"followup"}
  PROVE  Spec => []NoSilentLoss
<1>1. FollowInv => NoSilentLoss
  BY DEF FollowInv
<1>2. Spec => []FollowInv
  BY FollowInvariant DEF FollowUsers
<1> QED
  BY <1>1, <1>2, PTL

\* Where users send follow-ups, two executions of a task are never at work at
\* the same time: it takes a cancel or an interrupt to have a second one start
\* while the first is still on its way out.
THEOREM OneTurnWithoutInterrupts ==
  ASSUME Ops \subseteq {"followup"}
  PROVE  Spec => []OneTurnAtATime
<1>1. FollowInv => OneTurnAtATime
  BY DEF FollowInv, OneHand, OneTurnAtATime, Holding, HandPcs, RunningPcs, Procs
<1>2. Spec => []FollowInv
  BY FollowInvariant DEF FollowUsers
<1> QED
  BY <1>1, <1>2, PTL

=============================================================================

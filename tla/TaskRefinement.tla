--------------------------- MODULE TaskRefinement ---------------------------
(***************************************************************************)
(* TaskEngine implements TaskLifecycle.  The status is the row's, the      *)
(* execution in charge is the one Engine's active-run entry names, a slot  *)
(* is held from the pop of the start queue to the decrement, and the open  *)
(* request is the cancel, or the message to an ended task, that the        *)
(* goroutine under retryMu works on.                                       *)
(***************************************************************************)
EXTENDS TaskEngine

StatusOf == [t \in Tasks |-> row[t].status]
ChargeOf == [t \in Tasks |-> mem[t].activeRun]
Working  == {r \in Runs : HoldsSlot(r)}

CancelPcs == {"c_mark", "c_discard", "c_dequeue", "c_kill", "c_finish"}

OpenRequest ==
  IF proc[Api].pc \in CancelPcs THEN [task |-> proc[Api].task, kind |-> "cancel"]
  ELSE IF proc[Api].revive THEN [task |-> proc[Api].task, kind |-> "message"]
  ELSE [task |-> None, kind |-> "none"]

Lifecycle == INSTANCE TaskLifecycle
               WITH status <- StatusOf, charge <- ChargeOf, working <- Working,
                    request <- OpenRequest

\* The engine's steps, of all goroutines in any order, are steps of the
\* lifecycle or none: store.go's "gate", the active-run entry, decides who may
\* end a task; a cancel retires the execution with the write of the status; a
\* canceled task comes back by the user's message alone.
ImplementsLifecycle == Lifecycle!Spec

=============================================================================

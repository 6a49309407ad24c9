--------------------------- MODULE TaskLifecycle ---------------------------
(***************************************************************************)
(* What the task engine promises about a task, without its queue, locks    *)
(* and goroutines: a status, the execution that is in charge of the task,  *)
(* the executions that take up a slot, and the one request of a user that  *)
(* may be open (Engine.retryMu admits one).                                *)
(*                                                                         *)
(*   - only the execution in charge ends a task on its own account, and it *)
(*     gives up its charge with the same step;                             *)
(*   - a user's cancel ends whatever is there and leaves nobody in charge; *)
(*   - a canceled task is taken back by the user's own message alone;      *)
(*   - a task starts to run while an execution holds one of the slots.     *)
(*                                                                         *)
(* Module TaskRefinement says how TaskEngine's state maps to this one.     *)
(***************************************************************************)
EXTENDS Integers, FiniteSets

CONSTANTS Tasks, Runs, None, MaxConcurrent

VARIABLES
  status,   \* of each task
  charge,   \* the execution in charge of each task, or None
  working,  \* the executions that hold a slot
  request   \* the open request that may take a task out of its course

vars == <<status, charge, working, request>>

Terminal == {"succeeded", "failed", "canceled"}
Live     == {"queued", "running"}
Without  == [task |-> None, kind |-> "none"]

Init ==
  /\ status = [t \in Tasks |-> "absent"]
  /\ charge = [t \in Tasks |-> None]
  /\ working = {} /\ request = Without

Create(t) ==
  /\ status[t] = "absent"
  /\ status' = [status EXCEPT ![t] = "queued"]
  /\ UNCHANGED <<charge, working, request>>

\* An execution takes a slot and is put in charge, in place of any other.
Take(t, r) ==
  /\ r \notin working /\ Cardinality(working) < MaxConcurrent
  /\ working' = working \cup {r}
  /\ charge' = [charge EXCEPT ![t] = r]
  /\ UNCHANGED <<status, request>>

Claim(t, r) ==
  /\ r \in working /\ status[t] = "queued"
  /\ status' = [status EXCEPT ![t] = "running"]
  /\ UNCHANGED <<charge, working, request>>

\* The slot goes back; the charge may go with it.
GiveBack(r) ==
  /\ r \in working /\ working' = working \ {r}
  /\ \/ UNCHANGED charge
     \/ \E t \in Tasks : charge[t] = r /\ charge' = [charge EXCEPT ![t] = None]
  /\ UNCHANGED <<status, request>>

\* A task that never ran can only fail.
End(t, end) ==
  /\ charge[t] # None /\ status[t] \in Live
  /\ status[t] = "queued" => end = "failed"
  /\ status' = [status EXCEPT ![t] = end]
  /\ charge' = [charge EXCEPT ![t] = None]
  /\ working' \in {working, working \ {charge[t]}}
  /\ UNCHANGED request

\* A message is delivered, or the same turn is due again.
Requeue(t) ==
  /\ status[t] # "absent"
  /\ status[t] = "canceled" => request = [task |-> t, kind |-> "message"]
  /\ status' = [status EXCEPT ![t] = "queued"]
  /\ UNCHANGED <<charge, working, request>>

Dismiss(t) ==
  /\ charge[t] # None
  /\ charge' = [charge EXCEPT ![t] = None]
  /\ UNCHANGED <<status, working, request>>

\* A cancel is for a task that has not ended, a message for one that has.
Ask(t, kind) ==
  /\ request = Without
  /\ \/ kind = "cancel" /\ status[t] \in Live
     \/ kind = "message" /\ status[t] \in Terminal
  /\ request' = [task |-> t, kind |-> kind]
  /\ UNCHANGED <<status, charge, working>>

\* The request is over, by the book or because it was refused.
Answer ==
  /\ request # Without /\ request' = Without
  /\ UNCHANGED <<status, charge, working>>

Cancel(t) ==
  /\ request = [task |-> t, kind |-> "cancel"]
  /\ status[t] # "absent"
  /\ status' = [status EXCEPT ![t] = "canceled"]
  /\ charge' = [charge EXCEPT ![t] = None]
  /\ request' = Without
  /\ UNCHANGED working

\* The daemon dies and the next one starts.
Crash ==
  /\ status' = [t \in Tasks |-> IF status[t] \in Live THEN "failed" ELSE status[t]]
  /\ charge' = [t \in Tasks |-> None]
  /\ working' = {} /\ request' = Without

Next ==
  \/ \E t \in Tasks :
       \/ Create(t) \/ Requeue(t) \/ Dismiss(t) \/ Cancel(t)
       \/ \E r \in Runs : Take(t, r) \/ Claim(t, r)
       \/ \E end \in Terminal : End(t, end)
       \/ \E kind \in {"cancel", "message"} : Ask(t, kind)
  \/ \E r \in Runs : GiveBack(r)
  \/ Answer \/ Crash

Spec == Init /\ [][Next]_vars

=============================================================================

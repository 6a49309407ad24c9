----------------------------- MODULE Approvals -----------------------------
(***************************************************************************)
(* Permission requests and user questions of one task                      *)
(* (internal/task/approvals.go, user_questions.go, their tables in         *)
(* internal/store, and the long-polling client of internal/approvalbridge).*)
(*                                                                         *)
(* An agent asks through a handler that pauses the task's row, then        *)
(* long-polls for the answer.  A person, the expiry ticker, the poll's own *)
(* age check or a cancel settles the ask; whoever did wakes the poll and   *)
(* then, statement by statement, decides whether to set the row back to    *)
(* running.  One step is one store statement or one hold of Engine.mu; the *)
(* statements of a request and of a poll, and the append of the decision's *)
(* event, may also fail; the update by which a person, the ticker or a     *)
(* cancel settles an ask does not (the person or the next tick would try   *)
(* again).                                                                 *)
(*                                                                         *)
(* The turn itself (module TaskEngine) is reduced to its effects on the    *)
(* row: an agent starts, exits and is finished, is canceled, or dies with  *)
(* the daemon.  The succeeded and failed statuses are one, "ended".        *)
(***************************************************************************)
EXTENDS Naturals, FiniteSets

CONSTANTS
  Permissions,  \* approvals the agent will ask for
  Questions,    \* user questions it will ask
  None,
  MaxTurns,     \* bound: turns the task runs
  MaxStops      \* bound: cancels a user asks for, deaths of the daemon and statements
                \* that fail, together

Asks == Permissions \cup Questions

ASSUME ApprovalsAssumption ==
  /\ Permissions \cap Questions = {}
  /\ None \notin Asks
  /\ MaxTurns \in Nat \ {0} /\ MaxStops \in Nat

VARIABLES
  status,    \* the task row's status
  inQueue,   \* the task is in the start queue
  agent,     \* "live", "exited" (its run has not finished the row yet), "none"
  ask,       \* the row of each ask: "none", "pending", or its decision
  aged,      \* pending asks older than their time to live
  asking,    \* where the handler that creates the ask stands
  settling,  \* where the goroutine that settled the ask stands
  poll,      \* where the agent's long poll for the ask stands
  channel,   \* the waiter channel of the poll: an answer, or None
  told,      \* what the agent was told
  cancel,    \* the cancel in progress: what it has still to deny, and where it is
  turns, stops

vars == <<status, inQueue, agent, ask, aged, asking, settling, poll, channel,
          told, cancel, turns, stops>>

turn   == <<status, inQueue, agent>>
waits  == <<poll, channel, told>>
bounds == <<turns, stops>>

Waiting == {"waiting_approval", "waiting_input"}
Busy    == {"running"} \cup Waiting
Ended   == {"ended", "canceled"}

Answers(a) == IF a \in Permissions THEN {"approved", "denied", "expired"}
                                   ELSE {"answered", "expired"}
Settled(a) == ask[a] \notin {"none", "pending"}

TypeOK ==
  /\ status \in {"queued"} \cup Busy \cup Ended
  /\ inQueue \in BOOLEAN
  /\ agent \in {"none", "live", "exited"}
  /\ \A a \in Asks :
       /\ ask[a] \in {"none", "pending"} \cup Answers(a)
       /\ told[a] \in {None, "conflict", "failure"} \cup Answers(a)
       /\ channel[a] \in {None} \cup Answers(a)
       /\ asking[a] \in {"idle", "insert", "pause", "done"}
       /\ settling[a] \in {"idle", "notify", "read", "others", "resume", "done"}
       /\ poll[a] \in {"off", "due", "read", "waiting", "late", "expiring", "over"}
  /\ aged \subseteq Asks
  /\ cancel \in [pc: {"idle", "permissions", "questions"},
                 deny: SUBSET Asks, at: Asks \cup {None}]
  /\ turns \in 0..MaxTurns /\ stops \in 0..MaxStops

NoCancel == [pc |-> "idle", deny |-> {}, at |-> None]

Init ==
  /\ status = "running" /\ inQueue = FALSE /\ agent = "live"
  /\ ask = [a \in Asks |-> "none"] /\ aged = {}
  /\ asking = [a \in Asks |-> "idle"]
  /\ settling = [a \in Asks |-> "idle"]
  /\ poll = [a \in Asks |-> "off"]
  /\ channel = [a \in Asks |-> None] /\ told = [a \in Asks |-> None]
  /\ cancel = NoCancel
  /\ turns = 1 /\ stops = 0

-----------------------------------------------------------------------------
(* RequestApproval, RequestUserQuestion *)

\* The row has to be one whose turn is running.
Request(a) ==
  /\ agent = "live" /\ asking[a] = "idle"
  /\ status \in Busy
  /\ asking' = [asking EXCEPT ![a] = "insert"]
  /\ UNCHANGED <<turn, ask, aged, settling, waits, cancel, bounds>>

Insert(a) ==
  /\ asking[a] = "insert"
  /\ ask' = [ask EXCEPT ![a] = "pending"]
  /\ asking' = [asking EXCEPT ![a] = "pause"]
  /\ UNCHANGED <<turn, aged, settling, waits, cancel, bounds>>

\* UpdateTask: no condition on the status it replaces.  The id goes back to the
\* agent, whose client starts to poll.
Pause(a) ==
  /\ asking[a] = "pause"
  /\ status' = IF a \in Permissions THEN "waiting_approval" ELSE "waiting_input"
  /\ asking' = [asking EXCEPT ![a] = "done"]
  /\ poll' = [poll EXCEPT ![a] = IF @ = "off" THEN "due" ELSE @]
  /\ UNCHANGED <<inQueue, agent, ask, aged, settling, channel, told, cancel, bounds>>

\* The request's context ends with the agent that made it.
RequestCut(a) ==
  /\ agent # "live" /\ asking[a] \in {"insert", "pause"}
  /\ asking' = [asking EXCEPT ![a] = "done"]
  /\ UNCHANGED <<turn, ask, aged, settling, waits, cancel, bounds>>

Told(a, answer) ==
  /\ told' = [told EXCEPT ![a] = answer]
  /\ poll' = [poll EXCEPT ![a] = "over"]

\* A statement fails, within the bound.
Fails == stops < MaxStops /\ stops' = stops + 1 /\ UNCHANGED turns

\* The insert or the update fails, and the agent is told so.
RequestFails(a) ==
  /\ agent = "live" /\ asking[a] \in {"insert", "pause"} /\ Fails
  /\ asking' = [asking EXCEPT ![a] = "done"]
  /\ Told(a, "failure")
  /\ UNCHANGED <<turn, ask, aged, settling, channel, cancel>>

-----------------------------------------------------------------------------
(* Decide, AnswerUserQuestion *)

\* The conditional update of the ask's row; the rest follows in the same
\* goroutine.
Settle(a, answer) ==
  /\ ask[a] = "pending"
  /\ ask' = [ask EXCEPT ![a] = answer]
  /\ aged' = aged \ {a}
  /\ settling' = [settling EXCEPT ![a] = "notify"]

\* A person answers.
Answer(a) ==
  /\ \E answer \in Answers(a) \ {"expired"} : Settle(a, answer)
  /\ UNCHANGED <<turn, asking, waits, cancel, bounds>>

Age(a) ==
  /\ ask[a] = "pending" /\ a \notin aged
  /\ aged' = aged \cup {a}
  /\ UNCHANGED <<turn, ask, asking, settling, waits, cancel, bounds>>

\* The expiry ticker: ExpireStale and ExpireStaleUserQuestions.
ExpireStale(a) ==
  /\ a \in aged
  /\ Settle(a, "expired")
  /\ UNCHANGED <<turn, asking, waits, cancel, bounds>>

SettlingGoes(a, l) == settling' = [settling EXCEPT ![a] = l]

\* A waiter that is registered gets the answer; one that is not hears nothing.
Notify(a) ==
  /\ settling[a] = "notify"
  /\ SettlingGoes(a, "read")
  /\ channel' = [channel EXCEPT ![a] = IF poll[a] = "waiting" THEN ask[a] ELSE @]
  /\ UNCHANGED <<turn, ask, aged, asking, poll, told, cancel, bounds>>

\* The event is appended and the row is read; a read that fails is passed over.
ReadTask(a) ==
  /\ settling[a] = "read"
  /\ \/ SettlingGoes(a, IF status \in Waiting THEN "others" ELSE "done")
     \/ SettlingGoes(a, "done")
  /\ UNCHANGED <<turn, ask, aged, asking, waits, cancel, bounds>>

\* The append fails: the function returns the error though the decision is stored.
\* A poll that expired the ask itself passes it on; the other callers do not.
AppendFails(a) ==
  /\ settling[a] = "read" /\ Fails
  /\ SettlingGoes(a, "done")
  /\ IF poll[a] = "expiring" THEN Told(a, "failure") ELSE UNCHANGED <<told, poll>>
  /\ UNCHANGED <<turn, ask, aged, asking, channel, cancel>>

\* ListPendingForTask and ListPendingUserQuestionsForTask.
ReadOthers(a) ==
  /\ settling[a] = "others"
  /\ SettlingGoes(a, IF \E b \in Asks : ask[b] = "pending" THEN "done" ELSE "resume")
  /\ UNCHANGED <<turn, ask, aged, asking, waits, cancel, bounds>>

\* UpdateTask once more: what was read two statements ago is not checked again.
Resume(a) ==
  /\ settling[a] = "resume"
  /\ status' = "running"
  /\ SettlingGoes(a, "done")
  /\ UNCHANGED <<inQueue, agent, ask, aged, asking, waits, cancel, bounds>>

-----------------------------------------------------------------------------
(* WaitApproval, WaitUserQuestion, and the client that calls them again *)

PollGoes(a, l) == poll' = [poll EXCEPT ![a] = l] /\ UNCHANGED told

\* The first look at the row: answered, overdue, or to be waited for.
PollRead(a) ==
  /\ poll[a] = "due"
  /\ IF Settled(a) THEN Told(a, ask[a])
                   ELSE PollGoes(a, IF a \in aged THEN "late" ELSE "read")
  /\ UNCHANGED <<turn, ask, aged, asking, settling, channel, cancel, bounds>>

PollRegister(a) ==
  /\ poll[a] = "read"
  /\ PollGoes(a, "waiting")
  /\ channel' = [channel EXCEPT ![a] = None]
  /\ UNCHANGED <<turn, ask, aged, asking, settling, cancel, bounds>>

\* Whatever ends the wait unregisters the channel.
Unregister(a) == channel' = [channel EXCEPT ![a] = None]

PollHears(a) ==
  /\ poll[a] = "waiting" /\ channel[a] # None
  /\ Told(a, channel[a]) /\ Unregister(a)
  /\ UNCHANGED <<turn, ask, aged, asking, settling, cancel, bounds>>

\* Mutant: the timer returns what the first look saw, so the client is told to
\* come back only when the ask is overdue.
PollTimerWithoutLook(a) ==
  /\ poll[a] = "waiting"
  /\ a \in aged /\ ask[a] = "pending"
  /\ PollGoes(a, "late") /\ Unregister(a)
  /\ UNCHANGED <<turn, ask, aged, asking, settling, cancel, bounds>>

\* The timer: a second look at the row.  Still pending and not overdue, the
\* client calls again.
PollTimer(a) ==
  /\ poll[a] = "waiting" /\ Unregister(a)
  /\ IF Settled(a) THEN Told(a, ask[a])
                   ELSE PollGoes(a, IF a \in aged THEN "late" ELSE "due")
  /\ UNCHANGED <<turn, ask, aged, asking, settling, cancel, bounds>>

\* Mutant: the poll's own verdict is returned whoever settled the ask.
PollExpiresRegardless(a) ==
  /\ poll[a] = "late"
  /\ IF ask[a] = "pending"
       THEN Settle(a, "expired") /\ PollGoes(a, "expiring")
       ELSE Told(a, "expired") /\ UNCHANGED <<ask, aged, settling>>
  /\ UNCHANGED <<turn, asking, channel, cancel, bounds>>

\* maybeExpire.  Beaten to it, expireApproval reads the decision again; the
\* question's counterpart returns the conflict, which the client does not retry.
PollExpires(a) ==
  /\ poll[a] = "late"
  /\ IF ask[a] = "pending"
       THEN Settle(a, "expired") /\ PollGoes(a, "expiring")
       ELSE /\ Told(a, IF a \in Permissions THEN ask[a] ELSE "conflict")
            /\ UNCHANGED <<ask, aged, settling>>
  /\ UNCHANGED <<turn, asking, channel, cancel, bounds>>

\* The poll that expired the ask itself, and whose append did not fail.
PollReturns(a) ==
  /\ poll[a] = "expiring" /\ settling[a] = "done"
  /\ Told(a, ask[a])
  /\ UNCHANGED <<turn, ask, aged, asking, settling, channel, cancel, bounds>>

\* A look at the row, or the conditional update of it, fails.  The API answers 500,
\* which the client does not retry.  (From "due" also the append of the request's
\* event, whose failure the agent is told instead of an id to poll.)
PollFails(a) ==
  /\ poll[a] \in {"due", "waiting", "late"} /\ Fails
  /\ Told(a, "failure") /\ Unregister(a)
  /\ UNCHANGED <<turn, ask, aged, asking, settling, cancel>>

-----------------------------------------------------------------------------
(* The turn *)

Blocked == \E a \in Asks : poll[a] # "over" /\ asking[a] # "idle"

\* Every request and poll of the agent's client is dropped with it.
AgentGone == /\ poll' = [a \in Asks |-> IF asking[a] = "idle" THEN "off" ELSE "over"]
             /\ channel' = [a \in Asks |-> None]

\* An agent that waits for an answer exits only by crashing.
Exit ==
  /\ agent = "live" /\ ~Blocked
  /\ agent' = "exited" /\ AgentGone
  /\ UNCHANGED <<status, inQueue, ask, aged, asking, settling, told, cancel, bounds>>

Crash ==
  /\ agent = "live" /\ Blocked
  /\ agent' = "exited" /\ AgentGone
  /\ UNCHANGED <<status, inQueue, ask, aged, asking, settling, told, cancel, bounds>>

\* finishRun: FinishTask takes any row but a queued one.
FinishTurn ==
  /\ agent = "exited"
  /\ agent' = "none"
  /\ status' = IF status \in {"queued", "canceled"} THEN status ELSE "ended"
  /\ UNCHANGED <<inQueue, ask, aged, asking, settling, waits, cancel, bounds>>

\* A follow-up revives an ended task, and its next turn starts.
FollowUp ==
  /\ agent = "none" /\ status \in Ended /\ turns < MaxTurns /\ cancel.pc = "idle"
  /\ turns' = turns + 1
  /\ status' = "queued" /\ inQueue' = TRUE
  /\ UNCHANGED <<agent, ask, aged, asking, settling, waits, cancel, stops>>

\* StartQueuedTask refuses a row that no longer reads queued.
StartTurn ==
  /\ inQueue
  /\ inQueue' = FALSE
  /\ IF status = "queued" THEN status' = "running" /\ agent' = "live"
                          ELSE UNCHANGED <<status, agent>>
  /\ UNCHANGED <<ask, aged, asking, settling, waits, cancel, bounds>>

-----------------------------------------------------------------------------
(* cancelTask: deny what is pending, one after the other, then end the task *)

PendingOf(S) == {a \in S : ask[a] = "pending"}
CancelIsFree == \A a \in Asks : cancel.at = a => settling[a] = "done"

CancelBegin ==
  /\ cancel.pc = "idle" /\ stops < MaxStops
  /\ status \notin Ended /\ agent # "exited"
  /\ stops' = stops + 1
  /\ cancel' = [pc |-> "permissions", deny |-> PendingOf(Permissions), at |-> None]
  /\ UNCHANGED <<turn, ask, aged, asking, settling, waits, turns>>

\* Mutant: one verdict for both kinds of ask.
CancelDenyAll(a) ==
  /\ cancel.pc # "idle" /\ CancelIsFree /\ a \in cancel.deny
  /\ IF ask[a] = "pending"
       THEN /\ Settle(a, "denied")
            /\ cancel' = [cancel EXCEPT !.deny = @ \ {a}, !.at = a]
       ELSE /\ cancel' = [cancel EXCEPT !.deny = @ \ {a}]
            /\ UNCHANGED <<ask, aged, settling>>
  /\ UNCHANGED <<turn, asking, waits, bounds>>

CancelDeny(a) ==
  /\ cancel.pc # "idle" /\ CancelIsFree /\ a \in cancel.deny
  /\ IF ask[a] = "pending"
       THEN /\ Settle(a, IF a \in Permissions THEN "denied" ELSE "answered")
            /\ cancel' = [cancel EXCEPT !.deny = @ \ {a}, !.at = a]
       ELSE /\ cancel' = [cancel EXCEPT !.deny = @ \ {a}]
            /\ UNCHANGED <<ask, aged, settling>>
  /\ UNCHANGED <<turn, asking, waits, bounds>>

CancelQuestions ==
  /\ cancel.pc = "permissions" /\ CancelIsFree /\ cancel.deny = {}
  /\ cancel' = [pc |-> "questions", deny |-> PendingOf(Questions), at |-> None]
  /\ UNCHANGED <<turn, ask, aged, asking, settling, waits, bounds>>

\* The task leaves the queue, or its agent is killed and its run retired.
CancelWrite ==
  /\ cancel.pc = "questions" /\ CancelIsFree /\ cancel.deny = {}
  /\ cancel' = NoCancel
  /\ status' = "canceled" /\ inQueue' = FALSE /\ agent' = "none"
  /\ AgentGone
  /\ UNCHANGED <<ask, aged, asking, settling, told, bounds>>

-----------------------------------------------------------------------------
\* The daemon dies.  FailOrphaned of the next one does not list waiting_input.
Restart ==
  /\ stops < MaxStops
  /\ stops' = stops + 1
  /\ status' = IF status \in {"queued", "running", "waiting_approval"}
                 THEN "ended" ELSE status
  /\ inQueue' = FALSE /\ agent' = "none" /\ AgentGone
  /\ asking' = [a \in Asks |-> IF asking[a] = "idle" THEN "idle" ELSE "done"]
  /\ settling' = [a \in Asks |-> IF Settled(a) THEN "done" ELSE "idle"]
  /\ cancel' = NoCancel
  /\ UNCHANGED <<ask, aged, told, turns>>

-----------------------------------------------------------------------------
Handler(a) == Insert(a) \/ Pause(a) \/ RequestCut(a) \/ RequestFails(a)

Settling(a) == Notify(a) \/ ReadTask(a) \/ AppendFails(a) \/ ReadOthers(a) \/ Resume(a)

Poll(a) == \/ PollRead(a) \/ PollRegister(a) \/ PollHears(a) \/ PollTimer(a)
           \/ PollExpires(a) \/ PollReturns(a) \/ PollFails(a)

Expiry(a) == Age(a) \/ ExpireStale(a)

Turn == Exit \/ FinishTurn \/ StartTurn

Cancel == CancelQuestions \/ CancelWrite \/ \E a \in Asks : CancelDeny(a)

Next ==
  \/ \E a \in Asks : \/ Request(a) \/ Handler(a) \/ Answer(a) \/ Age(a)
                     \/ ExpireStale(a) \/ Settling(a) \/ Poll(a)
  \/ Exit \/ Crash \/ FinishTurn \/ FollowUp \/ StartTurn
  \/ CancelBegin \/ Cancel \/ Restart

\* Time passes, the ticker ticks, handlers are scheduled, an agent that is not
\* waiting for an answer exits.  Nobody has to answer.
Fairness ==
  /\ \A a \in Asks : /\ WF_vars(Expiry(a)) /\ WF_vars(Handler(a))
                     /\ WF_vars(Settling(a)) /\ WF_vars(Poll(a))
  /\ WF_vars(Turn) /\ WF_vars(Cancel)

Spec == Init /\ [][Next]_vars
FairSpec == Spec /\ Fairness

-----------------------------------------------------------------------------
(* What the engine promises *)

\* The agent acts on the decision the record shows, whoever else was deciding at
\* that moment.  That another was first is never an error of a permission's poll,
\* only of a question's; what else a poll may end in is the failure of a statement.
ToldTheDecision ==
  \A a \in Asks : told[a] # None =>
    \/ told[a] = ask[a]
    \/ told[a] = "conflict" /\ a \in Questions
    \/ told[a] = "failure"

\* Nobody is kept waiting, whoever falls silent: an ask is settled even when nobody
\* answers it and its turn is long over, and no ask, answered or not, keeps an agent
\* waiting for ever.
NobodyWaits ==
  LET waiting == agent = "live" \/ \E a \in Asks : ask[a] = "pending"
  IN waiting ~> ~waiting

=============================================================================

--------------------------- MODULE NodeApprovals ---------------------------
(***************************************************************************)
(* Permission questions of an agent that runs on another machine.  The     *)
(* machine's daemon sends the question up the connection the turn came     *)
(* down on (node/approvalrelay.go), the Hub records it in its inbox, waits *)
(* for a person and sends the decision back (node/approvals.go), and the   *)
(* agent's client long-polls its own daemon for it (approvalbridge,        *)
(* api/api.go).  The connection may break and be replaced at any moment.   *)
(*                                                                         *)
(* One machine, one turn on it, dispatched down the first connection; what *)
(* the turn itself goes through is module NodeTurns, what the inbox does   *)
(* to the task's row is module Approvals.  A step is one hold of           *)
(* ApprovalRelay.mu, Approvals.mu or Turns.mu, one operation on a channel, *)
(* one statement on the question's row, or one write to or read from a     *)
(* socket.  External: a person may decide or not; the time to live of a    *)
(* question runs out.                                                      *)
(***************************************************************************)
EXTENDS Naturals, Sequences, FiniteSets

CONSTANTS
  Questions,  \* questions the agent will ask; with its request id and its row's id
  None,
  MaxConns,   \* how often the machine connects
  StoreFails  \* may the inbox fail after it has inserted the row?

ASSUME NodeApprovalsAssumption ==
  /\ IsFiniteSet(Questions)
  /\ None \notin Questions \cup {"approved", "denied", "expired", "error", "accepted"}
  /\ MaxConns \in Nat \ {0}
  /\ StoreFails \in BOOLEAN

VARIABLES
  agent,     \* the agent of the turn: "live", "gone"
  ask,       \* ApprovalRelay.Ask of each question: where it is, on which connection
  waiters,   \* ApprovalRelay.waiters
  byID,      \* ApprovalRelay.byID: the questions whose row's id is known
  said,      \* waiter.status: what was put into it, first come
  channel,   \* waiter.decision: the outcome, or None
  answered,  \* ApprovalRelay.answered
  poll,      \* the client's wait and the handler that serves it
  stale,     \* a handler whose client has given up on it: [at, outcome]
  told,      \* what the agent was told
  dev,       \* the machine's connection, its write path and its read loop
  sock, up, down, table, handler,  \* as in NodeTurns
  turn,      \* the turn on the Hub: "open", "over"
  open,      \* Approvals.pending
  linked,    \* the entries that have their approval's id
  stopped,   \* the entries whose wait was canceled
  await,     \* Approvals.await of each question
  row        \* the decision of each question's row; "none" before it is inserted

relay   == <<ask, waiters, byID, said, channel, answered>>
client  == <<poll, stale, told>>
network == <<sock, up, down>>
hub     == <<open, linked, stopped, await, row>>
vars == <<agent, relay, client, dev, network, table, handler, turn, hub>>

Conns == 1 .. MaxConns
Home  == 1  \* the connection the turn was dispatched on
Decisions == {"approved", "denied", "expired"}
Frame(kind, q, what) == [kind |-> kind, question |-> q, what |-> what]

NoHandler == [at |-> "none", question |-> None, gone |-> 0, doomed |-> {}, settling |-> {}]

Init ==
  /\ agent = "live" /\ turn = "open"
  /\ ask = [q \in Questions |-> [at |-> "idle", conn |-> 0]]
  /\ waiters = {} /\ byID = {}
  /\ said = [q \in Questions |-> None] /\ channel = [q \in Questions |-> None]
  /\ answered = [q \in Questions |-> None]
  /\ poll = [q \in Questions |-> "off"]
  /\ stale = [q \in Questions |-> [at |-> "none", outcome |-> None]]
  /\ told = [q \in Questions |-> None]
  /\ dev = [conn |-> Home, ending |-> FALSE, linking |-> {}]
  /\ sock = [c \in Conns |-> IF c = Home THEN "up" ELSE "none"]
  /\ up = [c \in Conns |-> <<>>] /\ down = [c \in Conns |-> <<>>]
  /\ table = Home
  /\ handler = [c \in Conns |-> [NoHandler EXCEPT !.at = IF c = Home THEN "read" ELSE "none"]]
  /\ open = {} /\ linked = {} /\ stopped = {}
  /\ await = [q \in Questions |-> "off"] /\ row = [q \in Questions |-> "none"]

-----------------------------------------------------------------------------
(* The machine asks: ApprovalRelay.Ask.                                    *)

AskGoes(q, l) == ask' = [ask EXCEPT ![q].at = l]
Forget(q) == waiters' = waiters \ {q} /\ byID' = byID \ {q}
Tell(q, what) == told' = [told EXCEPT ![q] = what] /\ poll' = [poll EXCEPT ![q] = "over"]

Blocked == {q \in Questions : ask[q].at # "idle" /\ told[q] = None}

\* The turn is one this machine runs for its Hub; the question is tracked.
Begin(q) ==
  /\ agent = "live" /\ ask[q].at = "idle"
  /\ AskGoes(q, "tracked") /\ waiters' = waiters \cup {q}
  /\ UNCHANGED <<agent, byID, said, channel, answered, client, dev, network, table, handler,
                 turn, hub>>

GetSender(q) ==
  /\ ask[q].at = "tracked" /\ dev.conn # 0
  /\ ask' = [ask EXCEPT ![q] = [at |-> "send", conn |-> dev.conn]]
  /\ UNCHANGED <<agent, waiters, byID, said, channel, answered, client, dev, network, table,
                 handler, turn, hub>>

\* A broken socket swallows what is written to it, or fails the write.
Sent(c, f) == IF sock[c] = "up" THEN [down EXCEPT ![c] = Append(@, f)] ELSE down

Send(q) ==
  /\ ask[q].at = "send"
  /\ LET c == ask[q].conn
     IN up' = IF sock[c] = "up" THEN [up EXCEPT ![c] = Append(@, q)] ELSE up
  /\ AskGoes(q, "sent")
  /\ UNCHANGED <<agent, waiters, byID, said, channel, answered, client, dev, sock, down, table,
                 handler, turn, hub>>

\* There is no room to track it (512) or no write path, the write fails, the Hub refuses,
\* or the time for it to take the question is up.
AskFails(q) ==
  /\ \/ ask[q].at = "tracked"
     \/ ask[q].at = "send" /\ sock[ask[q].conn] = "broken"
     \/ ask[q].at = "sent" /\ said[q] # "accepted"
  /\ AskGoes(q, "done") /\ Forget(q) /\ Tell(q, "error")
  /\ UNCHANGED <<agent, said, channel, answered, stale, dev, network, table, handler, turn, hub>>

\* The client has the id, and starts to poll.
AskAccepted(q) ==
  /\ ask[q].at = "sent" /\ said[q] = "accepted"
  /\ AskGoes(q, "done")
  /\ poll' = [poll EXCEPT ![q] = "look"]
  /\ UNCHANGED <<agent, waiters, byID, said, channel, answered, stale, told, dev, network, table,
                 handler, turn, hub>>

-----------------------------------------------------------------------------
(* The agent's client polls: handleInternalWaitApproval.                   *)

\* Mutant: the wait that reads the outcome is the only one that gets it.
SettleForgets(q, outcome) == Forget(q) /\ UNCHANGED answered

\* ApprovalRelay.settle: the outcome outlives the wait that read it.
Settle(q, outcome) ==
  /\ Forget(q)
  /\ answered' = IF q \in waiters \cup byID /\ answered[q] = None
                 THEN [answered EXCEPT ![q] = outcome] ELSE answered

\* ApprovalRelay.Waiting; an id it does not know is looked for in the machine's own
\* inbox, which does not have it.
Look(q) ==
  /\ poll[q] = "look"
  /\ IF q \in byID \/ answered[q] # None
     THEN poll' = [poll EXCEPT ![q] = "decision"] /\ UNCHANGED told
     ELSE Tell(q, "error")
  /\ UNCHANGED <<agent, relay, stale, dev, network, table, handler, turn, hub>>

\* ApprovalRelay.Decision finds the waiter, or what it left behind.
Decision(q) ==
  /\ poll[q] = "decision"
  /\ IF q \in byID
     THEN poll' = [poll EXCEPT ![q] = "wait"] /\ UNCHANGED told
     ELSE Tell(q, IF answered[q] = None THEN "error" ELSE answered[q])
  /\ UNCHANGED <<agent, relay, stale, dev, network, table, handler, turn, hub>>

Hear(q) ==
  /\ poll[q] = "wait" /\ channel[q] # None
  /\ poll' = [poll EXCEPT ![q] = channel[q]]
  /\ channel' = [channel EXCEPT ![q] = None]
  /\ UNCHANGED <<agent, ask, waiters, byID, said, answered, stale, told, dev, network, table,
                 handler, turn, hub>>

Return(q) ==
  /\ poll[q] \in Decisions \cup {"error"}
  /\ Settle(q, poll[q]) /\ Tell(q, poll[q])
  /\ UNCHANGED <<agent, ask, said, channel, stale, dev, network, table, handler, turn, hub>>

\* The client gives up on a call that has not been answered yet, and calls again; the
\* handler it leaves behind still selects on the channel and on its dead context.
CallTimesOut(q) ==
  /\ poll[q] = "wait" /\ channel[q] = None /\ stale[q].at = "none"
  /\ poll' = [poll EXCEPT ![q] = "look"]
  /\ stale' = [stale EXCEPT ![q].at = "wait"]
  /\ UNCHANGED <<agent, relay, told, dev, network, table, handler, turn, hub>>

StaleEnds(q) ==
  /\ stale[q].at = "wait"
  /\ stale' = [stale EXCEPT ![q].at = "none"]
  /\ UNCHANGED <<agent, relay, poll, told, dev, network, table, handler, turn, hub>>

StaleHears(q) ==
  /\ stale[q].at = "wait" /\ channel[q] # None
  /\ stale' = [stale EXCEPT ![q] = [at |-> "settle", outcome |-> channel[q]]]
  /\ channel' = [channel EXCEPT ![q] = None]
  /\ UNCHANGED <<agent, ask, waiters, byID, said, answered, poll, told, dev, network, table,
                 handler, turn, hub>>

StaleSettles(q) ==
  /\ stale[q].at = "settle"
  /\ Settle(q, stale[q].outcome)
  /\ stale' = [stale EXCEPT ![q] = [at |-> "none", outcome |-> None]]
  /\ UNCHANGED <<agent, ask, said, channel, poll, told, dev, network, table, handler, turn, hub>>

\* The agent ends, and its client's calls with it.
AgentEnds ==
  /\ agent = "live"
  /\ agent' = "gone"
  /\ ask' = [q \in Questions |-> [ask[q] EXCEPT !.at = "done"]]
  /\ poll' = [q \in Questions |-> "over"]
  /\ LET cut == {q \in Questions : ask[q].at \in {"tracked", "send", "sent"}}
     IN waiters' = waiters \ cut /\ byID' = byID \ cut
  /\ UNCHANGED <<said, channel, answered, stale, told, dev, network, table, handler, turn, hub>>

-----------------------------------------------------------------------------
(* The machine's read loop: ApprovalRelay.Handle, SetSender and End.       *)

FirstSaid(q, what) == IF said[q] = None THEN [said EXCEPT ![q] = what] ELSE said

\* The waiter stays registered until the outcome is read.
Arrive(q, what) ==
  /\ channel' = [channel EXCEPT ![q] = IF @ = None /\ q \in waiters THEN what ELSE @]
  /\ UNCHANGED <<waiters, byID, said, dev>>

\* A status finds its waiter; if it brings an id, that is registered next.
Status(q, what) ==
  /\ IF q \notin waiters THEN UNCHANGED <<said, dev>>
     ELSE IF what = "accepted" THEN dev' = [dev EXCEPT !.linking = {q}] /\ UNCHANGED said
     ELSE said' = FirstSaid(q, what) /\ UNCHANGED dev
  /\ UNCHANGED <<waiters, byID, channel>>

DeviceReads ==
  /\ dev.conn # 0 /\ dev.linking = {} /\ down[dev.conn] # <<>>
  /\ LET f == Head(down[dev.conn])
     IN IF f.kind = "status" THEN Status(f.question, f.what) ELSE Arrive(f.question, f.what)
  /\ down' = [down EXCEPT ![dev.conn] = Tail(@)]
  /\ UNCHANGED <<agent, ask, answered, client, sock, up, table, handler, turn, hub>>

\* The waiter that was found is registered under its row's id, also when its Ask has
\* given up meanwhile.
DeviceLinks ==
  /\ \E q \in dev.linking : byID' = byID \cup {q} /\ said' = FirstSaid(q, "accepted")
  /\ dev' = [dev EXCEPT !.linking = {}]
  /\ UNCHANGED <<agent, ask, waiters, channel, answered, client, network, table, handler, turn,
                 hub>>

\* RunOnce returns: the write path is taken away ...
DeviceNotices ==
  /\ dev.conn # 0 /\ dev.linking = {} /\ sock[dev.conn] = "broken"
  /\ dev' = [dev EXCEPT !.conn = 0, !.ending = TRUE]
  /\ down' = [down EXCEPT ![dev.conn] = <<>>]
  /\ UNCHANGED <<agent, relay, client, sock, up, table, handler, turn, hub>>

\* ... and every question still waited for is failed.
End ==
  /\ dev.ending
  /\ dev' = [dev EXCEPT !.ending = FALSE]
  /\ said' = [q \in Questions |-> IF q \in waiters /\ said[q] = None THEN "gone" ELSE said[q]]
  /\ channel' = [q \in Questions |->
                   IF q \in waiters /\ channel[q] = None THEN "error" ELSE channel[q]]
  /\ waiters' = {} /\ byID' = {} /\ answered' = [q \in Questions |-> None]
  /\ UNCHANGED <<agent, ask, client, network, table, handler, turn, hub>>

Connect(c) ==
  /\ dev.conn = 0 /\ ~dev.ending /\ sock[c] = "none" /\ \A d \in Conns : d < c => sock[d] # "none"
  /\ sock' = [sock EXCEPT ![c] = "up"]
  /\ dev' = [dev EXCEPT !.conn = c]
  /\ handler' = [handler EXCEPT ![c].at = "hello"]
  /\ UNCHANGED <<agent, relay, client, up, down, table, turn, hub>>

Break(c) ==
  /\ sock[c] = "up"
  /\ sock' = [sock EXCEPT ![c] = "broken"]
  /\ UNCHANGED <<agent, relay, client, dev, up, down, table, handler, turn, hub>>

-----------------------------------------------------------------------------
(* The Hub's handler of a connection: Approvals.ask, on its read loop.     *)

Serving(c, l, q) == handler' = [handler EXCEPT ![c].at = l, ![c].question = q]
Refuse(c, q) == down' = Sent(c, Frame("status", q, "refused"))

\* A question about a turn the Hub is not running on this connection is refused.
HubReads(c) ==
  /\ handler[c].at = "read" /\ up[c] # <<>>
  /\ up' = [up EXCEPT ![c] = Tail(@)]
  /\ LET q == Head(up[c])
     IN IF turn = "open" /\ c = Home
        THEN Serving(c, "owned", q) /\ UNCHANGED down
        ELSE Refuse(c, q) /\ UNCHANGED handler
  /\ UNCHANGED <<agent, relay, client, dev, sock, table, turn, hub>>

\* The request id is claimed before the row is created.
Claim(c) ==
  /\ handler[c].at = "owned"
  /\ open' = open \cup {handler[c].question}
  /\ Serving(c, "claimed", handler[c].question)
  /\ UNCHANGED <<agent, relay, client, dev, network, table, turn, linked, stopped, await, row>>

\* Engine.RequestApproval inserts the row; it may refuse to, or fail after it did.
\* (A question beyond the Hub's 512 is refused, too.)
Create(c) ==
  /\ handler[c].at = "claimed"
  /\ LET q == handler[c].question
     IN \/ /\ row' = [row EXCEPT ![q] = "pending"]
           /\ Serving(c, "created", q)
           /\ UNCHANGED <<down, open>>
        \/ /\ row' = IF StoreFails THEN [row EXCEPT ![q] = "pending"] ELSE row
           /\ open' = open \ {q}
           /\ Refuse(c, q) /\ Serving(c, "read", None)
  /\ UNCHANGED <<agent, relay, client, dev, sock, up, table, turn, linked, stopped, await>>

\* The entry gets the id of its row, unless its connection has ended meanwhile.
Link(c) ==
  /\ handler[c].at = "created"
  /\ LET q == handler[c].question
     IN IF q \in open THEN linked' = linked \cup {q} /\ Serving(c, "linked", q)
                      ELSE Serving(c, "settle", q) /\ UNCHANGED linked
  /\ UNCHANGED <<agent, relay, client, dev, network, table, turn, open, stopped, await, row>>

\* The machine is told; a goroutine then waits for the decision.
Accept(c) ==
  /\ handler[c].at = "linked"
  /\ LET q == handler[c].question
     IN \/ /\ down' = Sent(c, Frame("status", q, "accepted"))
           /\ await' = [await EXCEPT ![q] = "wait"]
           /\ Serving(c, "read", None)
           /\ UNCHANGED open
        \/ /\ sock[c] = "broken"
           /\ open' = open \ {q}
           /\ Serving(c, "settle", q)
           /\ UNCHANGED <<down, await>>
  /\ UNCHANGED <<agent, relay, client, dev, sock, up, table, turn, linked, stopped, row>>

\* Mutant: the row is closed whatever it says.
SettledWhatever(q) == [row EXCEPT ![q] = "expired"]

\* Approvals.settle: a decision that was made stays.
SettledRow(q) == IF row[q] = "pending" THEN [row EXCEPT ![q] = "expired"] ELSE row

SettleUnheard(c) ==
  /\ handler[c].at = "settle"
  /\ row' = SettledRow(handler[c].question)
  /\ Serving(c, "read", None)
  /\ UNCHANGED <<agent, relay, client, dev, network, table, turn, open, linked, stopped, await>>

-----------------------------------------------------------------------------
(* The end of a connection: Attach, Detach, Approvals.Abandon.             *)

Attach(c) ==
  /\ handler[c].at = "hello"
  /\ table' = c
  /\ handler' = [handler EXCEPT ![c].at = IF table = 0 THEN "read" ELSE "abandon",
                                ![c].gone = table]
  /\ UNCHANGED <<agent, relay, client, dev, network, turn, hub>>

Detach(c) ==
  /\ handler[c].at = "read" /\ sock[c] = "broken"
  /\ table' = IF table = c THEN 0 ELSE table
  /\ handler' = [handler EXCEPT ![c].at = IF table = c THEN "abandon" ELSE "done", ![c].gone = c]
  /\ up' = [up EXCEPT ![c] = <<>>]
  /\ UNCHANGED <<agent, relay, client, dev, sock, down, turn, hub>>

\* The open questions of the connection that has ended: all are about its turn.
Abandon(c) ==
  /\ handler[c].at = "abandon"
  /\ handler' = [handler EXCEPT ![c].at = "abandoning",
                                ![c].doomed = IF handler[c].gone = Home THEN open ELSE {}]
  /\ UNCHANGED <<agent, relay, client, dev, network, table, turn, hub>>

AbandonOne(c) ==
  /\ handler[c].at = "abandoning" /\ handler[c].settling = {}
  /\ \E q \in handler[c].doomed :
       /\ open' = open \ {q} /\ stopped' = stopped \cup {q}
       /\ handler' = [handler EXCEPT ![c].doomed = @ \ {q}, ![c].settling = {q} \cap linked]
  /\ UNCHANGED <<agent, relay, client, dev, network, table, turn, linked, await, row>>

SettleOne(c) ==
  /\ \E q \in handler[c].settling : row' = SettledRow(q)
  /\ handler' = [handler EXCEPT ![c].settling = {}]
  /\ UNCHANGED <<agent, relay, client, dev, network, table, turn, open, linked, stopped, await>>

\* Turns.Abandon comes last; then the displaced connection is closed.
AbandonTurn(c) ==
  /\ handler[c].at = "abandoning" /\ handler[c].doomed = {} /\ handler[c].settling = {}
  /\ turn' = IF handler[c].gone = Home THEN "over" ELSE turn
  /\ sock' = [sock EXCEPT ![handler[c].gone] = "broken"]
  /\ handler' = [handler EXCEPT ![c].at = IF handler[c].gone = c THEN "done" ELSE "read"]
  /\ UNCHANGED <<agent, relay, client, dev, up, down, table, hub>>

-----------------------------------------------------------------------------
(* Waiting for a person: Approvals.await, and the inbox.                   *)

\* Mutant: a wait that brings no decision is the last.
AwaitOnce(q) ==
  /\ await[q] = "wait"
  /\ IF q \in stopped \/ row[q] = "pending"
     THEN await' = [await EXCEPT ![q] = "over"] /\ open' = open \ {q}
     ELSE await' = [await EXCEPT ![q] = "decided"] /\ UNCHANGED open
  /\ UNCHANGED <<agent, relay, client, dev, network, table, handler, turn, linked, stopped, row>>

\* Mutant: what the wait brings is sent, a decision or not.
AwaitAnything(q) ==
  /\ await[q] = "wait"
  /\ IF q \in stopped
     THEN await' = [await EXCEPT ![q] = "over"] /\ open' = open \ {q}
     ELSE await' = [await EXCEPT ![q] = "decided"] /\ UNCHANGED open
  /\ UNCHANGED <<agent, relay, client, dev, network, table, handler, turn, linked, stopped, row>>

\* WaitApproval brings a decision; while there is none, and when it fails, it is
\* called again.  A canceled wait is the end.
Await(q) ==
  /\ await[q] = "wait" /\ (q \in stopped \/ row[q] # "pending")
  /\ IF q \in stopped
     THEN await' = [await EXCEPT ![q] = "over"] /\ open' = open \ {q}
     ELSE await' = [await EXCEPT ![q] = "decided"] /\ UNCHANGED open
  /\ UNCHANGED <<agent, relay, client, dev, network, table, handler, turn, linked, stopped, row>>

StillOpen(q) ==
  /\ await[q] = "decided"
  /\ await' = [await EXCEPT ![q] = IF q \in open THEN "send" ELSE "over"]
  /\ UNCHANGED <<agent, relay, client, dev, network, table, handler, turn, open, linked, stopped,
                 row>>

Decide(q) ==
  /\ await[q] = "send"
  /\ \/ down' = Sent(Home, Frame("decision", q, row[q]))
     \/ sock[Home] = "broken" /\ UNCHANGED down
  /\ await' = [await EXCEPT ![q] = "sent"]
  /\ UNCHANGED <<agent, relay, client, dev, sock, up, table, handler, turn, open, linked, stopped,
                 row>>

\* The entry is forgotten last, by the deferred call.
AwaitReturns(q) ==
  /\ await[q] = "sent"
  /\ await' = [await EXCEPT ![q] = "over"] /\ open' = open \ {q}
  /\ UNCHANGED <<agent, relay, client, dev, network, table, handler, turn, linked, stopped, row>>

PersonDecides(q) ==
  /\ row[q] = "pending"
  /\ \E d \in {"approved", "denied"} : row' = [row EXCEPT ![q] = d]
  /\ UNCHANGED <<agent, relay, client, dev, network, table, handler, turn, open, linked, stopped,
                 await>>

Expire(q) ==
  /\ row[q] = "pending"
  /\ row' = [row EXCEPT ![q] = "expired"]
  /\ UNCHANGED <<agent, relay, client, dev, network, table, handler, turn, open, linked, stopped,
                 await>>

\* The turn ends on the Hub: it is canceled, or its agent has reported.
TurnEnds ==
  /\ turn = "open"
  /\ turn' = "over"
  /\ UNCHANGED <<agent, relay, client, dev, network, table, handler, hub>>

-----------------------------------------------------------------------------
Asking(q)  == GetSender(q) \/ Send(q) \/ AskFails(q) \/ AskAccepted(q)
Polling(q) == Look(q) \/ Decision(q) \/ Hear(q) \/ Return(q) \/ CallTimesOut(q)
Stale(q)   == StaleEnds(q) \/ StaleHears(q) \/ StaleSettles(q)
Waiting(q) == Await(q) \/ StillOpen(q) \/ Decide(q) \/ AwaitReturns(q)
Machine    == DeviceReads \/ DeviceLinks \/ DeviceNotices \/ End
Serves(c)  == \/ HubReads(c) \/ Claim(c) \/ Create(c) \/ Link(c) \/ Accept(c) \/ SettleUnheard(c)
              \/ Attach(c) \/ Detach(c) \/ Abandon(c) \/ AbandonOne(c) \/ SettleOne(c)
              \/ AbandonTurn(c)

Next ==
  \/ \E q \in Questions : \/ Begin(q) \/ Asking(q) \/ Polling(q) \/ Stale(q) \/ Waiting(q)
                          \/ PersonDecides(q) \/ Expire(q)
  \/ AgentEnds \/ TurnEnds \/ Machine
  \/ \E c \in Conns : Serves(c) \/ Connect(c) \/ Break(c)

Spec == Init /\ [][Next]_vars

(* Every goroutine goes on, a broken socket is noticed, calls and questions *)
(* time out.  Neither people nor the network owe anything, and an agent    *)
(* need not end.                                                           *)
Fairness ==
  /\ \A q \in Questions : /\ WF_vars(Asking(q)) /\ WF_vars(Polling(q)) /\ WF_vars(Stale(q))
                          /\ WF_vars(Waiting(q)) /\ WF_vars(Expire(q))
  /\ WF_vars(Machine)
  /\ \A c \in Conns : WF_vars(Serves(c))
FairSpec == Spec /\ Fairness

-----------------------------------------------------------------------------
(* Properties.                                                             *)

Outcomes == Decisions \cup {"error"}

\* The state keeps its types; what is sent as a decision is one.
TypeOK ==
  /\ agent \in {"live", "gone"} /\ turn \in {"open", "over"}
  /\ ask \in [Questions -> [at : {"idle", "tracked", "send", "sent", "done"}, conn : 0 .. MaxConns]]
  /\ waiters \subseteq Questions
  /\ byID \subseteq Questions
  /\ said \in [Questions -> {None, "accepted", "refused", "gone"}]
  /\ channel \in [Questions -> Outcomes \cup {None}]
  /\ answered \in [Questions -> Outcomes \cup {None}]
  /\ poll \in [Questions -> Outcomes \cup {"off", "look", "decision", "wait", "over"}]
  /\ stale \in [Questions -> [at : {"none", "wait", "settle"}, outcome : Outcomes \cup {None}]]
  /\ told \in [Questions -> Outcomes \cup {None}]
  /\ dev \in [conn : 0 .. MaxConns, ending : BOOLEAN, linking : SUBSET Questions]
  /\ sock \in [Conns -> {"none", "up", "broken"}] /\ table \in 0 .. MaxConns
  /\ handler \in
       [Conns -> [at : {"none", "hello", "read", "owned", "claimed", "created", "linked", "settle",
                        "abandon", "abandoning", "done"},
                  question : Questions \cup {None}, gone : 0 .. MaxConns,
                  doomed : SUBSET Questions, settling : SUBSET Questions]]
  /\ open \subseteq Questions
  /\ linked \subseteq Questions /\ stopped \subseteq Questions
  /\ await \in [Questions -> {"off", "wait", "decided", "send", "sent", "over"}]
  /\ row \in [Questions -> Decisions \cup {"none", "pending"}]

\* An agent does what the person said, or nothing: a decision it is told, by whichever
\* of its calls, is the one the Hub's record shows, whatever ended in between
\* (approvals.go:420-431, approvalrelay.go:219-229).
ToldTheRecord == \A q \in Questions : told[q] \in Decisions => row[q] = told[q]

\* While the connection a question went up on lasts, the machine never answers a wait
\* for it with "not a question this machine asked", which the agent would read as a
\* deny (approvalrelay.go:47-51, 226-229, 297-301).
QuestionIsKnown ==
  \A q \in Questions :
    poll[q] \in {"look", "decision", "wait"} /\ ask[q].conn = dev.conn
      => q \in byID \/ answered[q] # None

\* No agent is left blocked on a question and no question is left in the Hub's table,
\* whoever falls silent (approvals.go:236-241, approvalrelay.go:314-318).
NobodyIsLeft ==
  \A q \in Questions :
    LET waited == q \in open \/ (agent = "live" /\ q \in Blocked)
    IN waited ~> ~waited

-----------------------------------------------------------------------------
(* What the two halves do not keep (see README.md).                        *)

\* "Abandon settles every question asked on a connection that has ended", for one left
\* pending "would be a row in the console that nobody can act on"
\* (approvals.go:418-425).
NothingIsOrphaned ==
  (turn = "over" /\ \A c \in Conns : handler[c].at \in {"none", "read", "done"} /\ up[c] = <<>>)
    => \A q \in Questions : row[q] = "pending" => handler[Home].at = "read" /\ table = Home
=============================================================================

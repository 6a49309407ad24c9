----------------------------- MODULE NodeTurns -----------------------------
(***************************************************************************)
(* Turns that run on another machine.  The Hub dispatches a turn down the  *)
(* connection the machine opened (node/adapter.go, node/turns.go), the     *)
(* machine runs it and reports its events on it (node/executor.go), and    *)
(* the connection may break and be replaced at any moment                  *)
(* (node/connections.go, node/client.go, api/node.go).                     *)
(*                                                                         *)
(* One machine, one process on it.  Frames of a connection arrive in order *)
(* or not at all; either side may notice late that it is broken.  A step   *)
(* is one hold of Turns.mu, Connections.mu or Executor.mu, or one write to *)
(* or read from a socket.  Events are told apart by their number alone.    *)
(* External: an agent may exit at any time, and does once its context has  *)
(* ended; a write under a context that has ended is refused, or goes out,  *)
(* and may close the socket on the way (conn.go:54-60).                    *)
(***************************************************************************)
EXTENDS Naturals, Sequences, FiniteSets

CONSTANTS
  Turns,      \* turn ids: each is dispatched at most once
  MaxConns,   \* how often the machine connects
  MaxEvents,  \* how many events an agent may emit
  Room,       \* the buffer of turn.events (64 in the code)
  LateAttach  \* may a handler attach its connection after a newer one is attached?

ASSUME NodeAssumption ==
  /\ IsFiniteSet(Turns)
  /\ MaxConns \in Nat /\ MaxEvents \in Nat
  /\ Room \in Nat \ {0}
  /\ LateAttach \in BOOLEAN

VARIABLES
  sock,     \* the socket of each connection: "none", "up", "broken"
  up, down, \* frames on their way to the Hub, to the machine
  table,    \* Connections.byID: the current connection, 0 for none
  handler,  \* the Hub's goroutine for each connection
  turn,     \* the Hub's half of each turn, with the start of its adapter
  fails,    \* Turns.fail in progress: [turn, why, by, at]
  read,     \* what the engine has read of each turn's events
  dev,      \* the machine's current connection, 0 for none
  exec      \* Executor.running and its goroutines

vars == <<sock, up, down, table, handler, turn, fails, read, dev, exec>>

Conns == 1 .. MaxConns
Reasons == {"event", "gone", "failed"}
Entry(why, seq) == [why |-> why, seq |-> seq]
Frame(kind, t, seq) == [kind |-> kind, turn |-> t, seq |-> seq]

\* "answered" also says who claimed the turn's first word, the machine or the deadline.
NoTurn == [start |-> "idle", gen |-> 0, life |-> "none", answered |-> "no",
           over |-> FALSE, grace |-> FALSE, cancel |-> FALSE, highest |-> 0, buf |-> <<>>]
NoExec == [at |-> "none", conn |-> 0, stopped |-> FALSE, sent |-> 0]
Ended == [NoExec EXCEPT !.at = "ended"]
\* "held" is the event a handler has counted and not yet pushed.
NoHandler == [at |-> "none", prev |-> 0, held |-> {}]

Init ==
  /\ sock = [c \in Conns |-> "none"]
  /\ up = [c \in Conns |-> <<>>] /\ down = [c \in Conns |-> <<>>]
  /\ table = 0 /\ dev = 0
  /\ handler = [c \in Conns |-> NoHandler]
  /\ turn = [t \in Turns |-> NoTurn] /\ read = [t \in Turns |-> <<>>]
  /\ fails = {}
  /\ exec = [t \in Turns |-> NoExec]

-----------------------------------------------------------------------------
(* The Hub's half of a turn.                                               *)

Registered(t) == turn[t].life \in {"open", "closing"}
Owned(c, t) == Registered(t) /\ turn[t].gen = c

\* Mutant: room is counted one too high.
PushOneTooMany(tr, e) ==
  IF tr.life # "open" \/ tr.over THEN tr
  ELSE IF Len(tr.buf) <= Room THEN [tr EXCEPT !.buf = Append(@, e)]
  ELSE [tr EXCEPT !.over = TRUE, !.grace = TRUE, !.cancel = TRUE]

\* Turns.push: a full buffer ends the turn instead of blocking the reader.
Push(tr, e) ==
  IF tr.life # "open" \/ tr.over THEN tr
  ELSE IF Len(tr.buf) < Room THEN [tr EXCEPT !.buf = Append(@, e)]
  ELSE [tr EXCEPT !.over = TRUE, !.grace = TRUE, !.cancel = TRUE]

\* Turns.close: the channel is closed and the turn forgotten once no sender is left.
Closed(tr) ==
  IF tr.life = "open" THEN [tr EXCEPT !.life = IF tr.grace THEN "closing" ELSE "over"] ELSE tr

\* On a turn that is closed a push is refused and a close finds it done, so Turns.fail
\* is in progress on open turns only.
Failing(T, why, by) ==
  [turn : {t \in T : turn[t].life = "open"}, why : {why}, by : {by}, at : {"push"}]
FailsBut(t) == {f \in fails : f.turn # t}
Settled(by) == \A f \in fails : f.by # by

\* Turns.fail: the reason goes into the transcript, and then, under another hold of
\* the lock, the turn is closed.
PushReason(f) ==
  /\ f.at = "push"
  /\ turn' = [turn EXCEPT ![f.turn] = Push(@, Entry(f.why, 0))]
  /\ fails' = (fails \ {f}) \cup {[f EXCEPT !.at = "close"]}
  /\ UNCHANGED <<sock, up, down, table, handler, read, dev, exec>>

CloseFailed(f) ==
  /\ f.at = "close"
  /\ turn' = [turn EXCEPT ![f.turn] = Closed(@)]
  /\ fails' = FailsBut(f.turn)
  /\ UNCHANGED <<sock, up, down, table, handler, read, dev, exec>>

Fail(f) == PushReason(f) \/ CloseFailed(f)

\* The goroutine that hands over the reason of an overflow: there is room, the
\* turn has ended, or it has waited long enough.
Grace(t) ==
  /\ turn[t].grace
  /\ \E told \in BOOLEAN :
       /\ told => Len(turn[t].buf) < Room
       /\ turn' = [turn EXCEPT ![t].grace = FALSE, ![t].life = "over",
                               ![t].buf = IF told THEN Append(@, Entry("failed", 0)) ELSE @]
  /\ fails' = FailsBut(t)
  /\ UNCHANGED <<sock, up, down, table, handler, read, dev, exec>>

\* What a write leaves in a socket: a broken one swallows it.
Sent(q, c, f) == IF sock[c] = "up" THEN [q EXCEPT ![c] = Append(@, f)] ELSE q

\* cancelDevice, on its own goroutine.
CancelDevice(t) ==
  /\ turn[t].cancel
  /\ turn' = [turn EXCEPT ![t].cancel = FALSE]
  /\ down' = Sent(down, turn[t].gen, Frame("cancel", t, 0))
  /\ UNCHANGED <<sock, up, table, handler, fails, read, dev, exec>>

\* The start deadline claims the turn and fails it on its own goroutine.
Deadline(t) ==
  /\ turn[t].life = "open" /\ turn[t].answered = "no"
  /\ turn' = [turn EXCEPT ![t].answered = "gaveUp"]
  /\ fails' = fails \cup Failing({t}, "failed", 0)
  /\ UNCHANGED <<sock, up, down, table, handler, read, dev, exec>>

\* Adapter.Start: the connection is looked up, the turn opened on it, the
\* dispatch written to it; a failed write closes the turn.
GetConnection(t) ==
  /\ turn[t].start = "idle" /\ table # 0
  /\ turn' = [turn EXCEPT ![t].start = "got", ![t].gen = table]
  /\ UNCHANGED <<sock, up, down, table, handler, fails, read, dev, exec>>

Open(t) ==
  /\ turn[t].start = "got"
  /\ turn' = [turn EXCEPT ![t].start = "opened", ![t].life = "open"]
  /\ UNCHANGED <<sock, up, down, table, handler, fails, read, dev, exec>>

Dispatch(t) ==
  /\ turn[t].start = "opened"
  /\ \/ /\ turn' = [turn EXCEPT ![t].start = "running"]
        /\ down' = Sent(down, turn[t].gen, Frame("dispatch", t, 0)) /\ UNCHANGED fails
     \/ /\ sock[turn[t].gen] = "broken"
        /\ turn' = [turn EXCEPT ![t] = [Closed(@) EXCEPT !.start = "failed"]]
        /\ fails' = FailsBut(t) /\ UNCHANGED down
  /\ UNCHANGED <<sock, up, table, handler, read, dev, exec>>

\* The engine reads the handle's events, or cancels the turn (Handle.Cancel; for a
\* turn that is over, that would only ask the machine again).
EngineReads(t) ==
  /\ turn[t].start = "running" /\ turn[t].buf # <<>>
  /\ read' = [read EXCEPT ![t] = Append(@, Head(turn[t].buf))]
  /\ turn' = [turn EXCEPT ![t].buf = Tail(@)]
  /\ UNCHANGED <<sock, up, down, table, handler, fails, dev, exec>>

EngineCancels(t) ==
  /\ turn[t].start = "running" /\ turn[t].life = "open"
  /\ turn' = [turn EXCEPT ![t] = [Closed(@) EXCEPT !.cancel = TRUE]]
  /\ fails' = FailsBut(t)
  /\ UNCHANGED <<sock, up, down, table, handler, read, dev, exec>>

-----------------------------------------------------------------------------
(* The Hub's handler of a connection.                                      *)

\* Connections.Attach: the last to attach wins.  Nothing orders the handlers of two
\* connections; "LateAttach" says whether the one of an older connection may be last.
InTurn(c) == LateAttach \/ \A d \in Conns : d < c => handler[d].at # "hello"

Attach(c) ==
  /\ handler[c].at = "hello" /\ InTurn(c)
  /\ table' = c
  /\ handler' = [handler EXCEPT ![c].at = IF table = 0 THEN "read" ELSE "displace",
                                ![c].prev = table]
  /\ UNCHANGED <<sock, up, down, turn, fails, read, dev, exec>>

\* Mutant: the turns of the machine, whatever connection they are on.
DoomedOfDevice(gone) == {t \in Turns : Registered(t)}

Doomed(gone) == {t \in Turns : Owned(gone, t)}

\* Turns.Abandon, for a connection that was displaced or has dropped.
Abandon(c) ==
  /\ handler[c].at \in {"displace", "orphan"}
  /\ LET gone == IF handler[c].at = "displace" THEN handler[c].prev ELSE c
     IN fails' = fails \cup Failing(Doomed(gone), "gone", c)
  /\ handler' = [handler EXCEPT ![c].at = IF @ = "displace" THEN "close" ELSE "done"]
  /\ UNCHANGED <<sock, up, down, table, turn, read, dev, exec>>

\* handleNodeConnect closes the displaced connection, then serves its own.
ClosePrevious(c) ==
  /\ handler[c].at = "close" /\ Settled(c)
  /\ sock' = [sock EXCEPT ![handler[c].prev] = "broken"]
  /\ handler' = [handler EXCEPT ![c].at = "read", ![c].prev = 0]
  /\ UNCHANGED <<up, down, table, turn, fails, read, dev, exec>>

Reading(c) == handler[c].at = "read" /\ handler[c].held = {} /\ Settled(c)

\* Mutant: such a frame is dropped.
AnswerNothing(c, t) == down

\* A frame about a turn the Hub is not running is answered with a cancel
\* (routeNodeFrame, cancelUnknownTurn); one about another connection's is dropped.
Answer(c, t) == IF Registered(t) THEN down ELSE Sent(down, c, Frame("cancel", t, 0))

\* Turns.Started, Deliver up to the count of the event, Finish.
HubReads(c) ==
  /\ Reading(c) /\ up[c] # <<>>
  /\ up' = [up EXCEPT ![c] = Tail(@)]
  /\ LET f == Head(up[c])
         t == f.turn
     IN \/ /\ ~Owned(c, t)
           /\ down' = Answer(c, t) /\ UNCHANGED <<turn, fails, handler>>
        \/ /\ f.kind = "started" /\ Owned(c, t)
           /\ IF turn[t].answered = "no" /\ turn[t].life = "open"
              THEN turn' = [turn EXCEPT ![t].answered = "started"] /\ UNCHANGED down
              ELSE down' = Sent(down, c, Frame("cancel", t, 0)) /\ UNCHANGED turn
           /\ UNCHANGED <<fails, handler>>
        \/ /\ f.kind = "event" /\ Owned(c, t)
           /\ IF f.seq = turn[t].highest + 1
              THEN /\ turn' = [turn EXCEPT ![t].highest = f.seq]
                   /\ handler' = [handler EXCEPT ![c].held = {f}]
                   /\ UNCHANGED fails
              ELSE /\ fails' = fails \cup
                        Failing(IF f.seq > turn[t].highest THEN {t} ELSE {}, "failed", c)
                   /\ UNCHANGED <<turn, handler>>
           /\ UNCHANGED down
        \/ /\ f.kind = "finish" /\ Owned(c, t)
           /\ turn' = [turn EXCEPT ![t] = Closed(@)]
           /\ fails' = FailsBut(t)
           /\ UNCHANGED <<down, handler>>
        \/ /\ f.kind = "refuse" /\ Owned(c, t)
           /\ fails' = fails \cup Failing({t}, "failed", c)
           /\ UNCHANGED <<down, turn, handler>>
  /\ UNCHANGED <<sock, table, read, dev, exec>>

\* Deliver's push, after it has let go of the lock it counted under.
PushHeld(c) ==
  /\ \E f \in handler[c].held :
       turn' = [turn EXCEPT ![f.turn] = Push(@, Entry("event", f.seq))]
  /\ handler' = [handler EXCEPT ![c].held = {}]
  /\ UNCHANGED <<sock, up, down, table, fails, read, dev, exec>>

\* The read fails, with or without frames still in the socket; Connections.Detach.
Detach(c) ==
  /\ Reading(c) /\ sock[c] = "broken"
  /\ table' = IF table = c THEN 0 ELSE table
  /\ handler' = [handler EXCEPT ![c].at = IF table = c THEN "orphan" ELSE "done"]
  /\ up' = [up EXCEPT ![c] = <<>>]
  /\ UNCHANGED <<sock, down, turn, fails, read, dev, exec>>

-----------------------------------------------------------------------------
(* The network and the machine.                                            *)

Connect(c) ==
  /\ dev = 0 /\ sock[c] = "none" /\ \A d \in Conns : d < c => sock[d] # "none"
  /\ sock' = [sock EXCEPT ![c] = "up"]
  /\ dev' = c
  /\ handler' = [handler EXCEPT ![c].at = "hello"]
  /\ UNCHANGED <<up, down, table, turn, fails, read, exec>>

\* The network loses the connection, or a side closes it for a reason of its own.
Break(c) ==
  /\ sock[c] = "up"
  /\ sock' = [sock EXCEPT ![c] = "broken"]
  /\ UNCHANGED <<up, down, table, handler, turn, fails, read, dev, exec>>

\* RunOnce returns: the write path is taken away and the context of its turns ends.
DeviceNotices ==
  /\ dev # 0 /\ sock[dev] = "broken"
  /\ dev' = 0
  /\ down' = [down EXCEPT ![dev] = <<>>]
  /\ UNCHANGED <<sock, up, table, handler, turn, fails, read, exec>>

\* Executor.Handle, on the read loop: a dispatch is registered before its
\* goroutine exists, so a cancel behind it finds it.
Handled(f) ==
  IF f.kind = "dispatch"
  THEN IF exec[f.turn].at = "none"
       THEN [exec EXCEPT ![f.turn] = [NoExec EXCEPT !.at = "taken", !.conn = dev]]
       ELSE exec
  ELSE IF exec[f.turn].at \in {"none", "ended"} THEN exec
       ELSE [exec EXCEPT ![f.turn].stopped = TRUE]

DeviceReads ==
  /\ dev # 0 /\ down[dev] # <<>>
  /\ down' = [down EXCEPT ![dev] = Tail(@)]
  /\ exec' = Handled(Head(down[dev]))
  /\ UNCHANGED <<sock, up, table, handler, turn, fails, read, dev>>

LostConnection(t) == exec[t].conn # dev
ContextEnded(t) == exec[t].stopped \/ LostConnection(t)

\* Executor.send: the frame goes to the connection of the moment, under the
\* context of the turn.  "ok" is what the caller is told.
Write(t, f, ended, ok) ==
  IF dev = 0 THEN ~ok /\ UNCHANGED <<sock, up>>
  ELSE \/ /\ ~ok /\ (sock[dev] = "broken" \/ ended)
          /\ UNCHANGED <<sock, up>>
       \/ /\ ok /\ up' = Sent(up, dev, f)
          /\ UNCHANGED <<sock>>
       \/ /\ ended /\ sock[dev] = "up"
          /\ up' = IF ok THEN Sent(up, dev, f) ELSE up
          /\ sock' = [sock EXCEPT ![dev] = "broken"]

\* Executor.run, first thing: the machine says it has the turn.
Begin(t) ==
  /\ exec[t].at = "taken"
  /\ \E ok \in BOOLEAN : Write(t, Frame("started", t, 0), LostConnection(t), ok)
  /\ exec' = [exec EXCEPT ![t].at = "begun"]
  /\ UNCHANGED <<down, table, handler, turn, fails, read, dev>>

\* The directory, the agent or the permission mode is refused, or the agent
\* does not start.
Refuse(t) ==
  /\ exec[t].at = "begun"
  /\ \E ok \in BOOLEAN : Write(t, Frame("refuse", t, 0), LostConnection(t), ok)
  /\ exec' = [exec EXCEPT ![t] = Ended]
  /\ UNCHANGED <<down, table, handler, turn, fails, read, dev>>

StartAgent(t) ==
  /\ exec[t].at = "begun"
  /\ exec' = [exec EXCEPT ![t].at = "agent"]
  /\ UNCHANGED <<sock, up, down, table, handler, turn, fails, read, dev>>

\* An event of the agent; one that cannot be written ends the run.
Emit(t) ==
  /\ exec[t].at = "agent" /\ exec[t].sent < MaxEvents
  /\ \E ok \in BOOLEAN :
       /\ Write(t, Frame("event", t, exec[t].sent + 1), ContextEnded(t), ok)
       /\ exec' = IF ok THEN [exec EXCEPT ![t].sent = @ + 1] ELSE [exec EXCEPT ![t] = Ended]
  /\ UNCHANGED <<down, table, handler, turn, fails, read, dev>>

\* The agent is done, or is ended by its context.
AgentExits(t) ==
  /\ exec[t].at = "agent"
  /\ exec' = [exec EXCEPT ![t].at = "report"]
  /\ UNCHANGED <<sock, up, down, table, handler, turn, fails, read, dev>>

Report(t) ==
  /\ exec[t].at = "report"
  /\ \E ok \in BOOLEAN : Write(t, Frame("finish", t, 0), LostConnection(t), ok)
  /\ exec' = [exec EXCEPT ![t] = Ended]
  /\ UNCHANGED <<down, table, handler, turn, fails, read, dev>>

Next ==
  \/ \E t \in Turns :
       \/ GetConnection(t) \/ Open(t) \/ Dispatch(t) \/ EngineReads(t) \/ EngineCancels(t)
       \/ Grace(t) \/ CancelDevice(t) \/ Deadline(t)
       \/ Begin(t) \/ Refuse(t) \/ StartAgent(t) \/ Emit(t) \/ AgentExits(t) \/ Report(t)
  \/ \E f \in fails : Fail(f)
  \/ \E c \in Conns :
       \/ Connect(c) \/ Break(c) \/ Attach(c) \/ Abandon(c) \/ ClosePrevious(c)
       \/ HubReads(c) \/ PushHeld(c) \/ Detach(c)
  \/ DeviceNotices \/ DeviceReads

Spec == Init /\ [][Next]_vars

(* Every goroutine of the Hub and of the machine goes on, a broken socket  *)
(* is noticed, and an agent whose context has ended exits.  Nothing is     *)
(* owed by the engine's reader, by users, by an agent nobody has stopped,  *)
(* or by the network.                                                      *)
Starts(t) == Open(t) \/ Dispatch(t)
Runs(t) == \/ Begin(t) \/ Refuse(t) \/ StartAgent(t) \/ Report(t)
           \/ ContextEnded(t) /\ AgentExits(t)
Serves(c) == \/ Attach(c) \/ Abandon(c) \/ ClosePrevious(c)
             \/ HubReads(c) \/ PushHeld(c) \/ Detach(c)

Fairness ==
  /\ \A t \in Turns :
       /\ WF_vars(Starts(t)) /\ WF_vars(Deadline(t)) /\ WF_vars(Runs(t))
       /\ WF_vars(Grace(t)) /\ WF_vars(CancelDevice(t))
       /\ WF_vars(\E f \in fails : f.turn = t /\ Fail(f))
  /\ \A c \in Conns : WF_vars(Serves(c))
  /\ WF_vars(DeviceNotices \/ DeviceReads)
FairSpec == Spec /\ Fairness

-----------------------------------------------------------------------------
(* Properties.                                                             *)

Transcript(t) == read[t] \o turn[t].buf
Told(t, why) == \E i \in 1 .. Len(Transcript(t)) : Transcript(t)[i].why = why
SeqMax(S, n) == UNION {[1 .. k -> S] : k \in 0 .. n}
Entries == [why : Reasons, seq : 0 .. MaxEvents]
Frames == [kind : {"started", "event", "finish", "refuse", "dispatch", "cancel"},
           turn : Turns, seq : 0 .. MaxEvents]

\* The state keeps its types, a connection is numbered below the bound, a buffer
\* never holds more than it has room for, and a handler holds one event at most.
TypeOK ==
  /\ sock \in [Conns -> {"none", "up", "broken"}]
  /\ table \in 0 .. MaxConns /\ dev \in 0 .. MaxConns
  /\ \A c \in Conns :
       /\ \A i \in 1 .. Len(up[c]) : up[c][i] \in Frames
       /\ \A i \in 1 .. Len(down[c]) : down[c][i] \in Frames
       /\ handler[c].at \in {"none", "hello", "displace", "close", "read", "orphan", "done"}
       /\ handler[c].prev \in 0 .. MaxConns
       /\ handler[c].held \subseteq Frames /\ Cardinality(handler[c].held) <= 1
  /\ turn \in [Turns -> [start : {"idle", "got", "opened", "running", "failed"},
                         gen : 0 .. MaxConns, life : {"none", "open", "closing", "over"},
                         answered : {"no", "started", "gaveUp"}, over : BOOLEAN,
                         grace : BOOLEAN, cancel : BOOLEAN, highest : 0 .. MaxEvents,
                         buf : SeqMax(Entries, Room)]]
  /\ fails \subseteq [turn : Turns, why : Reasons, by : 0 .. MaxConns, at : {"push", "close"}]
  /\ exec \in [Turns -> [at : {"none", "taken", "begun", "agent", "report", "ended"},
                         conn : 0 .. MaxConns, stopped : BOOLEAN, sent : 0 .. MaxEvents]]

\* The numbers of the events in a transcript, and that they are in order.
Numbers(s) == {s[i].seq : i \in {j \in 1 .. Len(s) : s[j].why = "event"}}
Increasing(s) ==
  \A i, j \in 1 .. Len(s) :
    i < j /\ s[i].why = "event" /\ s[j].why = "event" => s[i].seq < s[j].seq

\* The n-th event of a transcript is the n-th event of the agent, whatever overflows,
\* breaks or ends in between.  (A reason may stand between two of them: see README.md.)
NoHoles ==
  \A t \in Turns :
    /\ Increasing(Transcript(t))
    /\ \E n \in 0 .. MaxEvents : Numbers(Transcript(t)) = 1 .. n

\* "It must not silently drop anything either - a lost event is a hole in the
\* transcript" (turns.go:82-85): as long as a turn takes events, every event that was
\* counted is in the transcript, but for the one its handler has in hand.
InHand(t) == \E f \in handler[turn[t].gen].held : f.turn = t
NothingDropped ==
  \A t \in Turns :
    turn[t].life = "open" /\ ~turn[t].over =>
      Numbers(Transcript(t)) =
        1 .. (IF InHand(t) THEN turn[t].highest - 1 ELSE turn[t].highest)

\* A turn fails for a connection's end only if that connection is the one it was
\* dispatched on: the machine's next connection and its turns are left alone
\* (turns.go:335-337).
OwnConnectionEnded ==
  \A t \in Turns :
    Told(t, "gone") \/ (\E f \in fails : f.turn = t /\ f.why = "gone")
      => turn[t].gen # table

\* What a transcript says of its turn is true: it has no hole, no event is missing at
\* its end, and it does not blame a connection the turn did not run on.
TranscriptHolds == NoHoles /\ NothingDropped /\ OwnConnectionEnded

\* The connection of the turn broke, the deadline of its start passed, or the Hub is
\* done with it.
Condemned(t) ==
  /\ turn[t].life # "none"
  /\ sock[turn[t].gen] = "broken" \/ turn[t].answered = "gaveUp" \/ turn[t].life # "open"

\* Whichever side falls silent, a turn ends on both: on the Hub when its connection
\* breaks, also when it was being dispatched at that moment, and when the machine does
\* not answer in time; and on the machine, whose agent does not work on for a Hub
\* that is done with the turn (turns.go:17, 435-441, api/node.go:247-251).
BothSidesEnd ==
  \A t \in Turns :
    Condemned(t) ~> (turn[t].life = "over" /\ exec[t].at \in {"none", "ended"})

-----------------------------------------------------------------------------
(* What the channel does not keep (see README.md): BothSidesEnd, once      *)
(* LateAttach is TRUE, and:                                                *)

\* One turn does not "take the whole connection down with it" (turns.go:386-390): what
\* the machine does for a turn never breaks a connection other turns are running on.
OthersUnharmed ==
  [][\A t, u \in Turns :
       exec'[t] # exec[t] /\ exec[u].at = "agent" /\ exec[u].conn = dev /\ u # t
         => sock' = sock]_vars
=============================================================================

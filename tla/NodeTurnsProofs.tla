-------------------------- MODULE NodeTurnsProofs ---------------------------
(***************************************************************************)
(* Theorems about NodeTurns, for any number of turns, connections and      *)
(* events and every size of the buffer, whatever the order in which the    *)
(* Hub's handlers attach: a transcript has no hole, and a turn fails for   *)
(* the end of no connection but its own.                                   *)
(***************************************************************************)
EXTENDS NodeTurns, TLAPS, FiniteSetTheorems, SequenceTheorems

(***************************************************************************)
(* The inductive invariant                                                 *)
(***************************************************************************)

Handlers == [at : {"none", "hello", "displace", "close", "read", "orphan", "done"},
             prev : 0 .. MaxConns, held : SUBSET Frames]
HubTurns == [start : {"idle", "got", "opened", "running", "failed"}, gen : 0 .. MaxConns,
             life : {"none", "open", "closing", "over"},
             answered : {"no", "started", "gaveUp"}, over : BOOLEAN, grace : BOOLEAN,
             cancel : BOOLEAN, highest : 0 .. MaxEvents, buf : Seq(Entries)]
Failures == [turn : Turns, why : Reasons \ {"event"}, by : 0 .. MaxConns,
             at : {"push", "close"}]
Execs    == [at : {"none", "taken", "begun", "agent", "report", "ended"},
             conn : 0 .. MaxConns, stopped : BOOLEAN, sent : 0 .. MaxEvents]

\* The types, with queues and transcripts as sequences.
SocketTypes == sock \in [Conns -> {"none", "up", "broken"}]
TableTypes  == table \in 0 .. MaxConns /\ dev \in 0 .. MaxConns
UpTypes     == up \in [Conns -> Seq(Frames)]
DownTypes   == down \in [Conns -> Seq(Frames)]
TurnTypes   == turn \in [Turns -> HubTurns]
FailTypes   == fails \subseteq Failures
ReadTypes   == read \in [Turns -> Seq(Entries)]
ExecTypes   == exec \in [Turns -> Execs]
HandlerTypes ==
  /\ handler \in [Conns -> Handlers]
  /\ \A c \in Conns : handler[c].held = {} \/ \E f \in Frames : handler[c].held = {f}
RoomInv == \A t \in Turns : Len(turn[t].buf) <= Room

\* A handler that has said hello never does again, so a connection that was taken
\* off the table is never put back on it.
ConnInv ==
  /\ \A c \in Conns :
       /\ sock[c] = "none" => handler[c].at = "none"
       /\ handler[c].at = "displace" =>
            /\ handler[c].prev \in Conns /\ handler[c].prev # table
            /\ handler[handler[c].prev].at \notin {"none", "hello"}
       /\ handler[c].at = "orphan" => c # table
  /\ table # 0 => handler[table].at \in {"displace", "close", "read"}

\* A turn that is not open yet has nothing; one that is has the connection it was
\* dispatched on for good.
OpenInv ==
  \A t \in Turns :
    /\ turn[t].start \in {"idle", "got"} <=> turn[t].life = "none"
    /\ turn[t].start # "idle" =>
         turn[t].gen \in Conns /\ handler[turn[t].gen].at \notin {"none", "hello"}
    /\ turn[t].life = "none" =>
         /\ turn[t].highest = 0 /\ turn[t].buf = <<>> /\ read[t] = <<>>
         /\ ~turn[t].over /\ ~turn[t].grace
         /\ \A f \in fails : f.turn # t

\* The event a handler has counted is the newest of a turn of its connection.
HeldInv ==
  \A c \in Conns : \A f \in handler[c].held :
    /\ turn[f.turn].life # "none" /\ turn[f.turn].gen = c
    /\ turn[f.turn].highest = f.seq /\ f.seq # 0

IInv ==
  /\ SocketTypes /\ TableTypes /\ UpTypes /\ DownTypes /\ TurnTypes /\ FailTypes /\ ReadTypes
  /\ ExecTypes /\ HandlerTypes /\ RoomInv /\ ConnInv /\ OpenInv /\ HeldInv /\ NothingDropped
  /\ NoHoles /\ OwnConnectionEnded

-----------------------------------------------------------------------------
(***************************************************************************)
(* Lemmas about transcripts and about the operators on a turn              *)
(***************************************************************************)

\* An entry is put at the end of what the engine has read and not yet read.
LEMMA AppendToTranscript ==
  ASSUME NEW s \in Seq(Entries), NEW q \in Seq(Entries), NEW e \in Entries
  PROVE  /\ s \o q \in Seq(Entries) /\ s \o Append(q, e) \in Seq(Entries)
         /\ Len(s \o Append(q, e)) = Len(s \o q) + 1
         /\ \A i \in 1 .. Len(s \o q) : (s \o Append(q, e))[i] = (s \o q)[i]
         /\ (s \o Append(q, e))[Len(s \o q) + 1] = e
<1>1. /\ Append(q, e) \in Seq(Entries) /\ Len(Append(q, e)) = Len(q) + 1
      /\ \A i \in 1 .. Len(q) : Append(q, e)[i] = q[i]
      /\ Append(q, e)[Len(q) + 1] = e
  OBVIOUS
<1>2. /\ s \o q \in Seq(Entries) /\ Len(s \o q) = Len(s) + Len(q)
      /\ \A i \in 1 .. Len(s) + Len(q) :
           (s \o q)[i] = IF i <= Len(s) THEN s[i] ELSE q[i - Len(s)]
  OBVIOUS
<1>3. /\ s \o Append(q, e) \in Seq(Entries) /\ Len(s \o Append(q, e)) = Len(s) + Len(q) + 1
      /\ \A i \in 1 .. Len(s) + Len(q) + 1 :
           (s \o Append(q, e))[i] = IF i <= Len(s) THEN s[i] ELSE Append(q, e)[i - Len(s)]
  BY <1>1
<1>4. Len(s) \in Nat /\ Len(q) \in Nat OBVIOUS
<1>5. \A i \in 1 .. Len(s) + Len(q) : (s \o Append(q, e))[i] = (s \o q)[i]
  BY <1>1, <1>2, <1>3, <1>4
<1>6. (s \o Append(q, e))[Len(s) + Len(q) + 1] = e BY <1>1, <1>3, <1>4
<1> QED BY <1>2, <1>3, <1>5, <1>6

\* A reason at the end of a transcript leaves its events as they are; an event whose
\* number exceeds all the others adds its number, in order.
LEMMA AppendNumbers ==
  ASSUME NEW s \in Seq(Entries), NEW q \in Seq(Entries), NEW e \in Entries, Increasing(s \o q),
         e.why = "event" => \A n \in Numbers(s \o q) : n < e.seq
  PROVE  /\ Increasing(s \o Append(q, e))
         /\ Numbers(s \o Append(q, e)) =
              IF e.why = "event" THEN Numbers(s \o q) \cup {e.seq} ELSE Numbers(s \o q)
<1> DEFINE a == s \o q  b == s \o Append(q, e)
<1>1. /\ a \in Seq(Entries) /\ b \in Seq(Entries) /\ Len(b) = Len(a) + 1
      /\ \A i \in 1 .. Len(a) : b[i] = a[i]
      /\ b[Len(a) + 1] = e
  BY AppendToTranscript
<1>2. Increasing(a) /\ (e.why = "event" => \A n \in Numbers(a) : n < e.seq) OBVIOUS
<1> HIDE DEF a, b
<1>3. Len(a) \in Nat BY <1>1
<1>4. Increasing(b)
  <2> SUFFICES ASSUME NEW i \in 1 .. Len(b), NEW j \in 1 .. Len(b), i < j,
                      b[i].why = "event", b[j].why = "event"
               PROVE  b[i].seq < b[j].seq
    BY DEF Increasing
  <2>1. i \in 1 .. Len(a) BY <1>1, <1>3
  <2>2. b[i] = a[i] BY <1>1, <2>1
  <2>3. CASE j \in 1 .. Len(a) BY <1>1, <1>2, <2>1, <2>2, <2>3 DEF Increasing
  <2>4. CASE j = Len(a) + 1
    <3>1. a[i].seq \in Numbers(a) BY <2>1, <2>2 DEF Numbers
    <3>2. b[j] = e BY <1>1, <2>4
    <3> QED BY <1>2, <2>2, <3>1, <3>2
  <2>5. j \in 1 .. Len(a) + 1 BY <1>1
  <2>6. j \in 1 .. Len(a) \/ j = Len(a) + 1 BY <1>3, <2>5
  <2> QED BY <2>3, <2>4, <2>6
<1>5. Numbers(b) = IF e.why = "event" THEN Numbers(a) \cup {e.seq} ELSE Numbers(a)
  <2>1. \A i \in 1 .. Len(b) : i \in 1 .. Len(a) \/ i = Len(a) + 1 BY <1>1, <1>3
  <2>2. 1 .. Len(a) \subseteq 1 .. Len(b) /\ Len(a) + 1 \in 1 .. Len(b) BY <1>1, <1>3
  <2>3. \A n : n \in Numbers(b) <=> \E i \in 1 .. Len(b) : b[i].why = "event" /\ n = b[i].seq
    BY DEF Numbers
  <2>4. \A n : n \in Numbers(a) <=> \E i \in 1 .. Len(a) : a[i].why = "event" /\ n = a[i].seq
    BY DEF Numbers
  <2>5. \A n : n \in Numbers(b) <=> n \in Numbers(a) \/ (e.why = "event" /\ n = e.seq)
    <3> SUFFICES ASSUME NEW n
                 PROVE  n \in Numbers(b) <=> n \in Numbers(a) \/ (e.why = "event" /\ n = e.seq)
      OBVIOUS
    <3>1. ASSUME n \in Numbers(b) PROVE n \in Numbers(a) \/ (e.why = "event" /\ n = e.seq)
      <4>1. PICK i \in 1 .. Len(b) : b[i].why = "event" /\ n = b[i].seq BY <2>3, <3>1
      <4>2. CASE i \in 1 .. Len(a) BY <1>1, <2>4, <4>1, <4>2
      <4>3. CASE i = Len(a) + 1 BY <1>1, <4>1, <4>3
      <4> QED BY <2>1, <4>2, <4>3
    <3>2. ASSUME n \in Numbers(a) PROVE n \in Numbers(b)
      <4>1. PICK i \in 1 .. Len(a) : a[i].why = "event" /\ n = a[i].seq BY <2>4, <3>2
      <4>2. i \in 1 .. Len(b) /\ b[i] = a[i] BY <1>1, <2>2
      <4> QED BY <2>3, <4>1, <4>2
    <3>3. ASSUME e.why = "event", n = e.seq PROVE n \in Numbers(b)
      BY <1>1, <2>2, <2>3, <3>3
    <3> QED BY <3>1, <3>2, <3>3
  <2> QED BY <2>5
<1> QED BY <1>4, <1>5 DEF a, b

\* The engine's read moves an entry within the transcript and leaves it as it is.
LEMMA ReadKeepsTranscript ==
  ASSUME NEW s \in Seq(Entries), NEW q \in Seq(Entries), q # <<>>
  PROVE  /\ Append(s, Head(q)) \in Seq(Entries) /\ Tail(q) \in Seq(Entries)
         /\ Len(Tail(q)) = Len(q) - 1
         /\ Append(s, Head(q)) \o Tail(q) = s \o q
<1>1. /\ Head(q) = q[1] /\ Head(q) \in Entries /\ Tail(q) \in Seq(Entries)
      /\ Len(q) \in Nat \ {0} /\ Len(Tail(q)) = Len(q) - 1
      /\ \A i \in 1 .. Len(q) - 1 : Tail(q)[i] = q[i + 1]
  OBVIOUS
<1>2. /\ Append(s, Head(q)) \in Seq(Entries) /\ Len(s) \in Nat
      /\ Len(Append(s, Head(q))) = Len(s) + 1
      /\ \A i \in 1 .. Len(s) : Append(s, Head(q))[i] = s[i]
      /\ Append(s, Head(q))[Len(s) + 1] = q[1]
  BY <1>1
<1> DEFINE a == Append(s, Head(q))  b == Tail(q)
<1>3. /\ s \o q \in Seq(Entries) /\ Len(s \o q) = Len(s) + Len(q)
      /\ \A i \in 1 .. Len(s) + Len(q) :
           (s \o q)[i] = IF i <= Len(s) THEN s[i] ELSE q[i - Len(s)]
  OBVIOUS
<1>a. /\ a \in Seq(Entries) /\ b \in Seq(Entries) /\ Len(a) = Len(s) + 1
      /\ Len(b) = Len(q) - 1
      /\ \A i \in 1 .. Len(s) : a[i] = s[i]
      /\ a[Len(s) + 1] = q[1] /\ \A i \in 1 .. Len(q) - 1 : b[i] = q[i + 1]
  BY <1>1, <1>2
<1> HIDE DEF a, b
<1>4. /\ a \o b \in Seq(Entries) /\ Len(a \o b) = Len(a) + Len(b)
      /\ \A i \in 1 .. Len(a) + Len(b) : (a \o b)[i] = IF i <= Len(a) THEN a[i] ELSE b[i - Len(a)]
  BY <1>a, ConcatProperties
<1>5. Len(a \o b) = Len(s \o q) BY <1>1, <1>2, <1>3, <1>4, <1>a
<1>6. \A i \in 1 .. Len(s \o q) : (a \o b)[i] = (s \o q)[i]
  <2> SUFFICES ASSUME NEW i \in 1 .. Len(s) + Len(q) PROVE (a \o b)[i] = (s \o q)[i]
    BY <1>3
  <2>1. (a \o b)[i] = IF i <= Len(s) + 1 THEN a[i] ELSE b[i - (Len(s) + 1)]
    BY <1>1, <1>2, <1>4, <1>a
  <2>2. (s \o q)[i] = IF i <= Len(s) THEN s[i] ELSE q[i - Len(s)] BY <1>3
  <2>3. CASE i <= Len(s) BY <2>1, <2>2, <2>3, <1>a, <1>2
  <2>4. CASE i = Len(s) + 1
    <3>1. (a \o b)[i] = q[1] BY <2>1, <2>4, <1>a, <1>2
    <3>2. (s \o q)[i] = q[1] BY <2>2, <2>4, <1>2
    <3> QED BY <3>1, <3>2
  <2>5. CASE i > Len(s) + 1
    <3>1. i - (Len(s) + 1) \in 1 .. Len(q) - 1 /\ (i - (Len(s) + 1)) + 1 = i - Len(s)
      BY <2>5, <1>1, <1>2
    <3>2. (a \o b)[i] = b[i - (Len(s) + 1)] BY <2>1, <2>5, <1>2
    <3>3. b[i - (Len(s) + 1)] = q[i - Len(s)] BY <1>a, <3>1
    <3>4. (s \o q)[i] = q[i - Len(s)] BY <2>2, <2>5, <1>2
    <3> QED BY <3>2, <3>3, <3>4
  <2>6. i \in Nat /\ (i <= Len(s) \/ i = Len(s) + 1 \/ i > Len(s) + 1) BY <1>1, <1>2
  <2> QED BY <2>3, <2>4, <2>5, <2>6
<1>7. a \o b = s \o q BY <1>3, <1>4, <1>5, <1>6, SeqEqual
<1> QED BY <1>1, <1>2, <1>7 DEF a, b

\* Turns.push adds an entry to a turn that takes events, and leaves any other alone.
LEMMA PushKeeps ==
  ASSUME NEW tr \in HubTurns, Len(tr.buf) <= Room, NEW e \in Entries
  PROVE  /\ Push(tr, e) \in HubTurns /\ Len(Push(tr, e).buf) <= Room
         /\ Push(tr, e).start = tr.start /\ Push(tr, e).gen = tr.gen
         /\ Push(tr, e).life = tr.life /\ Push(tr, e).highest = tr.highest
         /\ tr.life # "open" => Push(tr, e) = tr
         /\ \/ Push(tr, e).buf = tr.buf /\ (tr.life # "open" \/ Push(tr, e).over)
            \/ /\ tr.life = "open" /\ ~tr.over /\ ~Push(tr, e).over
               /\ Push(tr, e).buf = Append(tr.buf, e)
<1> USE NodeAssumption
<1>1. CASE tr.life # "open" \/ tr.over BY <1>1 DEF Push
<1>2. CASE tr.life = "open" /\ ~tr.over /\ Len(tr.buf) < Room
  <2> DEFINE new == [tr EXCEPT !.buf = Append(@, e)]
  <2>1. Append(tr.buf, e) \in Seq(Entries) /\ Len(Append(tr.buf, e)) <= Room
    BY <1>2 DEF HubTurns
  <2>2. new \in HubTurns BY <2>1 DEF HubTurns
  <2>3. /\ new.buf = Append(tr.buf, e) /\ new.start = tr.start /\ new.gen = tr.gen
        /\ new.life = tr.life /\ new.highest = tr.highest /\ new.over = tr.over
    BY DEF HubTurns
  <2>4. Push(tr, e) = new BY <1>2 DEF Push
  <2> HIDE DEF new
  <2> QED BY <1>2, <2>1, <2>2, <2>3, <2>4
<1>3. CASE tr.life = "open" /\ ~tr.over /\ ~(Len(tr.buf) < Room)
  <2> DEFINE new == [tr EXCEPT !.over = TRUE, !.grace = TRUE, !.cancel = TRUE]
  <2>1. /\ new \in HubTurns /\ new.over
        /\ new.buf = tr.buf /\ new.start = tr.start /\ new.gen = tr.gen
        /\ new.life = tr.life /\ new.highest = tr.highest
    BY DEF HubTurns
  <2>2. Push(tr, e) = new BY <1>3 DEF Push
  <2> HIDE DEF new
  <2> QED BY <1>3, <2>1, <2>2
<1> QED BY <1>1, <1>2, <1>3

\* Turns.close ends a turn that is open and changes nothing else of it.
LEMMA ClosedKeeps ==
  ASSUME NEW tr \in HubTurns
  PROVE  /\ Closed(tr) \in HubTurns /\ Closed(tr).life # "open"
         /\ Closed(tr).life = "none" <=> tr.life = "none"
         /\ tr.life # "open" => Closed(tr) = tr
         /\ Closed(tr).start = tr.start /\ Closed(tr).gen = tr.gen /\ Closed(tr).buf = tr.buf
         /\ Closed(tr).highest = tr.highest /\ Closed(tr).over = tr.over
         /\ Closed(tr).grace = tr.grace
BY DEF Closed, HubTurns

\* What a write leaves in a socket is a queue of frames.
LEMMA SentKeeps ==
  ASSUME NEW q \in [Conns -> Seq(Frames)], NEW c, NEW f \in Frames
  PROVE  Sent(q, c, f) \in [Conns -> Seq(Frames)]
<1>1. \A d \in Conns : Append(q[d], f) \in Seq(Frames) OBVIOUS
<1> QED BY <1>1 DEF Sent

\* A turn of the machine writes a frame, or breaks the socket.
LEMMA WriteKeeps ==
  ASSUME SocketTypes, UpTypes, NEW t, NEW f \in Frames, NEW ended \in BOOLEAN,
         NEW ok \in BOOLEAN, Write(t, f, ended, ok)
  PROVE  /\ SocketTypes' /\ UpTypes'
         /\ \A c \in Conns : sock'[c] = "none" => sock[c] = "none"
<1>1. Sent(up, dev, f) \in [Conns -> Seq(Frames)] BY SentKeeps DEF UpTypes
<1>2. UpTypes' BY <1>1 DEF Write, UpTypes
<1>3. sock' = sock \/ sock' = [sock EXCEPT ![dev] = "broken"] BY DEF Write
<1> QED BY <1>2, <1>3 DEF SocketTypes

\* A transcript without an entry tells nothing.
LEMMA NothingTold ==
  ASSUME NEW t \in Turns, NEW why, read[t] = <<>>, turn[t].buf = <<>>
  PROVE  Len(Transcript(t)) = 0 /\ ~Told(t, why)
BY DEF Transcript, Told

\* A step on one turn that leaves its transcript and its count alone.
LEMMA QuietTurn ==
  ASSUME IInv, NEW t \in Turns, NEW new \in HubTurns,
         turn' = [turn EXCEPT ![t] = new], UNCHANGED <<handler, read, table>>,
         new.buf = turn[t].buf, new.highest = turn[t].highest, new.over <=> turn[t].over,
         new.grace => turn[t].grace,
         new.start \in {"idle", "got"} <=> new.life = "none",
         turn[t].life # "none" => new.life # "none" /\ new.gen = turn[t].gen,
         new.life = "open" => turn[t].life \in {"open", "none"},
         new.start # "idle" => new.gen \in Conns /\ handler[new.gen].at \notin {"none", "hello"},
         \A f \in fails' : f \in fails \/ (f.turn = t /\ f.why # "gone" /\ new.life # "none")
  PROVE  /\ TurnTypes' /\ RoomInv' /\ OpenInv' /\ HeldInv' /\ NothingDropped' /\ NoHoles'
         /\ OwnConnectionEnded'
<1>1. turn'[t] = new /\ \A u \in Turns : u # t => turn'[u] = turn[u]
  BY DEF IInv, TurnTypes
<1>2. TurnTypes' /\ RoomInv'
  BY <1>1 DEF IInv, TurnTypes, RoomInv
<1>3. \A u \in Turns : turn'[u].buf = turn[u].buf /\ turn'[u].highest = turn[u].highest
  BY <1>1
<1>a. \A u \in Turns : Transcript(u)' = Transcript(u) BY <1>3 DEF Transcript
<1>4. OpenInv' BY <1>1 DEF IInv, OpenInv, HubTurns
<1>5. HeldInv'
  <2> SUFFICES ASSUME NEW c \in Conns, NEW f \in handler[c].held
               PROVE  turn'[f.turn].life # "none" /\ turn'[f.turn].gen = c
                      /\ turn'[f.turn].highest = f.seq /\ f.seq # 0
    BY DEF HeldInv
  <2>1. f.turn \in Turns BY DEF IInv, HandlerTypes, Handlers, Frames
  <2>2. turn[f.turn].life # "none" /\ turn[f.turn].gen = c /\ turn[f.turn].highest = f.seq
        /\ f.seq # 0
    BY DEF IInv, HeldInv
  <2> QED BY <1>1, <2>1, <2>2
<1>6. NothingDropped'
  <2> SUFFICES ASSUME NEW u \in Turns, turn'[u].life = "open", ~turn'[u].over
               PROVE  Numbers(Transcript(u)) =
                        1 .. (IF \E f \in handler[turn'[u].gen].held : f.turn = u
                              THEN turn[u].highest - 1 ELSE turn[u].highest)
    BY <1>3, <1>a DEF NothingDropped, InHand
  <2>1. CASE u = t /\ turn[t].life = "none"
    <3>1. turn[t].highest = 0 /\ turn[t].buf = <<>> /\ read[t] = <<>>
      BY <2>1 DEF IInv, OpenInv
    <3>2. Numbers(Transcript(t)) = {} BY <3>1, NothingTold DEF Numbers
    <3>3. new.start # "idle" BY <1>1, <2>1
    <3>4. \A f \in handler[new.gen].held : f.turn # t
      BY <2>1, <3>3 DEF IInv, HeldInv
    <3> QED BY <1>1, <2>1, <3>1, <3>2, <3>4
  <2>2. CASE ~(u = t /\ turn[t].life = "none")
    <3>1. turn[u].life = "open" /\ ~turn[u].over /\ turn'[u].gen = turn[u].gen
      BY <1>1, <2>2
    <3> QED BY <3>1 DEF IInv, NothingDropped, InHand
  <2> QED BY <2>1, <2>2
<1>7. NoHoles' BY <1>3, ZenonT(40) DEF IInv, NoHoles, Transcript
<1>8. OwnConnectionEnded'
  <2> SUFFICES ASSUME NEW u \in Turns,
                      Told(u, "gone") \/ (\E f \in fails' : f.turn = u /\ f.why = "gone")
               PROVE  turn'[u].gen # table
    BY <1>a DEF OwnConnectionEnded, Told
  <2>1. Told(u, "gone") \/ (\E f \in fails : f.turn = u /\ f.why = "gone") OBVIOUS
  <2>2. turn[u].gen # table BY <2>1 DEF IInv, OwnConnectionEnded
  <2>3. turn[u].life # "none"
    BY <2>1, NothingTold DEF IInv, OpenInv
  <2> QED BY <1>1, <2>2, <2>3
<1> QED BY <1>2, <1>4, <1>5, <1>6, <1>7, <1>8

\* Handlers move on, turns and what they hold of them stay.
LEMMA HandlersMove ==
  ASSUME IInv, UNCHANGED <<turn, read>>,
         \A c \in Conns :
           /\ handler'[c].held = handler[c].held
           /\ handler[c].at \notin {"none", "hello"} => handler'[c].at \notin {"none", "hello"},
         \A f \in fails' : f \in fails \/ turn[f.turn].life # "none"
  PROVE  TurnTypes' /\ RoomInv' /\ OpenInv' /\ HeldInv' /\ NothingDropped' /\ NoHoles' /\ ReadTypes'
<1>1. TurnTypes' /\ RoomInv' /\ ReadTypes' BY DEF IInv, TurnTypes, RoomInv, ReadTypes
<1>2. OpenInv' BY DEF IInv, OpenInv
<1>3. HeldInv' BY DEF IInv, HeldInv
<1>4. NoHoles' BY DEF IInv, NoHoles, Transcript
<1>5. NothingDropped'
  <2> SUFFICES ASSUME NEW u \in Turns, turn[u].life = "open", ~turn[u].over
               PROVE  Numbers(Transcript(u)) =
                        1 .. (IF \E f \in handler'[turn[u].gen].held : f.turn = u
                              THEN turn[u].highest - 1 ELSE turn[u].highest)
    BY DEF NothingDropped, Transcript, InHand
  <2>1. turn[u].gen \in Conns BY DEF IInv, OpenInv
  <2> QED BY <2>1 DEF IInv, NothingDropped, InHand
<1> QED BY <1>1, <1>2, <1>3, <1>4, <1>5

\* A turn gets a reason at most, which is no event and does not blame the connection on
\* the table.
LEMMA ReasonKeeps ==
  ASSUME IInv, NEW t \in Turns, NEW new \in HubTurns, NEW e \in Entries,
         turn' = [turn EXCEPT ![t] = new], UNCHANGED <<handler, read, table>>,
         \A f \in fails' : \E g \in fails : f.turn = g.turn /\ f.why = g.why,
         turn[t].life # "none", new.life # "none", Len(new.buf) <= Room,
         new.life = "open" => turn[t].life = "open" /\ (turn[t].over => new.over),
         new.start = turn[t].start, new.gen = turn[t].gen, new.highest = turn[t].highest,
         new.buf = turn[t].buf \/ new.buf = Append(turn[t].buf, e),
         e.why # "event", e.why = "gone" => turn[t].gen # table
  PROVE  /\ TurnTypes' /\ RoomInv' /\ OpenInv' /\ HeldInv' /\ NothingDropped' /\ NoHoles'
         /\ OwnConnectionEnded'
<1>1. turn'[t] = new /\ \A u \in Turns : u # t => turn'[u] = turn[u]
  BY DEF IInv, TurnTypes
<1>2. TurnTypes' /\ RoomInv' BY <1>1 DEF IInv, TurnTypes, RoomInv
<1>3. OpenInv'
  <2> SUFFICES ASSUME NEW u \in Turns
               PROVE  /\ turn'[u].start \in {"idle", "got"} <=> turn'[u].life = "none"
                      /\ turn'[u].start # "idle" =>
                           turn'[u].gen \in Conns /\ handler[turn'[u].gen].at \notin {"none",
                             "hello"}
                      /\ turn'[u].life = "none" =>
                           /\ turn'[u].highest = 0 /\ turn'[u].buf = <<>> /\ read[u] = <<>>
                           /\ ~turn'[u].over /\ ~turn'[u].grace
                           /\ \A f \in fails' : f.turn # u
    BY DEF OpenInv
  <2>1. CASE u = t BY <1>1, <2>1 DEF IInv, OpenInv
  <2>2. CASE u # t BY <1>1, <2>2 DEF IInv, OpenInv
  <2> QED BY <2>1, <2>2
<1>4. HeldInv'
  <2> SUFFICES ASSUME NEW c \in Conns, NEW f \in handler[c].held
               PROVE  turn'[f.turn].life # "none" /\ turn'[f.turn].gen = c
                      /\ turn'[f.turn].highest = f.seq /\ f.seq # 0
    BY DEF HeldInv
  <2>1. f.turn \in Turns BY DEF IInv, HandlerTypes, Handlers, Frames
  <2>2. turn[f.turn].life # "none" /\ turn[f.turn].gen = c /\ turn[f.turn].highest = f.seq
        /\ f.seq # 0
    BY DEF IInv, HeldInv
  <2> QED BY <1>1, <2>1, <2>2
<1>5. \A u \in Turns : u # t => Transcript(u)' = Transcript(u) BY <1>1 DEF Transcript
<1>6. Transcript(t)' = read[t] \o new.buf BY <1>1 DEF Transcript
<1>7. turn[t].buf \in Seq(Entries) /\ read[t] \in Seq(Entries)
  BY DEF IInv, TurnTypes, HubTurns, ReadTypes
<1>8. /\ Transcript(t) \in Seq(Entries) /\ read[t] \o Append(turn[t].buf, e) \in Seq(Entries)
      /\ Len(read[t] \o Append(turn[t].buf, e)) = Len(Transcript(t)) + 1
      /\ \A i \in 1 .. Len(Transcript(t)) :
           (read[t] \o Append(turn[t].buf, e))[i] = Transcript(t)[i]
      /\ (read[t] \o Append(turn[t].buf, e))[Len(Transcript(t)) + 1] = e
  BY <1>7, AppendToTranscript DEF Transcript
<1>9. \A u \in Turns : \A i \in 1 .. Len(Transcript(u)') :
        \/ i \in 1 .. Len(Transcript(u)) /\ Transcript(u)'[i] = Transcript(u)[i]
        \/ u = t /\ Transcript(u)'[i] = e
  <2> SUFFICES ASSUME NEW u \in Turns, NEW i \in 1 .. Len(Transcript(u)'),
                      Transcript(u)' # Transcript(u)
               PROVE  \/ i \in 1 .. Len(Transcript(u)) /\ Transcript(u)'[i] = Transcript(u)[i]
                      \/ u = t /\ Transcript(u)'[i] = e
    OBVIOUS
  <2>1. u = t BY <1>5
  <2>2. Transcript(t)' = read[t] \o Append(turn[t].buf, e) BY <1>6, <2>1 DEF Transcript
  <2>3. Len(Transcript(t)) \in Nat BY <1>8
  <2>4. i \in 1 .. Len(Transcript(t)) \/ i = Len(Transcript(t)) + 1
    <3>1. i \in 1 .. Len(Transcript(t)) + 1 BY <1>8, <2>1, <2>2
    <3> QED BY <2>3, <3>1
  <2> QED BY <1>8, <2>1, <2>2, <2>4
<1>b. /\ Numbers(Transcript(t)') = Numbers(Transcript(t))
      /\ Increasing(Transcript(t)')
  <2>1. Increasing(Transcript(t)) BY DEF IInv, NoHoles
  <2>2. CASE new.buf = turn[t].buf BY <1>6, <2>1, <2>2 DEF Transcript
  <2>3. CASE new.buf = Append(turn[t].buf, e)
    <3>1. Increasing(read[t] \o turn[t].buf) BY <2>1 DEF Transcript
    <3>2. /\ Increasing(read[t] \o Append(turn[t].buf, e))
          /\ Numbers(read[t] \o Append(turn[t].buf, e)) = Numbers(read[t] \o turn[t].buf)
      BY <1>7, <3>1, AppendNumbers
    <3> QED BY <1>6, <2>3, <3>2 DEF Transcript
  <2> QED BY <2>2, <2>3
<1>10. NothingDropped'
  <2> SUFFICES ASSUME NEW u \in Turns, turn'[u].life = "open", ~turn'[u].over
               PROVE  Numbers(Transcript(u)') =
                        1 .. (IF \E f \in handler[turn'[u].gen].held : f.turn = u
                              THEN turn'[u].highest - 1 ELSE turn'[u].highest)
    BY DEF NothingDropped, InHand
  <2>1. turn[u].life = "open" /\ ~turn[u].over
    BY <1>1 DEF IInv, TurnTypes, HubTurns
  <2>2. turn'[u].gen = turn[u].gen /\ turn'[u].highest = turn[u].highest BY <1>1
  <2>3. Numbers(Transcript(u)') = Numbers(Transcript(u)) BY <1>5, <1>b
  <2> QED BY <2>1, <2>2, <2>3 DEF IInv, NothingDropped, InHand
<1>11. NoHoles'
  <2> SUFFICES ASSUME NEW u \in Turns
               PROVE  /\ Increasing(Transcript(u)')
                      /\ \E n \in 0 .. MaxEvents : Numbers(Transcript(u)') = 1 .. n
    BY DEF NoHoles
  <2>1. /\ Increasing(Transcript(u))
        /\ \E n \in 0 .. MaxEvents : Numbers(Transcript(u)) = 1 .. n
    BY DEF IInv, NoHoles
  <2> QED BY <1>5, <1>b, <2>1
<1>12. OwnConnectionEnded'
  <2> SUFFICES ASSUME NEW u \in Turns,
                      \/ \E i \in 1 .. Len(Transcript(u)') : Transcript(u)'[i].why = "gone"
                      \/ \E f \in fails' : f.turn = u /\ f.why = "gone"
               PROVE  turn[u].gen # table
    BY <1>1 DEF OwnConnectionEnded, Told
  <2>1. CASE u = t /\ e.why = "gone" BY <2>1
  <2>2. CASE ~(u = t /\ e.why = "gone")
    <3>1. Told(u, "gone") \/ \E f \in fails : f.turn = u /\ f.why = "gone"
      BY <1>9, <2>2 DEF Told
    <3> QED BY <3>1 DEF IInv, OwnConnectionEnded
  <2> QED BY <2>1, <2>2
<1> QED BY <1>2, <1>3, <1>4, <1>10, <1>11, <1>12

-----------------------------------------------------------------------------
(***************************************************************************)
(* Every step keeps the invariant                                          *)
(***************************************************************************)

\* Adapter.Start looks up the connection.
LEMMA GetConnectionKeeps == ASSUME NEW t \in Turns, IInv, GetConnection(t) PROVE IInv'
<1>u. UNCHANGED <<sock, up, down, table, handler, fails, read, dev, exec>> BY DEF GetConnection
<1>r. SocketTypes' /\ TableTypes' /\ UpTypes' /\ DownTypes' /\ FailTypes' /\ ReadTypes'
      /\ ExecTypes' /\ HandlerTypes'
  BY <1>u DEF IInv, SocketTypes, TableTypes, UpTypes, DownTypes, FailTypes, ReadTypes,
     ExecTypes, HandlerTypes
<1>r0. ConnInv' BY <1>u DEF IInv, ConnInv
<1> DEFINE new == [turn[t] EXCEPT !.start = "got", !.gen = table]
<1>1. turn[t].start = "idle" /\ table # 0 /\ turn' = [turn EXCEPT ![t] = new]
  BY DEF GetConnection, IInv, TurnTypes, HubTurns
<1>2. table \in 0 .. MaxConns /\ table \in Conns /\ handler[table].at \notin {"none", "hello"}
  BY <1>1, NodeAssumption DEF IInv, TableTypes, ConnInv, Conns
<1>3. turn[t] \in HubTurns /\ turn[t].life = "none"
  BY <1>1 DEF IInv, TurnTypes, OpenInv
<1>4. /\ new \in HubTurns /\ new.start = "got" /\ new.gen = table /\ new.life = "none"
      /\ new.buf = turn[t].buf /\ new.highest = turn[t].highest /\ new.over = turn[t].over
      /\ new.grace = turn[t].grace
  BY <1>2, <1>3 DEF HubTurns
<1> HIDE DEF new
<1>5. /\ TurnTypes' /\ RoomInv' /\ OpenInv' /\ HeldInv' /\ NothingDropped' /\ NoHoles'
      /\ OwnConnectionEnded'
  BY <1>u, <1>1, <1>2, <1>3, <1>4, QuietTurn
<1> QED BY <1>r, <1>r0, <1>5 DEF IInv

\* The turn is opened on it.
LEMMA OpenKeeps == ASSUME NEW t \in Turns, IInv, Open(t) PROVE IInv'
<1>u. UNCHANGED <<sock, up, down, table, handler, fails, read, dev, exec>> BY DEF Open
<1>r. SocketTypes' /\ TableTypes' /\ UpTypes' /\ DownTypes' /\ FailTypes' /\ ReadTypes'
      /\ ExecTypes' /\ HandlerTypes'
  BY <1>u DEF IInv, SocketTypes, TableTypes, UpTypes, DownTypes, FailTypes, ReadTypes,
     ExecTypes, HandlerTypes
<1>r0. ConnInv' BY <1>u DEF IInv, ConnInv
<1> DEFINE new == [turn[t] EXCEPT !.start = "opened", !.life = "open"]
<1>1. turn[t].start = "got" /\ turn' = [turn EXCEPT ![t] = new]
  BY DEF Open, IInv, TurnTypes, HubTurns
<1>2. turn[t] \in HubTurns /\ turn[t].life = "none" BY <1>1 DEF IInv, TurnTypes, OpenInv
<1>3. turn[t].gen \in Conns /\ handler[turn[t].gen].at \notin {"none", "hello"}
  BY <1>1 DEF IInv, OpenInv
<1>4. /\ new \in HubTurns /\ new.start = "opened" /\ new.gen = turn[t].gen /\ new.life = "open"
      /\ new.buf = turn[t].buf /\ new.highest = turn[t].highest /\ new.over = turn[t].over
      /\ new.grace = turn[t].grace
  BY <1>2 DEF HubTurns
<1> HIDE DEF new
<1>5. /\ TurnTypes' /\ RoomInv' /\ OpenInv' /\ HeldInv' /\ NothingDropped' /\ NoHoles'
      /\ OwnConnectionEnded'
  BY <1>u, <1>1, <1>2, <1>3, <1>4, QuietTurn
<1> QED BY <1>r, <1>r0, <1>5 DEF IInv

\* The dispatch is written, or a write that fails closes the turn.
LEMMA DispatchKeeps == ASSUME NEW t \in Turns, IInv, Dispatch(t) PROVE IInv'
<1>u. UNCHANGED <<sock, up, table, handler, read, dev, exec>> BY DEF Dispatch
<1>f. fails' \subseteq fails BY DEF Dispatch, FailsBut
<1>r. SocketTypes' /\ TableTypes' /\ UpTypes' /\ FailTypes' /\ ReadTypes' /\ ExecTypes'
      /\ HandlerTypes'
  BY <1>u, <1>f DEF IInv, SocketTypes, TableTypes, UpTypes, FailTypes, ReadTypes, ExecTypes,
     HandlerTypes
<1>r0. ConnInv' BY <1>u DEF IInv, ConnInv
<1>1. turn[t] \in HubTurns /\ turn[t].start = "opened" /\ turn[t].life # "none"
  BY DEF Dispatch, IInv, TurnTypes, OpenInv
<1>2. turn[t].gen \in Conns /\ handler[turn[t].gen].at \notin {"none", "hello"}
  BY <1>1 DEF IInv, OpenInv
<1>3. Frame("dispatch", t, 0) \in Frames BY NodeAssumption DEF Frame, Frames
<1>4. DownTypes' BY <1>3, SentKeeps DEF Dispatch, IInv, DownTypes
<1>5. PICK new \in {[turn[t] EXCEPT !.start = "running"],
      [Closed(turn[t]) EXCEPT !.start = "failed"]} :
        turn' = [turn EXCEPT ![t] = new]
  BY DEF Dispatch, IInv, TurnTypes, HubTurns
<1>6. /\ new \in HubTurns /\ new.start \in {"running", "failed"} /\ new.gen = turn[t].gen
      /\ new.life # "none" /\ (new.life = "open" => turn[t].life = "open")
      /\ new.buf = turn[t].buf /\ new.highest = turn[t].highest /\ new.over = turn[t].over
      /\ new.grace = turn[t].grace
  <2>1. CASE new = [turn[t] EXCEPT !.start = "running"] BY <1>1, <2>1 DEF HubTurns
  <2>2. CASE new = [Closed(turn[t]) EXCEPT !.start = "failed"]
    BY <1>1, <2>2, ClosedKeeps DEF HubTurns
  <2> QED BY <2>1, <2>2
<1>7. /\ TurnTypes' /\ RoomInv' /\ OpenInv' /\ HeldInv' /\ NothingDropped' /\ NoHoles'
      /\ OwnConnectionEnded'
  BY <1>u, <1>f, <1>1, <1>2, <1>5, <1>6, QuietTurn
<1> QED BY <1>r, <1>r0, <1>4, <1>7 DEF IInv

\* The engine reads an event.
LEMMA EngineReadsKeeps == ASSUME NEW t \in Turns, IInv, EngineReads(t) PROVE IInv'
<1>u. UNCHANGED <<sock, up, down, table, handler, fails, dev, exec>> BY DEF EngineReads
<1>r. SocketTypes' /\ TableTypes' /\ UpTypes' /\ DownTypes' /\ FailTypes' /\ ExecTypes'
      /\ HandlerTypes'
  BY <1>u DEF IInv, SocketTypes, TableTypes, UpTypes, DownTypes, FailTypes, ExecTypes,
     HandlerTypes
<1>r0. ConnInv' BY <1>u DEF IInv, ConnInv
<1> DEFINE new == [turn[t] EXCEPT !.buf = Tail(@)]
<1>1. /\ turn[t].start = "running" /\ turn[t].buf # <<>>
      /\ read' = [read EXCEPT ![t] = Append(@, Head(turn[t].buf))]
      /\ turn' = [turn EXCEPT ![t] = new]
  BY DEF EngineReads, IInv, TurnTypes, HubTurns
<1>2. turn[t] \in HubTurns /\ turn[t].buf \in Seq(Entries) /\ read[t] \in Seq(Entries)
  BY DEF IInv, TurnTypes, ReadTypes, HubTurns
<1>3. /\ Append(read[t], Head(turn[t].buf)) \in Seq(Entries) /\ Tail(turn[t].buf) \in Seq(Entries)
      /\ Len(Tail(turn[t].buf)) = Len(turn[t].buf) - 1
      /\ Append(read[t], Head(turn[t].buf)) \o Tail(turn[t].buf) = Transcript(t)
  BY <1>1, <1>2, ReadKeepsTranscript DEF Transcript
<1>4. Len(Tail(turn[t].buf)) <= Room
  BY <1>2, <1>3, NodeAssumption DEF IInv, RoomInv
<1>5. /\ new \in HubTurns /\ new.start = turn[t].start /\ new.gen = turn[t].gen
      /\ new.life = turn[t].life /\ new.buf = Tail(turn[t].buf)
      /\ new.highest = turn[t].highest /\ new.over = turn[t].over
      /\ new.grace = turn[t].grace
  BY <1>2, <1>3 DEF HubTurns
<1> HIDE DEF new
<1>6. /\ turn'[t] = new /\ read'[t] = Append(read[t], Head(turn[t].buf))
      /\ \A u \in Turns : u # t => turn'[u] = turn[u] /\ read'[u] = read[u]
  BY <1>1 DEF IInv, TurnTypes, ReadTypes
<1>7. TurnTypes' /\ RoomInv' /\ ReadTypes'
  BY <1>1, <1>3, <1>4, <1>5, <1>6 DEF IInv, TurnTypes, RoomInv, ReadTypes
<1>8. \A u \in Turns :
        /\ Transcript(u)' = Transcript(u)
        /\ turn'[u].start = turn[u].start /\ turn'[u].gen = turn[u].gen
        /\ turn'[u].life = turn[u].life /\ turn'[u].highest = turn[u].highest
        /\ turn'[u].over = turn[u].over /\ turn'[u].grace = turn[u].grace
  BY <1>3, <1>5, <1>6 DEF Transcript
<1>9. turn[t].life # "none" BY <1>1 DEF IInv, OpenInv
<1>10. OpenInv' BY <1>u, <1>6, <1>8, <1>9 DEF IInv, OpenInv
<1>11. HeldInv' BY <1>u, <1>8 DEF IInv, HeldInv, HandlerTypes, Handlers, Frames
<1>12. NothingDropped' BY <1>u, <1>8 DEF IInv, NothingDropped, InHand
<1>13. NoHoles' BY <1>8 DEF IInv, NoHoles
<1>14. OwnConnectionEnded' BY <1>u, <1>8 DEF IInv, OwnConnectionEnded, Told
<1> QED BY <1>r, <1>r0, <1>7, <1>10, <1>11, <1>12, <1>13, <1>14 DEF IInv

\* The engine ends the turn.
LEMMA EngineCancelsKeeps == ASSUME NEW t \in Turns, IInv, EngineCancels(t) PROVE IInv'
<1>u. UNCHANGED <<sock, up, down, table, handler, read, dev, exec>> BY DEF EngineCancels
<1>f. fails' \subseteq fails BY DEF EngineCancels, FailsBut
<1>r. SocketTypes' /\ TableTypes' /\ UpTypes' /\ DownTypes' /\ FailTypes' /\ ReadTypes'
      /\ ExecTypes' /\ HandlerTypes'
  BY <1>u, <1>f DEF IInv, SocketTypes, TableTypes, UpTypes, DownTypes, FailTypes, ReadTypes,
     ExecTypes, HandlerTypes
<1>r0. ConnInv' BY <1>u DEF IInv, ConnInv
<1> DEFINE new == [Closed(turn[t]) EXCEPT !.cancel = TRUE]
<1>1. /\ turn[t].start = "running" /\ turn[t].life = "open"
      /\ turn' = [turn EXCEPT ![t] = new]
  BY DEF EngineCancels, IInv, TurnTypes, HubTurns
<1>2. turn[t] \in HubTurns BY DEF IInv, TurnTypes
<1>3. turn[t].gen \in Conns /\ handler[turn[t].gen].at \notin {"none", "hello"}
  BY <1>1 DEF IInv, OpenInv
<1>c. /\ Closed(turn[t]) \in HubTurns /\ Closed(turn[t]).start = "running"
      /\ Closed(turn[t]).gen = turn[t].gen /\ Closed(turn[t]).life \notin {"none", "open"}
      /\ Closed(turn[t]).buf = turn[t].buf /\ Closed(turn[t]).highest = turn[t].highest
      /\ Closed(turn[t]).over = turn[t].over /\ Closed(turn[t]).grace = turn[t].grace
  BY <1>1, <1>2, ClosedKeeps
<1>4. /\ new \in HubTurns /\ new.start = "running" /\ new.gen = turn[t].gen
      /\ new.life # "none" /\ new.life # "open"
      /\ new.buf = turn[t].buf /\ new.highest = turn[t].highest /\ new.over = turn[t].over
      /\ new.grace = turn[t].grace
  BY <1>c DEF HubTurns
<1> HIDE DEF new
<1>5. /\ TurnTypes' /\ RoomInv' /\ OpenInv' /\ HeldInv' /\ NothingDropped' /\ NoHoles'
      /\ OwnConnectionEnded'
  BY <1>u, <1>f, <1>1, <1>2, <1>3, <1>4, QuietTurn
<1> QED BY <1>r, <1>r0, <1>5 DEF IInv

\* The machine is told to stop the turn.
LEMMA CancelDeviceKeeps == ASSUME NEW t \in Turns, IInv, CancelDevice(t) PROVE IInv'
<1>u. UNCHANGED <<sock, up, table, handler, fails, read, dev, exec>> BY DEF CancelDevice
<1>r. SocketTypes' /\ TableTypes' /\ UpTypes' /\ FailTypes' /\ ReadTypes' /\ ExecTypes'
      /\ HandlerTypes'
  BY <1>u DEF IInv, SocketTypes, TableTypes, UpTypes, FailTypes, ReadTypes, ExecTypes,
     HandlerTypes
<1>r0. ConnInv' BY <1>u DEF IInv, ConnInv
<1> DEFINE new == [turn[t] EXCEPT !.cancel = FALSE]
<1>1. turn' = [turn EXCEPT ![t] = new] BY DEF CancelDevice, IInv, TurnTypes, HubTurns
<1>2. turn[t] \in HubTurns BY DEF IInv, TurnTypes
<1>3. /\ turn[t].start \in {"idle", "got"} <=> turn[t].life = "none"
      /\ turn[t].start # "idle" =>
           turn[t].gen \in Conns /\ handler[turn[t].gen].at \notin {"none", "hello"}
  BY DEF IInv, OpenInv
<1>4. /\ new \in HubTurns /\ new.start = turn[t].start /\ new.gen = turn[t].gen
      /\ new.life = turn[t].life
      /\ new.buf = turn[t].buf /\ new.highest = turn[t].highest /\ new.over = turn[t].over
      /\ new.grace = turn[t].grace
  BY <1>2 DEF HubTurns
<1> HIDE DEF new
<1>5. /\ TurnTypes' /\ RoomInv' /\ OpenInv' /\ HeldInv' /\ NothingDropped' /\ NoHoles'
      /\ OwnConnectionEnded'
  BY <1>u, <1>1, <1>2, <1>3, <1>4, QuietTurn
<1>6. Frame("cancel", t, 0) \in Frames BY NodeAssumption DEF Frame, Frames
<1>7. DownTypes' BY <1>6, SentKeeps DEF CancelDevice, IInv, DownTypes
<1> QED BY <1>r, <1>r0, <1>5, <1>7 DEF IInv

\* The start deadline claims the turn.
LEMMA DeadlineKeeps == ASSUME NEW t \in Turns, IInv, Deadline(t) PROVE IInv'
<1>u. UNCHANGED <<sock, up, down, table, handler, read, dev, exec>> BY DEF Deadline
<1>r. SocketTypes' /\ TableTypes' /\ UpTypes' /\ DownTypes' /\ ReadTypes' /\ ExecTypes'
      /\ HandlerTypes'
  BY <1>u DEF IInv, SocketTypes, TableTypes, UpTypes, DownTypes, ReadTypes, ExecTypes,
     HandlerTypes
<1>r0. ConnInv' BY <1>u DEF IInv, ConnInv
<1> DEFINE new == [turn[t] EXCEPT !.answered = "gaveUp"]
<1>1. /\ turn[t].life = "open" /\ turn' = [turn EXCEPT ![t] = new]
      /\ fails' = fails \cup {[turn |-> t, why |-> "failed", by |-> 0, at |-> "push"]}
  BY DEF Deadline, Failing, IInv, TurnTypes, HubTurns
<1>2. turn[t] \in HubTurns BY DEF IInv, TurnTypes
<1>3. /\ turn[t].start \notin {"idle", "got"}
      /\ turn[t].gen \in Conns /\ handler[turn[t].gen].at \notin {"none", "hello"}
  BY <1>1 DEF IInv, OpenInv
<1>4. /\ new \in HubTurns /\ new.start = turn[t].start /\ new.gen = turn[t].gen
      /\ new.life = turn[t].life
      /\ new.buf = turn[t].buf /\ new.highest = turn[t].highest /\ new.over = turn[t].over
      /\ new.grace = turn[t].grace
  BY <1>2 DEF HubTurns
<1> HIDE DEF new
<1>a. 0 \in 0 .. MaxConns BY NodeAssumption
<1>5. FailTypes' BY <1>1, <1>a DEF IInv, FailTypes, Failures, Reasons
<1>b. turn[t].life # "none" => new.life # "none" /\ new.gen = turn[t].gen BY <1>4
<1>6. \A f \in fails' : f \in fails \/ (f.turn = t /\ f.why # "gone" /\ new.life # "none")
  BY <1>1, <1>4
<1>7. /\ TurnTypes' /\ RoomInv' /\ OpenInv' /\ HeldInv' /\ NothingDropped' /\ NoHoles'
      /\ OwnConnectionEnded'
  <2>1. /\ UNCHANGED <<handler, read, table>>
        /\ new.start \in {"idle", "got"} <=> new.life = "none"
        /\ new.life = "open" => turn[t].life \in {"open", "none"}
        /\ new.start # "idle" =>
             new.gen \in Conns /\ handler[new.gen].at \notin {"none", "hello"}
    BY <1>u, <1>1, <1>3, <1>4
  <2>2. turn' = [turn EXCEPT ![t] = new] BY <1>1
  <2>3. /\ new.buf = turn[t].buf /\ new.highest = turn[t].highest
        /\ new.over <=> turn[t].over
        /\ new.grace => turn[t].grace
    BY <1>4
  <2> HIDE DEF new
  <2> QED BY <1>4, <1>b, <1>6, <2>1, <2>2, <2>3, QuietTurn
<1> QED BY <1>r, <1>r0, <1>5, <1>7 DEF IInv

\* The goroutine of an overflow hands over the reason.
LEMMA GraceKeeps == ASSUME NEW t \in Turns, IInv, Grace(t) PROVE IInv'
<1>u. UNCHANGED <<sock, up, down, table, handler, read, dev, exec>> BY DEF Grace
<1>f. fails' \subseteq fails BY DEF Grace, FailsBut
<1>r. SocketTypes' /\ TableTypes' /\ UpTypes' /\ DownTypes' /\ FailTypes' /\ ReadTypes'
      /\ ExecTypes' /\ HandlerTypes'
  BY <1>u, <1>f DEF IInv, SocketTypes, TableTypes, UpTypes, DownTypes, FailTypes, ReadTypes,
     ExecTypes, HandlerTypes
<1>r0. ConnInv' BY <1>u DEF IInv, ConnInv
<1> DEFINE e == Entry("failed", 0)
           told == [turn[t] EXCEPT !.grace = FALSE, !.life = "over", !.buf = Append(@, e)]
           untold == [turn[t] EXCEPT !.grace = FALSE, !.life = "over"]
<1>1. /\ turn[t].grace /\ turn[t] \in HubTurns /\ turn[t].buf \in Seq(Entries)
      /\ Len(turn[t].buf) <= Room
  BY DEF Grace, IInv, TurnTypes, HubTurns, RoomInv
<1>2. e \in Entries /\ e.why = "failed"
  <2>1. 0 \in 0 .. MaxEvents BY NodeAssumption
  <2> QED BY <2>1 DEF Entry, Entries, Reasons
<1>3. turn[t].life # "none" BY <1>1 DEF IInv, OpenInv
<1>4. PICK new \in {told, untold} :
        (new = told => Len(turn[t].buf) < Room) /\ turn' = [turn EXCEPT ![t] = new]
  <2> DEFINE r(b) == [turn[t] EXCEPT !.grace = FALSE, !.life = "over",
                                     !.buf = IF b THEN Append(@, e) ELSE @]
  <2>1. PICK b \in BOOLEAN :
          (b => Len(turn[t].buf) < Room) /\ turn' = [turn EXCEPT ![t] = r(b)]
    BY DEF Grace, IInv, TurnTypes, HubTurns
  <2>2. CASE b
    <3>0. [turn[t] EXCEPT !.grace = FALSE, !.life = "over",
                          !.buf = IF b THEN Append(@, e) ELSE @] = told
      BY <1>1, <2>2 DEF HubTurns
    <3>1. turn' = [turn EXCEPT ![t] = told]
      <4>1. r(b) = told BY <3>0
      <4> HIDE DEF r, told
      <4> QED BY <2>1, <4>1
    <3> QED BY <2>1, <2>2, <3>1
  <2>3. CASE ~b
    <3>1. [turn[t] EXCEPT !.grace = FALSE, !.life = "over",
                          !.buf = IF b THEN Append(@, e) ELSE @] = untold
      BY <1>1, <2>3 DEF HubTurns
    <3>2. turn' = [turn EXCEPT ![t] = untold]
      <4>1. r(b) = untold BY <3>1
      <4> HIDE DEF r, untold
      <4> QED BY <2>1, <4>1
    <3>3. Append(turn[t].buf, e) # turn[t].buf
      <4>1. Len(Append(turn[t].buf, e)) = Len(turn[t].buf) + 1 /\ Len(turn[t].buf) \in Nat
        BY <1>1, <1>2
      <4> QED BY <4>1
    <3>4. told.buf = Append(turn[t].buf, e) /\ untold.buf = turn[t].buf BY <1>1 DEF HubTurns
    <3>5. told # untold BY <3>3, <3>4
    <3> QED BY <3>2, <3>5
  <2> QED BY <2>2, <2>3
<1>5. /\ new \in HubTurns /\ new.start = turn[t].start /\ new.gen = turn[t].gen
      /\ new.life = "over" /\ new.highest = turn[t].highest /\ Len(new.buf) <= Room
      /\ new.buf = turn[t].buf \/ new.buf = Append(turn[t].buf, e)
  <2> USE NodeAssumption
  <2> HIDE DEF e
  <2>1. /\ Append(turn[t].buf, e) \in Seq(Entries)
        /\ Len(Append(turn[t].buf, e)) = Len(turn[t].buf) + 1 /\ Len(turn[t].buf) \in Nat
    BY <1>1, <1>2
  <2>2. CASE new = told
    <3>1. told \in HubTurns BY <1>1, <2>1 DEF HubTurns
    <3>2. /\ told.start = turn[t].start /\ told.gen = turn[t].gen /\ told.life = "over"
          /\ told.highest = turn[t].highest /\ told.buf = Append(turn[t].buf, e)
      BY <1>1 DEF HubTurns
    <3>3. Len(Append(turn[t].buf, e)) <= Room BY <1>4, <2>1, <2>2
    <3> QED BY <2>2, <3>1, <3>2, <3>3
  <2>3. CASE new = untold BY <1>1, <2>3 DEF HubTurns
  <2> QED BY <1>4, <2>2, <2>3
<1> HIDE DEF e, told, untold
<1>6. /\ TurnTypes' /\ RoomInv' /\ OpenInv' /\ HeldInv' /\ NothingDropped' /\ NoHoles'
      /\ OwnConnectionEnded'
  <2>1. e.why # "event" /\ e.why # "gone" BY <1>2
  <2>2. new.life \notin {"none", "open"} BY <1>5
  <2> QED BY <1>u, <1>f, <1>2, <1>3, <1>4, <1>5, <2>1, <2>2, ReasonKeeps
<1> QED BY <1>r, <1>r0, <1>6 DEF IInv

\* Turns.fail puts the reason into the transcript.
LEMMA PushReasonKeeps == ASSUME NEW f \in fails, IInv, PushReason(f) PROVE IInv'
<1>u. UNCHANGED <<sock, up, down, table, handler, read, dev, exec>> BY DEF PushReason
<1>r. SocketTypes' /\ TableTypes' /\ UpTypes' /\ DownTypes' /\ ReadTypes' /\ ExecTypes'
      /\ HandlerTypes'
  BY <1>u DEF IInv, SocketTypes, TableTypes, UpTypes, DownTypes, ReadTypes, ExecTypes,
     HandlerTypes
<1>r0. ConnInv' BY <1>u DEF IInv, ConnInv
<1> DEFINE t == f.turn  e == Entry(f.why, 0)  new == Push(turn[t], e)
           g == [f EXCEPT !.at = "close"]
<1>1. /\ f \in Failures /\ t \in Turns /\ f.why \in Reasons \ {"event"}
      /\ fails' = (fails \ {f}) \cup {g} /\ turn' = [turn EXCEPT ![t] = new]
  BY DEF PushReason, IInv, FailTypes, Failures, TurnTypes
<1>g. g \in Failures /\ g.turn = t /\ g.why = f.why BY <1>1 DEF Failures
<1> HIDE DEF g
<1>2. FailTypes' BY <1>1, <1>g DEF IInv, FailTypes
<1>f. \A x \in fails' : \E y \in fails : x.turn = y.turn /\ x.why = y.why
  BY <1>1, <1>g
<1>3. e \in Entries /\ e.why = f.why BY <1>1, NodeAssumption DEF Entry, Entries
<1>4. turn[t] \in HubTurns /\ Len(turn[t].buf) <= Room
  BY <1>1 DEF IInv, TurnTypes, RoomInv
<1>5. turn[t].life # "none" BY <1>1 DEF IInv, OpenInv
<1>6. f.why = "gone" => turn[t].gen # table BY <1>1 DEF IInv, OwnConnectionEnded
<1> HIDE DEF e, t
<1>7. /\ new \in HubTurns /\ Len(new.buf) <= Room
      /\ new.start = turn[t].start /\ new.gen = turn[t].gen
      /\ new.life = turn[t].life /\ new.highest = turn[t].highest
      /\ new.buf = turn[t].buf \/ new.buf = Append(turn[t].buf, e)
  BY <1>3, <1>4, PushKeeps
<1>8. turn[t].over => new.over BY DEF Push
<1> HIDE DEF new
<1>9. /\ TurnTypes' /\ RoomInv' /\ OpenInv' /\ HeldInv' /\ NothingDropped' /\ NoHoles'
      /\ OwnConnectionEnded'
  <2>1. /\ e.why # "event" /\ (e.why = "gone" => turn[t].gen # table)
        /\ t \in Turns /\ new.life # "none"
        /\ new.life = "open" => turn[t].life = "open" /\ (turn[t].over => new.over)
    BY <1>1, <1>3, <1>5, <1>6, <1>7, <1>8
  <2>2. UNCHANGED <<handler, read, table>> /\ turn' = [turn EXCEPT ![t] = new]
    BY <1>u, <1>1
  <2> QED BY <1>f, <1>3, <1>5, <1>7, <2>1, <2>2, ReasonKeeps
<1> QED BY <1>r, <1>r0, <1>2, <1>9 DEF IInv

\* Turns.fail closes the turn.
LEMMA CloseFailedKeeps == ASSUME NEW f \in fails, IInv, CloseFailed(f) PROVE IInv'
<1>u. UNCHANGED <<sock, up, down, table, handler, read, dev, exec>> BY DEF CloseFailed
<1>f. fails' \subseteq fails BY DEF CloseFailed, FailsBut
<1>r. SocketTypes' /\ TableTypes' /\ UpTypes' /\ DownTypes' /\ FailTypes' /\ ReadTypes'
      /\ ExecTypes' /\ HandlerTypes'
  BY <1>u, <1>f DEF IInv, SocketTypes, TableTypes, UpTypes, DownTypes, FailTypes, ReadTypes,
     ExecTypes, HandlerTypes
<1>r0. ConnInv' BY <1>u DEF IInv, ConnInv
<1> DEFINE t == f.turn  new == Closed(turn[t])
<1>1. t \in Turns /\ turn' = [turn EXCEPT ![t] = new]
  BY DEF CloseFailed, IInv, FailTypes, Failures
<1>2. turn[t] \in HubTurns /\ turn[t].life # "none"
  BY <1>1 DEF IInv, TurnTypes, OpenInv
<1>3. /\ turn[t].start \notin {"idle", "got"}
      /\ turn[t].gen \in Conns /\ handler[turn[t].gen].at \notin {"none", "hello"}
  BY <1>1, <1>2 DEF IInv, OpenInv
<1> HIDE DEF t
<1>4. /\ new \in HubTurns /\ new.start = turn[t].start /\ new.gen = turn[t].gen
      /\ new.life \notin {"none", "open"} /\ new.buf = turn[t].buf
      /\ new.highest = turn[t].highest /\ new.over = turn[t].over /\ new.grace = turn[t].grace
  BY <1>2, ClosedKeeps
<1> HIDE DEF new
<1>5. /\ TurnTypes' /\ RoomInv' /\ OpenInv' /\ HeldInv' /\ NothingDropped' /\ NoHoles'
      /\ OwnConnectionEnded'
  <2>1. /\ UNCHANGED <<handler, read, table>>
        /\ new.over <=> turn[t].over
        /\ new.grace => turn[t].grace
        /\ new.start \in {"idle", "got"} <=> new.life = "none"
        /\ turn[t].life # "none" => new.life # "none" /\ new.gen = turn[t].gen
        /\ new.life = "open" => turn[t].life \in {"open", "none"}
        /\ new.start # "idle" =>
             new.gen \in Conns /\ handler[new.gen].at \notin {"none", "hello"}
        /\ \A g \in fails' : g \in fails
    BY <1>u, <1>f, <1>2, <1>3, <1>4
  <2> QED BY <1>1, <1>4, <2>1, QuietTurn
<1> QED BY <1>r, <1>r0, <1>5 DEF IInv

\* The machine connects.
LEMMA ConnectKeeps == ASSUME NEW c \in Conns, IInv, Connect(c) PROVE IInv'
<1>u. UNCHANGED <<up, down, table, turn, fails, read, exec>> BY DEF Connect
<1>r. UpTypes' /\ DownTypes' /\ TurnTypes' /\ FailTypes' /\ ReadTypes' /\ ExecTypes' /\ RoomInv'
  BY <1>u DEF IInv, UpTypes, DownTypes, TurnTypes, FailTypes, ReadTypes, ExecTypes, RoomInv
<1>r0. NoHoles' BY <1>u DEF IInv, NoHoles, Transcript
<1>r1. OwnConnectionEnded' BY <1>u DEF IInv, OwnConnectionEnded, Told, Transcript
<1>1. /\ sock[c] = "none" /\ sock' = [sock EXCEPT ![c] = "up"] /\ dev' = c
      /\ handler' = [handler EXCEPT ![c].at = "hello"]
  BY DEF Connect
<1>2. handler[c].at = "none" /\ handler[c] \in Handlers BY <1>1 DEF IInv, ConnInv, HandlerTypes
<1>3. handler'[c].at = "hello" /\ \A d \in Conns : /\ handler'[d].held = handler[d].held
                                                   /\ handler'[d].prev = handler[d].prev
                                                   /\ d # c => handler'[d] = handler[d]
  BY <1>1, <1>2 DEF IInv, HandlerTypes, Handlers
<1>4. SocketTypes' /\ TableTypes' BY <1>1, <1>u DEF IInv, SocketTypes, TableTypes, Conns
<1>5. HandlerTypes' BY <1>1, <1>2, <1>3 DEF IInv, HandlerTypes, Handlers
<1>6. ConnInv'
  BY <1>u, <1>1, <1>2, <1>3, NodeAssumption DEF IInv, ConnInv, SocketTypes, TableTypes, Conns
<1>7. OpenInv' /\ HeldInv' /\ NothingDropped'
  BY <1>u, <1>2, <1>3, HandlersMove DEF IInv, OpenInv
<1> QED BY <1>r, <1>r0, <1>r1, <1>4, <1>5, <1>6, <1>7 DEF IInv

\* The network loses a connection.
LEMMA BreakKeeps == ASSUME NEW c \in Conns, IInv, Break(c) PROVE IInv'
<1>u. UNCHANGED <<up, down, table, handler, turn, fails, read, dev, exec>> BY DEF Break
<1>r. TableTypes' /\ UpTypes' /\ DownTypes' /\ TurnTypes' /\ FailTypes' /\ ReadTypes'
      /\ ExecTypes' /\ HandlerTypes' /\ RoomInv'
  BY <1>u DEF IInv, TableTypes, UpTypes, DownTypes, TurnTypes, FailTypes, ReadTypes, ExecTypes,
     HandlerTypes, RoomInv
<1>r0. OpenInv' BY <1>u DEF IInv, OpenInv
<1>r1. HeldInv' BY <1>u DEF IInv, HeldInv
<1>r2. NothingDropped' BY <1>u DEF IInv, NothingDropped, InHand, Transcript
<1>r3. NoHoles' BY <1>u DEF IInv, NoHoles, Transcript
<1>r4. OwnConnectionEnded' BY <1>u DEF IInv, OwnConnectionEnded, Told, Transcript
<1>1. SocketTypes' BY DEF Break, IInv, SocketTypes
<1>2. ConnInv' BY <1>u DEF Break, IInv, SocketTypes, ConnInv
<1> QED BY <1>r, <1>r0, <1>r1, <1>r2, <1>r3, <1>r4, <1>1, <1>2 DEF IInv

\* A connection is attached and displaces the one before it.
LEMMA AttachKeeps == ASSUME NEW c \in Conns, IInv, Attach(c) PROVE IInv'
<1>u. UNCHANGED <<sock, up, down, turn, fails, read, dev, exec>> BY DEF Attach
<1>r. SocketTypes' /\ UpTypes' /\ DownTypes' /\ TurnTypes' /\ FailTypes' /\ ReadTypes'
      /\ ExecTypes' /\ RoomInv'
  BY <1>u DEF IInv, SocketTypes, UpTypes, DownTypes, TurnTypes, FailTypes, ReadTypes, ExecTypes,
     RoomInv
<1>r0. NoHoles' BY <1>u DEF IInv, NoHoles, Transcript
<1> DEFINE to == IF table = 0 THEN "read" ELSE "displace"
<1>1. /\ handler[c].at = "hello" /\ table' = c
      /\ handler' = [handler EXCEPT ![c] = [@ EXCEPT !.at = to, !.prev = table]]
  BY DEF Attach
<1>2. handler[c] \in Handlers /\ handler \in [Conns -> Handlers] /\ table \in 0 .. MaxConns
  BY DEF IInv, HandlerTypes, TableTypes
<1>3. /\ handler'[c].at = to /\ handler'[c].prev = table /\ handler'[c].held = handler[c].held
      /\ \A d \in Conns : d # c => handler'[d] = handler[d]
  BY <1>1, <1>2 DEF Handlers
<1>4. TableTypes' BY <1>1, <1>u DEF IInv, TableTypes, Conns
<1>5. HandlerTypes'
  <2>1. [handler[c] EXCEPT !.at = to, !.prev = table] \in Handlers BY <1>2 DEF Handlers
  <2> QED BY <1>1, <1>3, <2>1 DEF IInv, HandlerTypes
<1>6. to = "read" \/ (to = "displace" /\ table \in Conns /\ handler[table].at \notin {"none",
      "hello"})
  BY <1>2, NodeAssumption DEF IInv, ConnInv, Conns
<1>7. ConnInv'
  <2>1. \A d \in Conns : sock[d] = "none" => handler'[d].at = "none"
    BY <1>1, <1>3 DEF IInv, ConnInv
  <2>2. ASSUME NEW d \in Conns, handler'[d].at = "displace"
        PROVE  /\ handler'[d].prev \in Conns /\ handler'[d].prev # c
               /\ handler'[handler'[d].prev].at \notin {"none", "hello"}
    <3>1. CASE d = c BY <1>1, <1>3, <1>6, <2>2, <3>1
    <3>2. CASE d # c BY <1>1, <1>3, <2>2, <3>2 DEF IInv, ConnInv
    <3> QED BY <3>1, <3>2
  <2>3. \A d \in Conns : handler'[d].at = "orphan" => d # c BY <1>3, <1>6
  <2>4. handler'[c].at \in {"displace", "read"} BY <1>3, <1>6
  <2> QED BY <1>u, <1>1, <2>1, <2>2, <2>3, <2>4 DEF ConnInv
<1>8. OpenInv' /\ HeldInv' /\ NothingDropped'
  BY <1>u, <1>1, <1>3, <1>6, HandlersMove DEF IInv, OpenInv
<1>9. OwnConnectionEnded'
  <2> SUFFICES ASSUME NEW u \in Turns,
                      Told(u, "gone") \/ (\E f \in fails : f.turn = u /\ f.why = "gone")
               PROVE  turn[u].gen # c
    BY <1>u, <1>1 DEF OwnConnectionEnded, Told, Transcript
  <2>1. turn[u].life # "none" BY NothingTold DEF IInv, OpenInv
  <2> QED BY <1>1, <2>1 DEF IInv, OpenInv
<1> QED BY <1>r, <1>r0, <1>4, <1>5, <1>7, <1>8, <1>9 DEF IInv

\* The turns of a connection that is gone are to fail.
LEMMA AbandonKeeps == ASSUME NEW c \in Conns, IInv, Abandon(c) PROVE IInv'
<1>u. UNCHANGED <<sock, up, down, table, turn, read, dev, exec>> BY DEF Abandon
<1>r. SocketTypes' /\ TableTypes' /\ UpTypes' /\ DownTypes' /\ TurnTypes' /\ ReadTypes'
      /\ ExecTypes' /\ RoomInv'
  BY <1>u DEF IInv, SocketTypes, TableTypes, UpTypes, DownTypes, TurnTypes, ReadTypes,
     ExecTypes, RoomInv
<1>r0. NoHoles' BY <1>u DEF IInv, NoHoles, Transcript
<1> DEFINE gone == IF handler[c].at = "displace" THEN handler[c].prev ELSE c
           to == IF handler[c].at = "displace" THEN "close" ELSE "done"
<1>1. /\ handler[c].at \in {"displace", "orphan"}
      /\ fails' = fails \cup Failing(Doomed(gone), "gone", c)
      /\ handler' = [handler EXCEPT ![c] = [@ EXCEPT !.at = to]]
  BY DEF Abandon
<1>2. handler[c] \in Handlers /\ handler \in [Conns -> Handlers]
  BY DEF IInv, HandlerTypes
<1>3. /\ handler'[c].at = to /\ handler'[c].prev = handler[c].prev
      /\ handler'[c].held = handler[c].held
      /\ \A d \in Conns : d # c => handler'[d] = handler[d]
  BY <1>1, <1>2 DEF Handlers
<1>4. HandlerTypes'
  <2>1. [handler[c] EXCEPT !.at = to] \in Handlers BY <1>2 DEF Handlers
  <2> QED BY <1>1, <1>3, <2>1 DEF IInv, HandlerTypes
<1>5. gone # table BY <1>1 DEF IInv, ConnInv
<1>6. \A f \in fails' :
        \/ f \in fails
        \/ /\ f.turn \in Turns /\ f.why = "gone" /\ f.by = c /\ f \in Failures
           /\ turn[f.turn].life # "none" /\ turn[f.turn].gen = gone
  <2> SUFFICES ASSUME NEW f \in Failing(Doomed(gone), "gone", c)
               PROVE  /\ f.turn \in Turns /\ f.why = "gone" /\ f.by = c /\ f \in Failures
                      /\ turn[f.turn].life # "none" /\ turn[f.turn].gen = gone
    BY <1>1
  <2>1. f.turn \in Doomed(gone) /\ f.why = "gone" /\ f.by = c BY DEF Failing
  <2>2. f.turn \in Turns /\ turn[f.turn].life # "none" /\ turn[f.turn].gen = gone
    BY <2>1 DEF Doomed, Owned, Registered
  <2>3. f \in Failures BY <2>1, <2>2 DEF Failing, Failures, Reasons, Conns
  <2> QED BY <2>1, <2>2, <2>3
<1> HIDE DEF gone
<1>7. FailTypes' BY <1>6 DEF IInv, FailTypes
<1>8. ConnInv' BY <1>u, <1>1, <1>3 DEF IInv, ConnInv, TableTypes, Conns
<1>9. OpenInv' /\ HeldInv' /\ NothingDropped' BY <1>u, <1>1, <1>3, <1>6, HandlersMove
<1>10. OwnConnectionEnded'
  BY <1>u, <1>5, <1>6 DEF IInv, OwnConnectionEnded, Told, Transcript
<1> QED BY <1>r, <1>r0, <1>4, <1>7, <1>8, <1>9, <1>10 DEF IInv

\* The displaced connection is closed.
LEMMA ClosePreviousKeeps == ASSUME NEW c \in Conns, IInv, ClosePrevious(c) PROVE IInv'
<1>u. UNCHANGED <<up, down, table, turn, fails, read, dev, exec>> BY DEF ClosePrevious
<1>r. TableTypes' /\ UpTypes' /\ DownTypes' /\ TurnTypes' /\ FailTypes' /\ ReadTypes'
      /\ ExecTypes' /\ RoomInv'
  BY <1>u DEF IInv, TableTypes, UpTypes, DownTypes, TurnTypes, FailTypes, ReadTypes, ExecTypes,
     RoomInv
<1>r0. NoHoles' BY <1>u DEF IInv, NoHoles, Transcript
<1>r1. OwnConnectionEnded' BY <1>u DEF IInv, OwnConnectionEnded, Told, Transcript
<1>1. /\ handler[c].at = "close" /\ sock' = [sock EXCEPT ![handler[c].prev] = "broken"]
      /\ handler' = [handler EXCEPT ![c] = [@ EXCEPT !.at = "read", !.prev = 0]]
  BY DEF ClosePrevious
<1>2. handler[c] \in Handlers /\ handler \in [Conns -> Handlers]
  BY DEF IInv, HandlerTypes
<1>3. /\ handler'[c].at = "read" /\ handler'[c].held = handler[c].held
      /\ \A d \in Conns : d # c => handler'[d] = handler[d]
  BY <1>1, <1>2 DEF Handlers
<1>4. HandlerTypes'
  <2>1. [handler[c] EXCEPT !.at = "read", !.prev = 0] \in Handlers
    <3>1. 0 \in 0 .. MaxConns BY NodeAssumption
    <3> QED BY <1>2, <3>1 DEF Handlers
  <2> QED BY <1>1, <1>3, <2>1 DEF IInv, HandlerTypes
<1>5. SocketTypes' /\ \A d \in Conns : sock'[d] = "none" => sock[d] = "none"
  BY <1>1 DEF IInv, SocketTypes
<1>6. ConnInv' BY <1>u, <1>1, <1>3, <1>5 DEF IInv, ConnInv, TableTypes, Conns
<1>7. OpenInv' /\ HeldInv' /\ NothingDropped' BY <1>u, <1>1, <1>3, HandlersMove DEF IInv, OpenInv
<1> QED BY <1>r, <1>r0, <1>r1, <1>4, <1>5, <1>6, <1>7 DEF IInv

\* An event that was counted is pushed.
LEMMA PushHeldKeeps == ASSUME NEW c \in Conns, IInv, PushHeld(c) PROVE IInv'
<1>u. UNCHANGED <<sock, up, down, table, fails, read, dev, exec>> BY DEF PushHeld
<1>r. SocketTypes' /\ TableTypes' /\ UpTypes' /\ DownTypes' /\ FailTypes' /\ ReadTypes'
      /\ ExecTypes'
  BY <1>u DEF IInv, SocketTypes, TableTypes, UpTypes, DownTypes, FailTypes, ReadTypes, ExecTypes
<1>1. PICK f \in handler[c].held :
        turn' = [turn EXCEPT ![f.turn] = Push(@, Entry("event", f.seq))]
  BY DEF PushHeld
<1> DEFINE t == f.turn  e == Entry("event", f.seq)  new == Push(turn[t], e)
<1>2. /\ handler \in [Conns -> Handlers] /\ handler[c] \in Handlers /\ f \in Frames /\ t \in Turns
      /\ handler[c].held = {f}
  BY DEF IInv, HandlerTypes, Handlers, Frames
<1>3. handler' = [handler EXCEPT ![c] = [@ EXCEPT !.held = {}]] BY DEF PushHeld
<1>4. /\ handler'[c].at = handler[c].at /\ handler'[c].prev = handler[c].prev
      /\ handler'[c].held = {} /\ \A d \in Conns : d # c => handler'[d] = handler[d]
  BY <1>2, <1>3 DEF Handlers
<1>5. turn[t].life # "none" /\ turn[t].gen = c /\ turn[t].highest = f.seq
  BY DEF IInv, HeldInv
<1>c. f.seq \in Nat /\ f.seq >= 1
  BY <1>2, NodeAssumption DEF IInv, HeldInv, Frames
<1>6. e \in Entries /\ e.why = "event" /\ e.seq = f.seq
  BY <1>2 DEF Entry, Entries, Frames, Reasons
<1>7. turn[t] \in HubTurns /\ Len(turn[t].buf) <= Room /\ turn[t].buf \in Seq(Entries)
      /\ read[t] \in Seq(Entries)
  BY <1>2 DEF IInv, TurnTypes, RoomInv, ReadTypes, HubTurns
<1>8. turn'[t] = new /\ turn' = [turn EXCEPT ![t] = new]
      /\ \A u \in Turns : u # t => turn'[u] = turn[u]
  BY <1>1, <1>2 DEF IInv, TurnTypes
<1> HIDE DEF e, t
<1>9. /\ new \in HubTurns /\ Len(new.buf) <= Room
      /\ new.start = turn[t].start /\ new.gen = turn[t].gen
      /\ new.life = turn[t].life /\ new.highest = turn[t].highest
      /\ \/ new.buf = turn[t].buf /\ (turn[t].life # "open" \/ new.over)
         \/ /\ turn[t].life = "open" /\ ~turn[t].over /\ ~new.over
            /\ new.buf = Append(turn[t].buf, e)
      /\ turn[t].life # "open" => new = turn[t]
  BY <1>6, <1>7, PushKeeps
<1> HIDE DEF new
<1>10. HandlerTypes'
  <2>1. [handler[c] EXCEPT !.held = {}] \in Handlers BY <1>2 DEF Handlers
  <2> QED BY <1>3, <1>4, <2>1 DEF IInv, HandlerTypes
<1>11. ConnInv' BY <1>u, <1>4 DEF IInv, ConnInv, TableTypes, Conns
<1>12. TurnTypes' /\ RoomInv' BY <1>8, <1>9 DEF IInv, TurnTypes, RoomInv
<1>13. OpenInv'
  <2> SUFFICES ASSUME NEW u \in Turns
               PROVE  /\ turn'[u].start \in {"idle", "got"} <=> turn'[u].life = "none"
                      /\ turn'[u].start # "idle" =>
                           /\ turn'[u].gen \in Conns
                           /\ handler'[turn'[u].gen].at \notin {"none", "hello"}
                      /\ turn'[u].life = "none" =>
                           /\ turn'[u].highest = 0 /\ turn'[u].buf = <<>> /\ read[u] = <<>>
                           /\ ~turn'[u].over /\ ~turn'[u].grace
                           /\ \A g \in fails : g.turn # u
    BY <1>u DEF OpenInv
  <2>1. CASE u = t BY <1>2, <1>4, <1>5, <1>8, <1>9, <2>1 DEF IInv, OpenInv
  <2>2. CASE u # t BY <1>4, <1>8, <2>2 DEF IInv, OpenInv
  <2> QED BY <2>1, <2>2
<1>14. HeldInv'
  <2> SUFFICES ASSUME NEW d \in Conns, NEW g \in handler'[d].held
               PROVE  /\ turn'[g.turn].life # "none" /\ turn'[g.turn].gen = d
                      /\ turn'[g.turn].highest = g.seq /\ g.seq # 0
    BY DEF HeldInv
  <2>1. d # c /\ g \in handler[d].held BY <1>4
  <2>2. g.turn \in Turns BY <2>1 DEF IInv, HandlerTypes, Handlers, Frames
  <2>3. turn[g.turn].life # "none" /\ turn[g.turn].gen = d /\ turn[g.turn].highest = g.seq
        /\ g.seq # 0
    BY <2>1 DEF IInv, HeldInv
  <2> QED BY <1>8, <1>9, <2>2, <2>3
<1>15. \A u \in Turns : u # t => Transcript(u)' = Transcript(u)
  BY <1>u, <1>8 DEF Transcript
<1>16. Transcript(t)' = read[t] \o new.buf BY <1>u, <1>8 DEF Transcript
<1>17. turn[t].life = "open" /\ ~turn[t].over =>
         Numbers(Transcript(t)) = 1 .. f.seq - 1 /\ f.seq \in 0 .. MaxEvents
  BY <1>2, <1>5, <1>7 DEF IInv, NothingDropped, InHand, t, HubTurns
<1>18. /\ Transcript(t) \in Seq(Entries) /\ read[t] \o Append(turn[t].buf, e) \in Seq(Entries)
       /\ Len(read[t] \o Append(turn[t].buf, e)) = Len(Transcript(t)) + 1
       /\ \A i \in 1 .. Len(Transcript(t)) :
            (read[t] \o Append(turn[t].buf, e))[i] = Transcript(t)[i]
       /\ (read[t] \o Append(turn[t].buf, e))[Len(Transcript(t)) + 1] = e
  BY <1>6, <1>7, AppendToTranscript DEF Transcript
<1>a. turn[t].life = "open" /\ ~turn[t].over /\ new.buf = Append(turn[t].buf, e)
        => /\ Numbers(Transcript(t)') = Numbers(Transcript(t)) \cup {f.seq}
           /\ Increasing(Transcript(t)')
  <2> SUFFICES ASSUME turn[t].life = "open", ~turn[t].over, new.buf = Append(turn[t].buf, e)
               PROVE  /\ Numbers(Transcript(t)') = Numbers(Transcript(t)) \cup {f.seq}
                      /\ Increasing(Transcript(t)')
    OBVIOUS
  <2>1. Increasing(read[t] \o turn[t].buf) BY <1>2 DEF IInv, NoHoles, Transcript, t
  <2>2. \A n \in Numbers(read[t] \o turn[t].buf) : n < e.seq
    BY <1>6, <1>17, NodeAssumption DEF Transcript
  <2>3. /\ Increasing(read[t] \o Append(turn[t].buf, e))
        /\ Numbers(read[t] \o Append(turn[t].buf, e)) =
             Numbers(read[t] \o turn[t].buf) \cup {e.seq}
    BY <1>6, <1>7, <2>1, <2>2, AppendNumbers
  <2> QED BY <1>6, <1>16, <2>3 DEF Transcript
<1>19. NothingDropped'
  <2> SUFFICES ASSUME NEW u \in Turns, turn'[u].life = "open", ~turn'[u].over
               PROVE  Numbers(Transcript(u)') =
                        1 .. (IF \E g \in handler'[turn'[u].gen].held : g.turn = u
                              THEN turn'[u].highest - 1 ELSE turn'[u].highest)
    BY DEF NothingDropped, InHand
  <2>1. CASE u = t
    <3>1. /\ turn[t].life = "open" /\ ~turn[t].over /\ new.buf = Append(turn[t].buf, e)
          /\ new.highest = f.seq /\ new.gen = c
      BY <1>5, <1>8, <1>9, <2>1
    <3>2. Numbers(Transcript(t)') = 1 .. f.seq
      <4>1. Numbers(Transcript(t)') = (1 .. f.seq - 1) \cup {f.seq} BY <1>17, <1>a, <3>1
      <4>2. f.seq \in Nat /\ f.seq >= 1 BY <1>2, <1>c
      <4> QED BY <4>1, <4>2
    <3>3. handler'[turn'[t].gen].held = {} /\ turn'[t].highest = f.seq BY <1>4, <1>8, <3>1
    <3> QED BY <2>1, <3>2, <3>3
  <2>2. CASE u # t
    <3>1. turn[u].gen \in Conns BY <1>8, <2>2 DEF IInv, OpenInv
    <3>2. InHand(u) <=> \E g \in handler'[turn[u].gen].held : g.turn = u
      BY <1>2, <1>4, <2>2, <3>1 DEF InHand, t
    <3>3. Transcript(u)' = Transcript(u) /\ turn'[u] = turn[u] BY <1>8, <1>15, <2>2
    <3>4. Numbers(Transcript(u)) =
            1 .. (IF InHand(u) THEN turn[u].highest - 1 ELSE turn[u].highest)
      BY <3>3 DEF IInv, NothingDropped
    <3> QED BY <3>2, <3>3, <3>4
  <2> QED BY <2>1, <2>2
<1>20. NoHoles'
  <2> SUFFICES ASSUME NEW u \in Turns
               PROVE  /\ Increasing(Transcript(u)')
                      /\ \E n \in 0 .. MaxEvents : Numbers(Transcript(u)') = 1 .. n
    BY DEF NoHoles
  <2>1. CASE Transcript(u)' = Transcript(u) BY <2>1 DEF IInv, NoHoles
  <2>2. CASE Transcript(u)' # Transcript(u)
    <3>1. u = t BY <1>15, <2>2
    <3>2. new.buf # turn[t].buf BY <1>16, <2>2, <3>1 DEF Transcript
    <3>3. turn[t].life = "open" /\ ~turn[t].over /\ new.buf = Append(turn[t].buf, e)
      BY <1>9, <3>2
    <3>4. f.seq \in Nat /\ f.seq >= 1 /\ f.seq \in 0 .. MaxEvents BY <1>2, <1>c, <1>17, <3>3
    <3>5. Numbers(Transcript(t)') = (1 .. f.seq - 1) \cup {f.seq} BY <1>17, <1>a, <3>3
    <3>6. Numbers(Transcript(t)') = 1 .. f.seq BY <3>4, <3>5
    <3> QED BY <1>a, <3>1, <3>3, <3>4, <3>6
  <2> QED BY <2>1, <2>2
<1>21. OwnConnectionEnded'
  <2> SUFFICES ASSUME NEW u \in Turns,
                      \/ \E i \in 1 .. Len(Transcript(u)') : Transcript(u)'[i].why = "gone"
                      \/ \E g \in fails : g.turn = u /\ g.why = "gone"
               PROVE  turn[u].gen # table
    BY <1>u, <1>2, <1>8, <1>9 DEF OwnConnectionEnded, Told
  <2>1. ASSUME NEW i \in 1 .. Len(Transcript(u)'), Transcript(u)'[i].why = "gone"
        PROVE  Told(u, "gone")
    <3>1. CASE Transcript(u)' = Transcript(u) BY <2>1, <3>1 DEF Told
    <3>2. CASE Transcript(u)' # Transcript(u)
      <4>1. u = t BY <1>15, <3>2
      <4>2. new.buf # turn[t].buf BY <1>16, <3>2, <4>1 DEF Transcript
      <4>3. Transcript(t)' = read[t] \o Append(turn[t].buf, e) BY <1>9, <1>16, <4>2
      <4>4. Len(Transcript(t)) \in Nat BY <1>18
      <4>5. i # Len(Transcript(t)) + 1 BY <1>6, <1>18, <2>1, <4>1, <4>3
      <4>7. i \in 1 .. Len(Transcript(t)) + 1 BY <1>18, <4>1, <4>3
      <4>6. i \in 1 .. Len(Transcript(t)) BY <4>4, <4>5, <4>7
      <4> QED BY <1>18, <2>1, <4>1, <4>3, <4>6 DEF Told
    <3> QED BY <3>1, <3>2
  <2>2. Told(u, "gone") \/ \E g \in fails : g.turn = u /\ g.why = "gone" BY <2>1
  <2> QED BY <2>2 DEF IInv, OwnConnectionEnded
<1> QED BY <1>r, <1>10, <1>11, <1>12, <1>13, <1>14, <1>19, <1>20, <1>21 DEF IInv

\* The handler's read fails, and a connection that is on the table is taken off.
LEMMA DetachKeeps == ASSUME NEW c \in Conns, IInv, Detach(c) PROVE IInv'
<1>u. UNCHANGED <<sock, down, turn, fails, read, dev, exec>> BY DEF Detach
<1>r. SocketTypes' /\ DownTypes' /\ TurnTypes' /\ FailTypes' /\ ReadTypes' /\ ExecTypes'
      /\ RoomInv'
  BY <1>u DEF IInv, SocketTypes, DownTypes, TurnTypes, FailTypes, ReadTypes, ExecTypes, RoomInv
<1>r0. NoHoles' BY <1>u DEF IInv, NoHoles, Transcript
<1> DEFINE to == IF table = c THEN "orphan" ELSE "done"
<1>1. /\ handler[c].at = "read" /\ table' = (IF table = c THEN 0 ELSE table)
      /\ handler' = [handler EXCEPT ![c] = [@ EXCEPT !.at = to]]
      /\ up' = [up EXCEPT ![c] = <<>>]
  BY DEF Detach, Reading
<1>2. handler[c] \in Handlers /\ handler \in [Conns -> Handlers] /\ table \in 0 .. MaxConns
  BY DEF IInv, HandlerTypes, TableTypes
<1>3. /\ handler'[c].at = to /\ handler'[c].held = handler[c].held
      /\ \A d \in Conns : d # c => handler'[d] = handler[d]
  BY <1>1, <1>2 DEF Handlers
<1>4. HandlerTypes'
  <2>1. [handler[c] EXCEPT !.at = to] \in Handlers BY <1>2 DEF Handlers
  <2> QED BY <1>1, <1>3, <2>1 DEF IInv, HandlerTypes
<1>5. TableTypes' /\ UpTypes'
  BY <1>u, <1>1, <1>2, NodeAssumption DEF IInv, TableTypes, UpTypes
<1>6. 0 \notin Conns BY DEF Conns
<1>7. ConnInv'
  BY <1>u, <1>1, <1>2, <1>3, <1>6 DEF IInv, ConnInv, Conns
<1>8. OpenInv' /\ HeldInv' /\ NothingDropped' BY <1>u, <1>1, <1>3, HandlersMove DEF IInv, OpenInv
<1>9. OwnConnectionEnded'
  <2> SUFFICES ASSUME NEW u \in Turns,
                      Told(u, "gone") \/ (\E f \in fails : f.turn = u /\ f.why = "gone")
               PROVE  turn[u].gen # table'
    BY <1>u DEF OwnConnectionEnded, Told, Transcript
  <2>1. turn[u].life # "none" BY NothingTold DEF IInv, OpenInv
  <2>2. turn[u].gen \in Conns /\ turn[u].gen # table
    BY <2>1 DEF IInv, OpenInv, OwnConnectionEnded
  <2> QED BY <1>1, <1>6, <2>2
<1> QED BY <1>r, <1>r0, <1>4, <1>5, <1>7, <1>8, <1>9 DEF IInv

\* The machine notices that its connection is gone.
LEMMA DeviceNoticesKeeps == ASSUME IInv, DeviceNotices PROVE IInv'
<1>u. UNCHANGED <<sock, up, table, handler, turn, fails, read, exec>> BY DEF DeviceNotices
<1>r. SocketTypes' /\ UpTypes' /\ TurnTypes' /\ FailTypes' /\ ReadTypes' /\ ExecTypes'
      /\ HandlerTypes' /\ RoomInv'
  BY <1>u DEF IInv, SocketTypes, UpTypes, TurnTypes, FailTypes, ReadTypes, ExecTypes,
     HandlerTypes, RoomInv
<1>r0. ConnInv' BY <1>u DEF IInv, ConnInv
<1>r1. OpenInv' BY <1>u DEF IInv, OpenInv
<1>r2. HeldInv' BY <1>u DEF IInv, HeldInv
<1>r3. NothingDropped' BY <1>u DEF IInv, NothingDropped, InHand, Transcript
<1>r4. NoHoles' BY <1>u DEF IInv, NoHoles, Transcript
<1>r5. OwnConnectionEnded' BY <1>u DEF IInv, OwnConnectionEnded, Told, Transcript
<1>2. 0 \in 0 .. MaxConns /\ <<>> \in Seq(Frames) BY NodeAssumption
<1>1. TableTypes' /\ DownTypes' BY <1>u, <1>2 DEF DeviceNotices, IInv, TableTypes, DownTypes
<1> QED BY <1>r, <1>r0, <1>r1, <1>r2, <1>r3, <1>r4, <1>r5, <1>1 DEF IInv

\* The machine takes a dispatch or a cancel.
LEMMA DeviceReadsKeeps == ASSUME IInv, DeviceReads PROVE IInv'
<1>u. UNCHANGED <<sock, up, table, handler, turn, fails, read, dev>> BY DEF DeviceReads
<1>r. SocketTypes' /\ TableTypes' /\ UpTypes' /\ TurnTypes' /\ FailTypes' /\ ReadTypes'
      /\ HandlerTypes' /\ RoomInv'
  BY <1>u DEF IInv, SocketTypes, TableTypes, UpTypes, TurnTypes, FailTypes, ReadTypes,
     HandlerTypes, RoomInv
<1>r0. ConnInv' BY <1>u DEF IInv, ConnInv
<1>r1. OpenInv' BY <1>u DEF IInv, OpenInv
<1>r2. HeldInv' BY <1>u DEF IInv, HeldInv
<1>r3. NothingDropped' BY <1>u DEF IInv, NothingDropped, InHand, Transcript
<1>r4. NoHoles' BY <1>u DEF IInv, NoHoles, Transcript
<1>r5. OwnConnectionEnded' BY <1>u DEF IInv, OwnConnectionEnded, Told, Transcript
<1>1. /\ dev \in Conns /\ down[dev] # <<>> /\ down[dev] \in Seq(Frames)
      /\ down' = [down EXCEPT ![dev] = Tail(@)] /\ exec' = Handled(Head(down[dev]))
  BY NodeAssumption DEF DeviceReads, IInv, TableTypes, DownTypes, Conns
<1>2. Tail(down[dev]) \in Seq(Frames) /\ Head(down[dev]) \in Frames BY <1>1
<1>3. DownTypes' BY <1>1, <1>2 DEF IInv, DownTypes
<1> DEFINE f == Head(down[dev])
<1>4. f.turn \in Turns BY <1>2 DEF Frames
<1>7. 0 \in 0 .. MaxEvents /\ dev \in 0 .. MaxConns
  BY NodeAssumption DEF IInv, TableTypes
<1>5. [NoExec EXCEPT !.at = "taken", !.conn = dev] \in Execs BY <1>7 DEF NoExec, Execs
<1>6. ExecTypes' BY <1>1, <1>4, <1>5 DEF IInv, ExecTypes, Execs, Handled
<1> QED BY <1>r, <1>r0, <1>r1, <1>r2, <1>r3, <1>r4, <1>r5, <1>3, <1>6 DEF IInv

\* The machine says it has the turn.
LEMMA BeginKeeps == ASSUME NEW t \in Turns, IInv, Begin(t) PROVE IInv'
<1>u. UNCHANGED <<down, table, handler, turn, fails, read, dev>> BY DEF Begin
<1>r. TableTypes' /\ DownTypes' /\ TurnTypes' /\ FailTypes' /\ ReadTypes' /\ HandlerTypes'
      /\ RoomInv'
  BY <1>u DEF IInv, TableTypes, DownTypes, TurnTypes, FailTypes, ReadTypes, HandlerTypes, RoomInv
<1>r0. OpenInv' BY <1>u DEF IInv, OpenInv
<1>r1. HeldInv' BY <1>u DEF IInv, HeldInv
<1>r2. NothingDropped' BY <1>u DEF IInv, NothingDropped, InHand, Transcript
<1>r3. NoHoles' BY <1>u DEF IInv, NoHoles, Transcript
<1>r4. OwnConnectionEnded' BY <1>u DEF IInv, OwnConnectionEnded, Told, Transcript
<1>1. Frame("started", t, 0) \in Frames BY NodeAssumption DEF Frame, Frames
<1>2. LostConnection(t) \in BOOLEAN BY DEF LostConnection
<1>3. SocketTypes' /\ UpTypes' /\ \A c \in Conns : sock'[c] = "none" => sock[c] = "none"
  BY <1>1, <1>2, WriteKeeps DEF Begin, IInv
<1>4. ExecTypes' BY DEF Begin, IInv, ExecTypes, Execs
<1>5. ConnInv' BY <1>u, <1>3 DEF IInv, ConnInv
<1> QED BY <1>r, <1>r0, <1>r1, <1>r2, <1>r3, <1>r4, <1>3, <1>4, <1>5 DEF IInv

\* The machine refuses the turn.
LEMMA RefuseKeeps == ASSUME NEW t \in Turns, IInv, Refuse(t) PROVE IInv'
<1>u. UNCHANGED <<down, table, handler, turn, fails, read, dev>> BY DEF Refuse
<1>r. TableTypes' /\ DownTypes' /\ TurnTypes' /\ FailTypes' /\ ReadTypes' /\ HandlerTypes'
      /\ RoomInv'
  BY <1>u DEF IInv, TableTypes, DownTypes, TurnTypes, FailTypes, ReadTypes, HandlerTypes, RoomInv
<1>r0. OpenInv' BY <1>u DEF IInv, OpenInv
<1>r1. HeldInv' BY <1>u DEF IInv, HeldInv
<1>r2. NothingDropped' BY <1>u DEF IInv, NothingDropped, InHand, Transcript
<1>r3. NoHoles' BY <1>u DEF IInv, NoHoles, Transcript
<1>r4. OwnConnectionEnded' BY <1>u DEF IInv, OwnConnectionEnded, Told, Transcript
<1>1. Frame("refuse", t, 0) \in Frames BY NodeAssumption DEF Frame, Frames
<1>2. LostConnection(t) \in BOOLEAN BY DEF LostConnection
<1>3. SocketTypes' /\ UpTypes' /\ \A c \in Conns : sock'[c] = "none" => sock[c] = "none"
  BY <1>1, <1>2, WriteKeeps DEF Refuse, IInv
<1>4. ExecTypes'
  <2>0. 0 \in 0 .. MaxConns /\ 0 \in 0 .. MaxEvents BY NodeAssumption
  <2>1. Ended \in Execs BY <2>0 DEF Ended, NoExec, Execs
  <2> QED BY <2>1 DEF Refuse, IInv, ExecTypes
<1>5. ConnInv' BY <1>u, <1>3 DEF IInv, ConnInv
<1> QED BY <1>r, <1>r0, <1>r1, <1>r2, <1>r3, <1>r4, <1>3, <1>4, <1>5 DEF IInv

\* The machine reports the end of the turn.
LEMMA ReportKeeps == ASSUME NEW t \in Turns, IInv, Report(t) PROVE IInv'
<1>u. UNCHANGED <<down, table, handler, turn, fails, read, dev>> BY DEF Report
<1>r. TableTypes' /\ DownTypes' /\ TurnTypes' /\ FailTypes' /\ ReadTypes' /\ HandlerTypes'
      /\ RoomInv'
  BY <1>u DEF IInv, TableTypes, DownTypes, TurnTypes, FailTypes, ReadTypes, HandlerTypes, RoomInv
<1>r0. OpenInv' BY <1>u DEF IInv, OpenInv
<1>r1. HeldInv' BY <1>u DEF IInv, HeldInv
<1>r2. NothingDropped' BY <1>u DEF IInv, NothingDropped, InHand, Transcript
<1>r3. NoHoles' BY <1>u DEF IInv, NoHoles, Transcript
<1>r4. OwnConnectionEnded' BY <1>u DEF IInv, OwnConnectionEnded, Told, Transcript
<1>1. Frame("finish", t, 0) \in Frames BY NodeAssumption DEF Frame, Frames
<1>2. LostConnection(t) \in BOOLEAN BY DEF LostConnection
<1>3. SocketTypes' /\ UpTypes' /\ \A c \in Conns : sock'[c] = "none" => sock[c] = "none"
  BY <1>1, <1>2, WriteKeeps DEF Report, IInv
<1>4. ExecTypes'
  <2>0. 0 \in 0 .. MaxConns /\ 0 \in 0 .. MaxEvents BY NodeAssumption
  <2>1. Ended \in Execs BY <2>0 DEF Ended, NoExec, Execs
  <2> QED BY <2>1 DEF Report, IInv, ExecTypes
<1>5. ConnInv' BY <1>u, <1>3 DEF IInv, ConnInv
<1> QED BY <1>r, <1>r0, <1>r1, <1>r2, <1>r3, <1>r4, <1>3, <1>4, <1>5 DEF IInv

\* The machine writes an event of the agent.
LEMMA EmitKeeps == ASSUME NEW t \in Turns, IInv, Emit(t) PROVE IInv'
<1>u. UNCHANGED <<down, table, handler, turn, fails, read, dev>> BY DEF Emit
<1>r. TableTypes' /\ DownTypes' /\ TurnTypes' /\ FailTypes' /\ ReadTypes' /\ HandlerTypes'
      /\ RoomInv'
  BY <1>u DEF IInv, TableTypes, DownTypes, TurnTypes, FailTypes, ReadTypes, HandlerTypes, RoomInv
<1>r0. OpenInv' BY <1>u DEF IInv, OpenInv
<1>r1. HeldInv' BY <1>u DEF IInv, HeldInv
<1>r2. NothingDropped' BY <1>u DEF IInv, NothingDropped, InHand, Transcript
<1>r3. NoHoles' BY <1>u DEF IInv, NoHoles, Transcript
<1>r4. OwnConnectionEnded' BY <1>u DEF IInv, OwnConnectionEnded, Told, Transcript
<1>1. /\ exec[t] \in Execs /\ exec[t].sent \in Nat /\ exec[t].sent < MaxEvents
  BY DEF Emit, IInv, ExecTypes, Execs
<1>2. Frame("event", t, exec[t].sent + 1) \in Frames BY <1>1, NodeAssumption DEF Frame, Frames
<1>3. ContextEnded(t) \in BOOLEAN BY <1>1 DEF ContextEnded, LostConnection, Execs
<1>4. SocketTypes' /\ UpTypes' /\ \A c \in Conns : sock'[c] = "none" => sock[c] = "none"
  BY <1>2, <1>3, WriteKeeps DEF Emit, IInv
<1> DEFINE more == [exec[t] EXCEPT !.sent = @ + 1]
<1>5. ExecTypes'
  <2>0. 0 \in 0 .. MaxConns /\ 0 \in 0 .. MaxEvents BY NodeAssumption
  <2>1. Ended \in Execs BY <2>0 DEF Ended, NoExec, Execs
  <2>2. more \in Execs BY <1>1, NodeAssumption DEF Execs
  <2>3. PICK ok \in BOOLEAN :
          exec' = IF ok THEN [exec EXCEPT ![t] = more] ELSE [exec EXCEPT ![t] = Ended]
    BY DEF Emit
  <2>4. exec \in [Turns -> Execs] BY DEF IInv, ExecTypes
  <2> HIDE DEF more
  <2>5. CASE ok BY <2>2, <2>3, <2>4, <2>5 DEF ExecTypes
  <2>6. CASE ~ok BY <2>1, <2>3, <2>4, <2>6 DEF ExecTypes
  <2> QED BY <2>5, <2>6
<1>6. ConnInv' BY <1>u, <1>4 DEF IInv, ConnInv
<1> QED BY <1>r, <1>r0, <1>r1, <1>r2, <1>r3, <1>r4, <1>4, <1>5, <1>6 DEF IInv

\* The agent starts.
LEMMA StartAgentKeeps == ASSUME NEW t \in Turns, IInv, StartAgent(t) PROVE IInv'
<1>u. UNCHANGED <<sock, up, down, table, handler, turn, fails, read, dev>> BY DEF StartAgent
<1>r. SocketTypes' /\ TableTypes' /\ UpTypes' /\ DownTypes' /\ TurnTypes' /\ FailTypes'
      /\ ReadTypes' /\ HandlerTypes' /\ RoomInv'
  BY <1>u DEF IInv, SocketTypes, TableTypes, UpTypes, DownTypes, TurnTypes, FailTypes,
     ReadTypes, HandlerTypes, RoomInv
<1>r0. ConnInv' BY <1>u DEF IInv, ConnInv
<1>r1. OpenInv' BY <1>u DEF IInv, OpenInv
<1>r2. HeldInv' BY <1>u DEF IInv, HeldInv
<1>r3. NothingDropped' BY <1>u DEF IInv, NothingDropped, InHand, Transcript
<1>r4. NoHoles' BY <1>u DEF IInv, NoHoles, Transcript
<1>r5. OwnConnectionEnded' BY <1>u DEF IInv, OwnConnectionEnded, Told, Transcript
<1>1. ExecTypes' BY DEF StartAgent, IInv, ExecTypes, Execs
<1> QED BY <1>r, <1>r0, <1>r1, <1>r2, <1>r3, <1>r4, <1>r5, <1>1 DEF IInv

\* The agent exits.
LEMMA AgentExitsKeeps == ASSUME NEW t \in Turns, IInv, AgentExits(t) PROVE IInv'
<1>u. UNCHANGED <<sock, up, down, table, handler, turn, fails, read, dev>> BY DEF AgentExits
<1>r. SocketTypes' /\ TableTypes' /\ UpTypes' /\ DownTypes' /\ TurnTypes' /\ FailTypes'
      /\ ReadTypes' /\ HandlerTypes' /\ RoomInv'
  BY <1>u DEF IInv, SocketTypes, TableTypes, UpTypes, DownTypes, TurnTypes, FailTypes,
     ReadTypes, HandlerTypes, RoomInv
<1>r0. ConnInv' BY <1>u DEF IInv, ConnInv
<1>r1. OpenInv' BY <1>u DEF IInv, OpenInv
<1>r2. HeldInv' BY <1>u DEF IInv, HeldInv
<1>r3. NothingDropped' BY <1>u DEF IInv, NothingDropped, InHand, Transcript
<1>r4. NoHoles' BY <1>u DEF IInv, NoHoles, Transcript
<1>r5. OwnConnectionEnded' BY <1>u DEF IInv, OwnConnectionEnded, Told, Transcript
<1>1. ExecTypes' BY DEF AgentExits, IInv, ExecTypes, Execs
<1> QED BY <1>r, <1>r0, <1>r1, <1>r2, <1>r3, <1>r4, <1>r5, <1>1 DEF IInv

\* Reasons join those on their way, of turns that were opened and not for the end of a
\* connection.
LEMMA FailsJoin ==
  ASSUME IInv, UNCHANGED <<turn, read, handler, table>>,
         \A f \in fails' : f \in fails \/ (turn[f.turn].life # "none" /\ f.why # "gone")
  PROVE  /\ TurnTypes' /\ RoomInv' /\ OpenInv' /\ HeldInv' /\ NothingDropped' /\ NoHoles'
         /\ OwnConnectionEnded'
<1>1. TurnTypes' /\ RoomInv' /\ OpenInv' /\ HeldInv' /\ NothingDropped' /\ NoHoles'
  BY HandlersMove
<1>2. \A u \in Turns : Transcript(u)' = Transcript(u) BY DEF Transcript
<1>3. OwnConnectionEnded' BY <1>2 DEF IInv, OwnConnectionEnded, Told
<1> QED BY <1>1, <1>3

\* The handler counts an event and holds it.
LEMMA EventCounted ==
  ASSUME IInv, NEW c \in Conns, NEW f \in Frames, handler[c].held = {},
         Owned(c, f.turn), f.seq = turn[f.turn].highest + 1,
         turn' = [turn EXCEPT ![f.turn].highest = f.seq],
         handler' = [handler EXCEPT ![c].held = {f}],
         UNCHANGED <<sock, table, read, fails>>
  PROVE  /\ TurnTypes' /\ RoomInv' /\ OpenInv' /\ HeldInv' /\ NothingDropped' /\ NoHoles'
         /\ OwnConnectionEnded' /\ HandlerTypes' /\ ConnInv'
<1> DEFINE t == f.turn  new == [turn[t] EXCEPT !.highest = f.seq]
<1>1. /\ t \in Turns /\ f.seq \in 0 .. MaxEvents /\ turn[t] \in HubTurns
      /\ handler \in [Conns -> Handlers] /\ handler[c] \in Handlers
  BY DEF IInv, TurnTypes, HandlerTypes, Frames
<1>2. turn[t].life \in {"open", "closing"} /\ turn[t].gen = c BY DEF Owned, Registered
<1>3. /\ new \in HubTurns /\ new.start = turn[t].start /\ new.gen = turn[t].gen
      /\ new.life = turn[t].life /\ new.buf = turn[t].buf /\ new.highest = f.seq
      /\ new.over = turn[t].over /\ new.grace = turn[t].grace
  BY <1>1 DEF HubTurns
<1>4. turn' = [turn EXCEPT ![t] = new] OBVIOUS
<1> HIDE DEF new, t
<1>5. turn'[t] = new /\ \A u \in Turns : u # t => turn'[u] = turn[u]
  BY <1>1, <1>4 DEF IInv, TurnTypes
<1>6. /\ handler'[c].at = handler[c].at /\ handler'[c].prev = handler[c].prev
      /\ handler'[c].held = {f} /\ \A d \in Conns : d # c => handler'[d] = handler[d]
  BY <1>1 DEF Handlers
<1>7. TurnTypes' /\ RoomInv' BY <1>1, <1>3, <1>4, <1>5 DEF IInv, TurnTypes, RoomInv
<1>8. HandlerTypes'
  <2>1. [handler[c] EXCEPT !.held = {f}] \in Handlers BY <1>1 DEF Handlers
  <2>2. handler' = [handler EXCEPT ![c] = [handler[c] EXCEPT !.held = {f}]] OBVIOUS
  <2>3. handler' \in [Conns -> Handlers] BY <1>1, <2>1, <2>2
  <2> QED BY <1>6, <2>3 DEF IInv, HandlerTypes
<1>9. ConnInv' BY <1>6 DEF IInv, ConnInv, TableTypes, Conns
<1>10. OpenInv'
  <2> SUFFICES ASSUME NEW u \in Turns
               PROVE  /\ turn'[u].start \in {"idle", "got"} <=> turn'[u].life = "none"
                      /\ turn'[u].start # "idle" =>
                           /\ turn'[u].gen \in Conns
                           /\ handler'[turn'[u].gen].at \notin {"none", "hello"}
                      /\ turn'[u].life = "none" =>
                           /\ turn'[u].highest = 0 /\ turn'[u].buf = <<>> /\ read[u] = <<>>
                           /\ ~turn'[u].over /\ ~turn'[u].grace
                           /\ \A g \in fails : g.turn # u
    BY DEF OpenInv
  <2>1. CASE u = t BY <1>1, <1>2, <1>3, <1>5, <1>6, <2>1 DEF IInv, OpenInv
  <2>2. CASE u # t
    <3>1. \A d \in Conns : handler'[d].at = handler[d].at BY <1>6
    <3>2. turn'[u] = turn[u] BY <1>5, <2>2
    <3>3. /\ turn[u].start \in {"idle", "got"} <=> turn[u].life = "none"
          /\ turn[u].start # "idle" =>
               turn[u].gen \in Conns /\ handler[turn[u].gen].at \notin {"none", "hello"}
          /\ turn[u].life = "none" =>
               /\ turn[u].highest = 0 /\ turn[u].buf = <<>> /\ read[u] = <<>>
               /\ ~turn[u].over /\ ~turn[u].grace
               /\ \A g \in fails : g.turn # u
      BY DEF IInv, OpenInv
    <3>4. turn'[u].start # "idle" =>
            turn'[u].gen \in Conns /\ handler'[turn'[u].gen].at \notin {"none", "hello"}
      BY <3>1, <3>2, <3>3
    <3> QED BY <3>2, <3>3, <3>4
  <2> QED BY <2>1, <2>2
<1>11. HeldInv'
  <2> SUFFICES ASSUME NEW d \in Conns, NEW g \in handler'[d].held
               PROVE  /\ turn'[g.turn].life # "none" /\ turn'[g.turn].gen = d
                      /\ turn'[g.turn].highest = g.seq /\ g.seq # 0
    BY DEF HeldInv
  <2>1. CASE d = c
    <3>1. g = f BY <1>6, <2>1
    <3>2. f.seq # 0 BY <1>1 DEF HubTurns, t
    <3> QED BY <1>2, <1>3, <1>5, <2>1, <3>1, <3>2 DEF t
  <2>2. CASE d # c
    <3>1. g \in handler[d].held BY <1>6, <2>2
    <3>2. g.turn \in Turns BY <3>1 DEF IInv, HandlerTypes, Handlers, Frames
    <3>3. turn[g.turn].life # "none" /\ turn[g.turn].gen = d /\ turn[g.turn].highest = g.seq
          /\ g.seq # 0
      BY <3>1 DEF IInv, HeldInv
    <3>4. g.turn # t BY <1>2, <2>2, <3>3
    <3> QED BY <1>5, <3>2, <3>3, <3>4
  <2> QED BY <2>1, <2>2
<1>12. \A u \in Turns : Transcript(u)' = Transcript(u)
  BY <1>3, <1>5 DEF Transcript
<1>13. NothingDropped'
  <2> SUFFICES ASSUME NEW u \in Turns, turn'[u].life = "open", ~turn'[u].over
               PROVE  Numbers(Transcript(u)) =
                        1 .. (IF \E g \in handler'[turn'[u].gen].held : g.turn = u
                              THEN turn'[u].highest - 1 ELSE turn'[u].highest)
    BY <1>12 DEF NothingDropped, InHand
  <2>1. turn[u].life = "open" /\ ~turn[u].over /\ turn'[u].gen = turn[u].gen
    BY <1>3, <1>5
  <2>2. Numbers(Transcript(u)) =
          1 .. (IF InHand(u) THEN turn[u].highest - 1 ELSE turn[u].highest)
    BY <2>1 DEF IInv, NothingDropped
  <2>3. CASE u = t
    <3>1. ~InHand(u) BY <1>2, <2>3 DEF InHand
    <3>2. Numbers(Transcript(u)) = 1 .. turn[u].highest BY <2>2, <3>1
    <3>3. turn'[u].highest - 1 = turn[u].highest BY <1>1, <1>3, <1>5, <2>3 DEF t, HubTurns
    <3>4. \E g \in handler'[turn'[u].gen].held : g.turn = u
      BY <1>2, <1>6, <2>1, <2>3 DEF t
    <3> QED BY <2>2, <3>2, <3>3, <3>4
  <2>4. CASE u # t
    <3>1. turn[u].gen \in Conns BY <2>1 DEF IInv, OpenInv
    <3>2. InHand(u) <=> \E g \in handler'[turn[u].gen].held : g.turn = u
      BY <1>6, <2>4, <3>1 DEF InHand, t
    <3>3. turn'[u] = turn[u] BY <1>5, <2>4
    <3> QED BY <2>2, <3>2, <3>3
  <2> QED BY <2>3, <2>4
<1>14. NoHoles' BY <1>12 DEF IInv, NoHoles
<1>15. OwnConnectionEnded' BY <1>3, <1>5, <1>12 DEF IInv, OwnConnectionEnded, Told
<1> QED BY <1>7, <1>8, <1>9, <1>10, <1>11, <1>13, <1>14, <1>15

\* The Hub reads a frame.
LEMMA HubReadsKeeps == ASSUME NEW c \in Conns, IInv, HubReads(c) PROVE IInv'
<1> DEFINE f == Head(up[c])  t == f.turn
<1>1. /\ handler[c].held = {} /\ up[c] # <<>> /\ up' = [up EXCEPT ![c] = Tail(@)]
      /\ UNCHANGED <<sock, table, read, dev, exec>>
  BY DEF HubReads, Reading
<1>2. up \in [Conns -> Seq(Frames)] /\ down \in [Conns -> Seq(Frames)]
  BY DEF IInv, UpTypes, DownTypes
<1>3. f \in Frames /\ Tail(up[c]) \in Seq(Frames) BY <1>1, <1>2
<1>4. t \in Turns /\ turn[t] \in HubTurns BY <1>3 DEF Frames, IInv, TurnTypes
<1>5. SocketTypes' /\ TableTypes' /\ ReadTypes' /\ ExecTypes'
  BY <1>1 DEF IInv, SocketTypes, TableTypes, ReadTypes, ExecTypes
<1>6. UpTypes' BY <1>1, <1>2, <1>3 DEF UpTypes
<1>7. 0 \in 0 .. MaxEvents /\ c \in 0 .. MaxConns BY NodeAssumption DEF Conns
<1>8. Frame("cancel", t, 0) \in Frames BY <1>4, <1>7 DEF Frame, Frames
<1>9. Sent(down, c, Frame("cancel", t, 0)) \in [Conns -> Seq(Frames)]
  BY <1>2, <1>8, SentKeeps
<1>10. Owned(c, t) => turn[t].life \in {"open", "closing"} /\ turn[t].gen = c
  BY DEF Owned, Registered
<1>11. handler' = handler => HandlerTypes' /\ ConnInv'
  BY <1>1 DEF IInv, HandlerTypes, ConnInv
<1>a. \/ /\ ~Owned(c, t) /\ down' = Answer(c, t) /\ UNCHANGED <<turn, fails, handler>>
      \/ /\ Owned(c, t) /\ f.kind = "started"
         /\ IF turn[t].answered = "no" /\ turn[t].life = "open"
            THEN turn' = [turn EXCEPT ![t].answered = "started"] /\ UNCHANGED down
            ELSE down' = Sent(down, c, Frame("cancel", t, 0)) /\ UNCHANGED turn
         /\ UNCHANGED <<fails, handler>>
      \/ /\ Owned(c, t) /\ f.seq = turn[t].highest + 1
         /\ turn' = [turn EXCEPT ![t].highest = f.seq]
         /\ handler' = [handler EXCEPT ![c].held = {f}] /\ UNCHANGED <<down, fails>>
      \/ /\ Owned(c, t) /\ UNCHANGED <<down, turn, handler>>
         /\ \E T \in SUBSET {t}, why \in {"failed"} :
              fails' = fails \cup Failing(T, why, c)
      \/ /\ Owned(c, t) /\ turn' = [turn EXCEPT ![t] = Closed(@)]
         /\ fails' = FailsBut(t) /\ UNCHANGED <<down, handler>>
  <2>1. CASE f.kind = "event" /\ Owned(c, t) /\ f.seq # turn[t].highest + 1 BY <2>1 DEF HubReads
  <2>2. CASE ~(f.kind = "event" /\ Owned(c, t) /\ f.seq # turn[t].highest + 1)
    BY <2>2 DEF HubReads
  <2> QED BY <2>1, <2>2
<1> HIDE DEF t, f
<1>12. CASE ~Owned(c, t) /\ down' = Answer(c, t) /\ UNCHANGED <<turn, fails, handler>>
  <2>1. DownTypes' BY <1>2, <1>9, <1>12 DEF Answer, DownTypes
  <2>2. /\ TurnTypes' /\ RoomInv' /\ OpenInv' /\ HeldInv' /\ NothingDropped' /\ NoHoles'
        /\ OwnConnectionEnded'
    BY <1>1, <1>12, FailsJoin
  <2>3. FailTypes' BY <1>12 DEF IInv, FailTypes
  <2> QED BY <1>5, <1>6, <1>11, <1>12, <2>1, <2>2, <2>3 DEF IInv
<1>13. CASE /\ Owned(c, t) /\ turn[t].answered = "no" /\ turn[t].life = "open"
            /\ turn' = [turn EXCEPT ![t].answered = "started"]
            /\ UNCHANGED <<down, fails, handler>>
  <2> DEFINE new == [turn[t] EXCEPT !.answered = "started"]
  <2>1. turn' = [turn EXCEPT ![t] = new] BY <1>13
  <2>2. /\ new \in HubTurns /\ new.start = turn[t].start /\ new.gen = turn[t].gen
        /\ new.life = turn[t].life /\ new.buf = turn[t].buf /\ new.highest = turn[t].highest
        /\ new.over = turn[t].over /\ new.grace = turn[t].grace
    BY <1>4 DEF HubTurns
  <2>3. /\ turn[t].start \notin {"idle", "got"}
        /\ turn[t].gen \in Conns /\ handler[turn[t].gen].at \notin {"none", "hello"}
    BY <1>4, <1>13 DEF IInv, OpenInv
  <2> HIDE DEF new
  <2>4. /\ TurnTypes' /\ RoomInv' /\ OpenInv' /\ HeldInv' /\ NothingDropped' /\ NoHoles'
        /\ OwnConnectionEnded'
    <3>1. /\ UNCHANGED <<handler, read, table>>
          /\ new.over <=> turn[t].over
          /\ new.grace => turn[t].grace
          /\ new.start \in {"idle", "got"} <=> new.life = "none"
          /\ turn[t].life # "none" => new.life # "none" /\ new.gen = turn[t].gen
          /\ new.life = "open" => turn[t].life \in {"open", "none"}
          /\ new.start # "idle" =>
               new.gen \in Conns /\ handler[new.gen].at \notin {"none", "hello"}
          /\ \A g \in fails' : g \in fails
      BY <1>1, <1>13, <2>2, <2>3
    <3> QED BY <1>4, <2>1, <2>2, <3>1, QuietTurn
  <2>5. FailTypes' /\ DownTypes' BY <1>13 DEF IInv, FailTypes, DownTypes
  <2> QED BY <1>5, <1>6, <1>11, <1>13, <2>4, <2>5 DEF IInv
<1>14. CASE /\ down' = Sent(down, c, Frame("cancel", t, 0))
            /\ UNCHANGED <<turn, fails, handler>>
  <2>1. DownTypes' BY <1>9, <1>14 DEF DownTypes
  <2>2. /\ TurnTypes' /\ RoomInv' /\ OpenInv' /\ HeldInv' /\ NothingDropped' /\ NoHoles'
        /\ OwnConnectionEnded'
    BY <1>1, <1>14, FailsJoin
  <2>3. FailTypes' BY <1>14 DEF IInv, FailTypes
  <2> QED BY <1>5, <1>6, <1>11, <1>14, <2>1, <2>2, <2>3 DEF IInv
<1>15. CASE /\ Owned(c, t) /\ f.seq = turn[t].highest + 1
            /\ turn' = [turn EXCEPT ![t].highest = f.seq]
            /\ handler' = [handler EXCEPT ![c].held = {f}] /\ UNCHANGED <<down, fails>>
  <2>1. /\ TurnTypes' /\ RoomInv' /\ OpenInv' /\ HeldInv' /\ NothingDropped' /\ NoHoles'
        /\ OwnConnectionEnded' /\ HandlerTypes' /\ ConnInv'
    BY <1>1, <1>3, <1>15, EventCounted DEF t
  <2>2. FailTypes' /\ DownTypes' BY <1>15 DEF IInv, FailTypes, DownTypes
  <2> QED BY <1>5, <1>6, <2>1, <2>2 DEF IInv
<1>16. CASE /\ Owned(c, t) /\ UNCHANGED <<down, turn, handler>>
            /\ \E T \in SUBSET {t}, why \in {"failed"} :
                 fails' = fails \cup Failing(T, why, c)
  <2>1. \A g \in fails' : \/ g \in fails
                          \/ g \in Failures /\ g.turn = t /\ g.why # "gone"
    <3>1. PICK T \in SUBSET {t}, why \in {"failed"} :
            fails' = fails \cup Failing(T, why, c)
      BY <1>16
    <3>2. \A g \in Failing(T, why, c) : g \in Failures /\ g.turn = t /\ g.why # "gone"
      BY <1>4, <1>7 DEF Failing, Failures, Reasons
    <3> QED BY <3>1, <3>2
  <2>2. FailTypes' BY <2>1 DEF IInv, FailTypes
  <2>3. \A g \in fails' : g \in fails \/ (turn[g.turn].life # "none" /\ g.why # "gone")
    BY <1>10, <1>16, <2>1
  <2>4. /\ TurnTypes' /\ RoomInv' /\ OpenInv' /\ HeldInv' /\ NothingDropped' /\ NoHoles'
        /\ OwnConnectionEnded'
    BY <1>1, <1>16, <2>3, FailsJoin
  <2>5. DownTypes' BY <1>16 DEF IInv, DownTypes
  <2> QED BY <1>5, <1>6, <1>11, <1>16, <2>2, <2>4, <2>5 DEF IInv
<1>17. CASE /\ Owned(c, t) /\ turn' = [turn EXCEPT ![t] = Closed(@)]
            /\ fails' = FailsBut(t) /\ UNCHANGED <<down, handler>>
  <2> DEFINE new == Closed(turn[t])
  <2>1. turn' = [turn EXCEPT ![t] = new] BY <1>17
  <2>2. /\ turn[t].start \notin {"idle", "got"} /\ turn[t].life # "none"
        /\ turn[t].gen \in Conns /\ handler[turn[t].gen].at \notin {"none", "hello"}
    BY <1>4, <1>10, <1>17 DEF IInv, OpenInv
  <2>3. /\ new \in HubTurns /\ new.start = turn[t].start /\ new.gen = turn[t].gen
        /\ new.life \notin {"none", "open"} /\ new.buf = turn[t].buf
        /\ new.highest = turn[t].highest /\ new.over = turn[t].over
        /\ new.grace = turn[t].grace
    BY <1>4, <2>2, ClosedKeeps
  <2> HIDE DEF new
  <2>4. /\ TurnTypes' /\ RoomInv' /\ OpenInv' /\ HeldInv' /\ NothingDropped' /\ NoHoles'
        /\ OwnConnectionEnded'
    <3>1. /\ UNCHANGED <<handler, read, table>>
          /\ new.over <=> turn[t].over
          /\ new.grace => turn[t].grace
          /\ new.start \in {"idle", "got"} <=> new.life = "none"
          /\ turn[t].life # "none" => new.life # "none" /\ new.gen = turn[t].gen
          /\ new.life = "open" => turn[t].life \in {"open", "none"}
          /\ new.start # "idle" =>
               new.gen \in Conns /\ handler[new.gen].at \notin {"none", "hello"}
          /\ \A g \in fails' : g \in fails
      BY <1>1, <1>17, <2>2, <2>3 DEF FailsBut
    <3> QED BY <1>4, <2>1, <2>3, <3>1, QuietTurn
  <2>5. FailTypes' /\ DownTypes' BY <1>17 DEF IInv, FailTypes, DownTypes, FailsBut
  <2> QED BY <1>5, <1>6, <1>11, <1>17, <2>4, <2>5 DEF IInv
<1> QED BY <1>a, <1>12, <1>13, <1>14, <1>15, <1>16, <1>17

\* The invariant holds when the Hub starts.
LEMMA InitIInv == Init => IInv
<1> SUFFICES ASSUME Init PROVE IInv OBVIOUS
<1> USE NodeAssumption
<1>1. 0 \in 0 .. MaxConns /\ 0 \in 0 .. MaxEvents /\ 0 \notin Conns BY DEF Conns
<1>2. NoTurn \in HubTurns /\ NoTurn.buf = <<>> /\ NoTurn.start = "idle" /\ NoTurn.life = "none"
      /\ NoTurn.highest = 0 /\ ~NoTurn.over /\ ~NoTurn.grace
  <2>1. <<>> \in Seq(Entries) OBVIOUS
  <2> QED BY <1>1, <2>1 DEF NoTurn, HubTurns
<1>3. NoExec \in Execs BY <1>1 DEF NoExec, Execs
<1>4. NoHandler \in Handlers /\ NoHandler.at = "none" /\ NoHandler.held = {}
  BY <1>1 DEF NoHandler, Handlers
<1>5. SocketTypes /\ TableTypes /\ UpTypes /\ DownTypes /\ ReadTypes
  BY <1>1 DEF Init, SocketTypes, TableTypes, UpTypes, DownTypes, ReadTypes
<1>6. TurnTypes /\ FailTypes /\ ExecTypes /\ HandlerTypes
  BY <1>2, <1>3, <1>4 DEF Init, TurnTypes, FailTypes, ExecTypes, HandlerTypes
<1>7. RoomInv BY <1>2 DEF Init, RoomInv
<1>8. ConnInv BY <1>4 DEF Init, ConnInv
<1>9. OpenInv BY <1>2 DEF Init, OpenInv
<1>10. HeldInv BY <1>4 DEF Init, HeldInv
<1>11. NothingDropped BY <1>2 DEF Init, NothingDropped
<1>12. \A t \in Turns : Len(Transcript(t)) = 0
  BY <1>2, NothingTold DEF Init
<1>13. NoHoles
  <2>1. \A t \in Turns : Numbers(Transcript(t)) = 1 .. 0 /\ Increasing(Transcript(t))
    BY <1>12 DEF Numbers, Increasing
  <2> QED BY <1>1, <2>1 DEF NoHoles
<1>14. OwnConnectionEnded BY <1>12 DEF Init, OwnConnectionEnded, Told
<1> QED BY <1>5, <1>6, <1>7, <1>8, <1>9, <1>10, <1>11, <1>13, <1>14 DEF IInv

\* Every step of the Hub, of the machine and of the network keeps it.
LEMMA NextIInv == IInv /\ [Next]_vars => IInv'
<1> SUFFICES ASSUME IInv, [Next]_vars PROVE IInv' OBVIOUS
<1>1. ASSUME NEW t \in Turns,
             \/ GetConnection(t) \/ Open(t) \/ Dispatch(t) \/ EngineReads(t) \/ EngineCancels(t)
             \/ Grace(t) \/ CancelDevice(t) \/ Deadline(t)
      PROVE  IInv'
  BY <1>1, GetConnectionKeeps, OpenKeeps, DispatchKeeps, EngineReadsKeeps, EngineCancelsKeeps,
     GraceKeeps, CancelDeviceKeeps, DeadlineKeeps
<1>2. ASSUME NEW t \in Turns,
             \/ Begin(t) \/ Refuse(t) \/ StartAgent(t) \/ Emit(t) \/ AgentExits(t) \/ Report(t)
      PROVE  IInv'
  BY <1>2, BeginKeeps, RefuseKeeps, StartAgentKeeps, EmitKeeps, AgentExitsKeeps, ReportKeeps
<1>3. ASSUME NEW f \in fails, Fail(f) PROVE IInv'
  BY <1>3, PushReasonKeeps, CloseFailedKeeps DEF Fail
<1>4. ASSUME NEW c \in Conns,
             \/ Connect(c) \/ Break(c) \/ Attach(c) \/ Abandon(c) \/ ClosePrevious(c)
             \/ HubReads(c) \/ PushHeld(c) \/ Detach(c)
      PROVE  IInv'
  BY <1>4, ConnectKeeps, BreakKeeps, AttachKeeps, AbandonKeeps, ClosePreviousKeeps,
     HubReadsKeeps, PushHeldKeeps, DetachKeeps
<1>5. CASE DeviceNotices \/ DeviceReads BY <1>5, DeviceNoticesKeeps, DeviceReadsKeeps
<1>6. CASE UNCHANGED vars
  <2>1. UNCHANGED <<sock, up, down, table, handler, turn, fails, read, dev, exec>>
    BY <1>6 DEF vars
  <2>2. /\ TurnTypes' /\ RoomInv' /\ OpenInv' /\ HeldInv' /\ NothingDropped' /\ NoHoles'
        /\ OwnConnectionEnded'
    BY <2>1, FailsJoin
  <2>3. SocketTypes' /\ TableTypes' /\ UpTypes' /\ DownTypes' /\ FailTypes' /\ ReadTypes'
    BY <2>1 DEF IInv, SocketTypes, TableTypes, UpTypes, DownTypes, FailTypes, ReadTypes
  <2>4. ExecTypes' /\ HandlerTypes' /\ ConnInv'
    BY <2>1 DEF IInv, ExecTypes, HandlerTypes, ConnInv
  <2> QED BY <2>2, <2>3, <2>4 DEF IInv
<1> QED BY <1>1, <1>2, <1>3, <1>4, <1>5, <1>6 DEF Next

-----------------------------------------------------------------------------
(***************************************************************************)
(* Theorems                                                                *)
(***************************************************************************)

\* The inductive invariant holds in every reachable state.
THEOREM NodeTurnsInductive == Spec => []IInv
BY InitIInv, NextIInv, PTL DEF Spec

\* The state of the Hub's turns, of its connections and of the machine keeps its types;
\* a turn's buffer never holds more than Room entries and a handler one event at most.
THEOREM NodeTurnsTypes == Spec => []TypeOK
<1>1. IInv => TypeOK
  <2> SUFFICES ASSUME IInv PROVE TypeOK OBVIOUS
  <2>1. /\ sock \in [Conns -> {"none", "up", "broken"}]
        /\ table \in 0 .. MaxConns /\ dev \in 0 .. MaxConns
    BY DEF IInv, SocketTypes, TableTypes
  <2>2. ASSUME NEW c \in Conns
        PROVE  /\ \A i \in 1 .. Len(up[c]) : up[c][i] \in Frames
               /\ \A i \in 1 .. Len(down[c]) : down[c][i] \in Frames
    BY DEF IInv, UpTypes, DownTypes
  <2>3. ASSUME NEW c \in Conns
        PROVE  /\ handler[c].at \in
                    {"none", "hello", "displace", "close", "read", "orphan", "done"}
               /\ handler[c].prev \in 0 .. MaxConns
               /\ handler[c].held \subseteq Frames /\ Cardinality(handler[c].held) <= 1
    <3>1. handler[c] \in Handlers BY DEF IInv, HandlerTypes
    <3>2. CASE handler[c].held = {}
      BY <3>1, <3>2, FS_EmptySet DEF Handlers
    <3>3. CASE \E f \in Frames : handler[c].held = {f}
      <4>1. PICK f \in Frames : handler[c].held = {f} BY <3>3
      <4>2. Cardinality({f}) = 1 BY FS_Singleton
      <4> QED BY <3>1, <4>1, <4>2 DEF Handlers
    <3> QED BY <3>2, <3>3 DEF IInv, HandlerTypes
  <2>4. turn \in [Turns -> [start : {"idle", "got", "opened", "running", "failed"},
                         gen : 0 .. MaxConns, life : {"none", "open", "closing", "over"},
                         answered : {"no", "started", "gaveUp"}, over : BOOLEAN,
                         grace : BOOLEAN, cancel : BOOLEAN, highest : 0 .. MaxEvents,
                         buf : SeqMax(Entries, Room)]]
    <3>1. \A t \in Turns : turn[t] \in HubTurns /\ turn[t].buf \in SeqMax(Entries, Room)
      <4> SUFFICES ASSUME NEW t \in Turns
                   PROVE  turn[t] \in HubTurns /\ turn[t].buf \in SeqMax(Entries, Room)
        OBVIOUS
      <4>1. turn[t] \in HubTurns /\ turn[t].buf \in Seq(Entries) /\ Len(turn[t].buf) <= Room
        BY DEF IInv, TurnTypes, RoomInv, HubTurns
      <4>2. /\ Len(turn[t].buf) \in 0 .. Room
            /\ turn[t].buf \in [1 .. Len(turn[t].buf) -> Entries]
        BY <4>1, NodeAssumption
      <4> QED BY <4>1, <4>2 DEF SeqMax
    <3>2. turn \in [Turns -> HubTurns] BY DEF IInv, TurnTypes
    <3> QED BY <3>1, <3>2 DEF HubTurns
  <2>5. fails \subseteq
          [turn : Turns, why : Reasons, by : 0 .. MaxConns, at : {"push", "close"}]
    BY DEF IInv, FailTypes, Failures
  <2>6. exec \in [Turns -> [at : {"none", "taken", "begun", "agent", "report", "ended"},
                         conn : 0 .. MaxConns, stopped : BOOLEAN, sent : 0 .. MaxEvents]]
    BY DEF IInv, ExecTypes, Execs
  <2> QED BY <2>1, <2>2, <2>3, <2>4, <2>5, <2>6 DEF TypeOK
<1> QED BY <1>1, NodeTurnsInductive, PTL

\* Whatever overflows, breaks or ends in between, what the engine has been given of a turn
\* has no hole, and blames the end of a connection only if it was the turn's own
\* (turns.go:82-85, 335-337); in whatever order the handlers attach.
THEOREM TranscriptsHold == Spec => []TranscriptHolds
<1>1. IInv => TranscriptHolds BY DEF IInv, TranscriptHolds
<1> QED BY <1>1, NodeTurnsInductive, PTL
=============================================================================

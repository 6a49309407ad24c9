------------------------- MODULE NodeApprovalsProofs -------------------------
(***************************************************************************)
(* What the relay of permission questions keeps, for every number of       *)
(* questions and connections, whether the inbox can fail or not: the types *)
(* of the state, that an agent is told the decision the Hub's record       *)
(* shows, and that the machine knows the questions it asked while the      *)
(* connection they went up on lasts.                                       *)
(***************************************************************************)
EXTENDS NodeApprovals, TLAPS

\* What a queue of frames holds, and that it holds nothing twice.
Items(s) == {s[i] : i \in DOMAIN s}
Distinct(s) == \A i, j \in DOMAIN s : s[i] = s[j] => i = j

\* The machine has written the question to a socket, or has given it up.
Asked(q) == ask[q].at \in {"sent", "done"}

Serves1 == {"owned", "claimed", "created", "linked", "settle"}
Polls   == {"look", "decision", "wait"}

DownFrame ==
  [kind : {"status"}, question : Questions, what : {"accepted", "refused"}]
    \cup [kind : {"decision"}, question : Questions, what : Decisions]

Ask  == [at : {"idle", "tracked", "send", "sent", "done"}, conn : 0 .. MaxConns]
Wait == [at : {"none", "wait", "settle"}, outcome : Outcomes \cup {None}]
Dev  == [conn : 0 .. MaxConns, ending : BOOLEAN, linking : SUBSET Questions]
Hand == [at : {"none", "hello", "read", "owned", "claimed", "created", "linked", "settle",
               "abandon", "abandoning", "done"},
         question : Questions \cup {None}, gone : 0 .. MaxConns,
         doomed : SUBSET Questions, settling : SUBSET Questions]

AskTypes ==
  /\ agent \in {"live", "gone"} /\ ask \in [Questions -> Ask]
  /\ waiters \subseteq Questions /\ byID \subseteq Questions
  /\ said \in [Questions -> {None, "accepted", "refused", "gone"}]
  /\ channel \in [Questions -> Outcomes \cup {None}]
  /\ answered \in [Questions -> Outcomes \cup {None}]

ClientTypes ==
  /\ poll \in [Questions -> Outcomes \cup {"off", "look", "decision", "wait", "over"}]
  /\ stale \in [Questions -> Wait] /\ told \in [Questions -> Outcomes \cup {None}]
  /\ \A q \in Questions : stale[q].at = "settle" => stale[q].outcome # None

NetTypes ==
  /\ dev \in Dev /\ sock \in [Conns -> {"none", "up", "broken"}]
  /\ up \in [Conns -> Seq(Questions)] /\ down \in [Conns -> Seq(DownFrame)]

HandTypes ==
  /\ table \in 0 .. MaxConns /\ handler \in [Conns -> Hand]
  /\ \A c \in Conns : handler[c].at \in Serves1 <=> handler[c].question # None

HubTypes ==
  /\ turn \in {"open", "over"} /\ open \subseteq Questions
  /\ linked \subseteq Questions /\ stopped \subseteq Questions
  /\ await \in [Questions -> {"off", "wait", "decided", "send", "sent", "over"}]
  /\ row \in [Questions -> Decisions \cup {"none", "pending"}]

Types == AskTypes /\ ClientTypes /\ NetTypes /\ HandTypes /\ HubTypes

\* Connections in use are ones the machine has made; a question was sent on one.
ConnInv ==
  /\ sock[Home] # "none"
  /\ dev.conn # 0 => sock[dev.conn] # "none"
  /\ dev.ending => dev.conn = 0
  /\ \A q \in Questions :
       /\ ask[q].conn # 0 => sock[ask[q].conn] # "none"
       /\ ask[q].at \in {"send", "sent"} \/ poll[q] \in Polls => ask[q].conn # 0
       /\ poll[q] \in Polls => ask[q].at = "done"

\* A question is sent once and is in one place: with the machine, on the way up, or
\* with the handler that makes its row.
OnceInv ==
  /\ \A c \in Conns : Distinct(up[c])
  /\ \A c \in Conns : \A q \in Items(up[c]) : Asked(q) /\ ask[q].conn = c
  /\ \A c \in Conns : handler[c].question # None => c = Home /\ Asked(handler[c].question)
  /\ \A q \in Items(up[Home]) : row[q] = "none" /\ handler[Home].question # q
  /\ handler[Home].at \in {"owned", "claimed"} => row[handler[Home].question] = "none"
  /\ handler[Home].at \in {"created", "linked"} => row[handler[Home].question] # "none"
  /\ \A q \in Questions : ~Asked(q) => row[q] = "none"

\* What is said of a question is said of one that was asked, and its wait has a row.
SaidInv ==
  /\ \A q \in Questions : said[q] = "accepted" => Asked(q)
  /\ \A q \in dev.linking : Asked(q)
  /\ \A q \in Questions : await[q] # "off" => row[q] # "none"
  /\ \A q \in Questions : await[q] \in {"decided", "send", "sent"} => row[q] \in Decisions

\* A decision, wherever it is on its way to the agent, is the one of the record.
OnRecord(q, d) == d \in Decisions => row[q] = d

FrameFine(f) ==
  Asked(f.question) /\ (f.kind = "decision" => OnRecord(f.question, f.what))

FramesInv == \A c \in Conns : \A f \in Items(down[c]) : FrameFine(f)

RecordInv ==
  \A q \in Questions :
    /\ OnRecord(q, channel[q]) /\ OnRecord(q, answered[q]) /\ OnRecord(q, poll[q])
    /\ OnRecord(q, stale[q].outcome) /\ OnRecord(q, told[q])

\* A question whose id the agent's client has is known, as long as its connection lasts.
KnownInv ==
  \A q \in Questions :
    /\ poll[q] \in Polls \/ (ask[q].at = "sent" /\ said[q] = "accepted")
    /\ ask[q].conn = dev.conn
    => q \in byID \/ answered[q] # None

IInv == Types /\ ConnInv /\ OnceInv /\ SaidInv /\ FramesInv /\ RecordInv /\ KnownInv

\* What a step may do to the record of a question: a decision that was made stays.
RowsStand == \A q \in Questions : row[q] \in Decisions => row'[q] = row[q]

-----------------------------------------------------------------------------
(* Queues of frames *)

\* What is written to a queue comes last, and nothing else changes.
LEMMA Written ==
  ASSUME NEW S, NEW s \in Seq(S), NEW x \in S
  PROVE  /\ Append(s, x) \in Seq(S) /\ Items(Append(s, x)) \subseteq Items(s) \cup {x}
         /\ Distinct(s) /\ x \notin Items(s) => Distinct(Append(s, x))
<1>1. /\ Append(s, x) \in Seq(S) /\ Len(Append(s, x)) = Len(s) + 1 /\ Len(s) \in Nat
      /\ Append(s, x)[Len(s) + 1] = x /\ \A i \in 1..Len(s) : Append(s, x)[i] = s[i]
      /\ DOMAIN s = 1..Len(s) /\ DOMAIN Append(s, x) = 1..Len(s) + 1
  OBVIOUS
<1>2. Items(Append(s, x)) \subseteq Items(s) \cup {x}
  BY <1>1 DEF Items
<1>3. ASSUME Distinct(s), x \notin Items(s) PROVE Distinct(Append(s, x))
  <2>1. ASSUME NEW i \in 1..Len(s) + 1, NEW j \in 1..Len(s) + 1, Append(s, x)[i] = Append(s, x)[j]
        PROVE  i = j
    <3>1. CASE i \in 1..Len(s) /\ j \in 1..Len(s)
      BY <1>1, <1>3, <2>1, <3>1 DEF Distinct
    <3>2. CASE i = Len(s) + 1 /\ j \in 1..Len(s)
      BY <1>1, <1>3, <2>1, <3>2 DEF Items
    <3>3. CASE i \in 1..Len(s) /\ j = Len(s) + 1
      BY <1>1, <1>3, <2>1, <3>3 DEF Items
    <3> QED
      BY <1>1, <3>1, <3>2, <3>3
  <2> QED
    BY <1>1, <2>1 DEF Distinct
<1> QED
  BY <1>1, <1>2, <1>3

\* What is read is the first, and is not in the rest if nothing is there twice.
LEMMA ReadFirst ==
  ASSUME NEW S, NEW s \in Seq(S), s # <<>>
  PROVE  /\ Head(s) \in S /\ Head(s) \in Items(s) /\ Tail(s) \in Seq(S)
         /\ Items(Tail(s)) \subseteq Items(s)
         /\ Distinct(s) => Distinct(Tail(s)) /\ Head(s) \notin Items(Tail(s))
<1>1. /\ Tail(s) \in Seq(S) /\ Len(s) \in Nat \ {0} /\ Len(Tail(s)) = Len(s) - 1 /\ Head(s) = s[1]
      /\ \A i \in 1..Len(s) - 1 : Tail(s)[i] = s[i + 1] /\ i + 1 \in 1..Len(s)
      /\ DOMAIN s = 1..Len(s) /\ DOMAIN Tail(s) = 1..Len(s) - 1
  OBVIOUS
<1>2. 1 \in 1..Len(s) /\ \A i \in 1..Len(s) - 1 : i + 1 # 1
  BY <1>1
<1>3. Head(s) \in S /\ Head(s) \in Items(s) /\ Items(Tail(s)) \subseteq Items(s)
  BY <1>1, <1>2 DEF Items
<1>4. ASSUME Distinct(s) PROVE Distinct(Tail(s)) /\ Head(s) \notin Items(Tail(s))
  BY <1>1, <1>2, <1>4 DEF Items, Distinct
<1> QED
  BY <1>1, <1>3, <1>4

\* It holds what it may hold.
LEMMA ItemsTyped ==
  ASSUME NEW S, NEW s \in Seq(S)
  PROVE  Items(s) \subseteq S
BY DEF Items

\* A frame to the machine arrives at the end of its queue, or is lost.
LEMMA SentItems ==
  ASSUME NetTypes, NEW c \in Conns, NEW f \in DownFrame, down' = Sent(c, f)
  PROVE  /\ down' \in [Conns -> Seq(DownFrame)]
         /\ \A d \in Conns : Items(down'[d]) \subseteq Items(down[d]) \cup {f}
<1>1. down \in [Conns -> Seq(DownFrame)]
  BY DEF NetTypes
<1>2. CASE sock[c] = "up"
  <2>1. /\ Append(down[c], f) \in Seq(DownFrame)
        /\ Items(Append(down[c], f)) \subseteq Items(down[c]) \cup {f}
    BY <1>1, Written
  <2>2. down' = [down EXCEPT ![c] = Append(down[c], f)]
    BY <1>2 DEF Sent
  <2> QED
    BY <1>1, <2>1, <2>2
<1>3. CASE sock[c] # "up"
  BY <1>1, <1>3 DEF Sent
<1> QED
  BY <1>2, <1>3

\* The frames on their way stay right when some of them are lost or read,
LEMMA FramesStand ==
  ASSUME NetTypes, FramesInv, RowsStand, \A q \in Questions : Asked(q) => Asked(q)',
         \A c \in Conns : Items(down'[c]) \subseteq Items(down[c])
  PROVE  FramesInv'
<1>1. ASSUME NEW c \in Conns, NEW f \in Items(down'[c]) PROVE FrameFine(f)'
  <2>1. FrameFine(f) /\ f \in DownFrame
    <3>1. f \in Items(down[c]) /\ down[c] \in Seq(DownFrame)
      BY <1>1 DEF NetTypes
    <3>2. Items(down[c]) \subseteq DownFrame
      BY <3>1, ItemsTyped
    <3> QED
      BY <3>1, <3>2 DEF FramesInv
  <2>2. f.question \in Questions /\ (f.kind = "decision" => f.what \in Decisions)
    BY <2>1 DEF DownFrame
  <2> QED
    BY <2>1, <2>2 DEF FrameFine, OnRecord, RowsStand
<1> QED
  BY <1>1 DEF FramesInv

\* and when one is written that is right.
LEMMA FramesSent ==
  ASSUME NetTypes, FramesInv, RowsStand, UNCHANGED ask,
         NEW c \in Conns, NEW f \in DownFrame, down' = Sent(c, f), FrameFine(f)
  PROVE  FramesInv'
<1>1. ASSUME NEW d \in Conns, NEW g \in Items(down'[d]) PROVE FrameFine(g)'
  <2>1. FrameFine(g) /\ g \in DownFrame
    <3>1. g \in Items(down[d]) \cup {f} /\ down[d] \in Seq(DownFrame)
      BY <1>1, SentItems DEF NetTypes
    <3>2. Items(down[d]) \subseteq DownFrame
      BY <3>1, ItemsTyped
    <3> QED
      BY <3>1, <3>2 DEF FramesInv
  <2>2. g.question \in Questions /\ (g.kind = "decision" => g.what \in Decisions)
    BY <2>1 DEF DownFrame
  <2> QED
    BY <2>1, <2>2 DEF FrameFine, OnRecord, RowsStand, Asked
<1> QED
  BY <1>1 DEF FramesInv

-----------------------------------------------------------------------------
(* The record and the handlers *)

\* What decides a question does not touch a decision.
LEMMA RecordStands ==
  ASSUME RecordInv, RowsStand, UNCHANGED <<channel, answered, poll, stale, told>>
  PROVE  RecordInv'
BY DEF RecordInv, OnRecord, RowsStand

\* A handler takes up a question, goes on with it, or is done with it.
LEMMA HandServes ==
  ASSUME HandTypes, NEW c \in Conns, NEW l, NEW q, Serving(c, l, q), UNCHANGED table,
         (l \in Serves1 /\ q \in Questions) \/ (l = "read" /\ q = None)
  PROVE  /\ HandTypes' /\ handler'[c].at = l /\ handler'[c].question = q
         /\ \A d \in Conns \ {c} : handler'[d] = handler[d]
<1> DEFINE h == [handler[c] EXCEPT !.at = l, !.question = q]
<1>1. handler[c] \in Hand /\ None \notin Questions
  BY NodeApprovalsAssumption DEF HandTypes
<1>2. h \in Hand /\ h.at = l /\ h.question = q /\ (l \in Serves1 <=> q # None)
  BY <1>1 DEF Hand, Serves1
<1>3. handler' = [handler EXCEPT ![c] = h]
  BY DEF Serving
<1> HIDE DEF h
<1> QED
  BY <1>2, <1>3 DEF HandTypes

\* A handler between two questions goes on to something else than a question.
LEMMA HandMoves ==
  ASSUME HandTypes, NEW c \in Conns, NEW h \in Hand, handler' = [handler EXCEPT ![c] = h],
         h.at \notin Serves1, h.question = handler[c].question, handler[c].at \notin Serves1,
         table' \in 0 .. MaxConns
  PROVE  /\ HandTypes' /\ handler'[c].question = None
         /\ \A d \in Conns \ {c} : handler'[d] = handler[d]
<1>1. handler \in [Conns -> Hand] /\ handler[c].question = None
  BY DEF HandTypes
<1> QED
  BY <1>1 DEF HandTypes

\* Each question stays in its one place when the machine and the handlers go on, as
\* long as none is taken up and no row appears.
LEMMA OnceStands ==
  ASSUME OnceInv, HandTypes', \A q \in Questions : Asked(q) => Asked(q)' /\ ask'[q].conn = ask[q].conn,
         up \in [Conns -> Seq(Questions)],
         \A c \in Conns : Items(up'[c]) \subseteq Items(up[c]) /\ (Distinct(up[c]) => Distinct(up'[c])),
         \A q \in Questions : row'[q] = "none" <=> row[q] = "none",
         \A c \in Conns : handler'[c].question # None =>
           /\ handler'[c].question = handler[c].question
           /\ handler'[c].at \in {"owned", "claimed"} => handler[c].at \in {"owned", "claimed"}
           /\ handler'[c].at \in {"created", "linked"} => handler[c].at \in {"created", "linked"}
  PROVE  OnceInv'
<1>1. Home \in Conns /\ None \notin Questions
  BY NodeApprovalsAssumption DEF Home, Conns
<1>2. \A c \in Conns : \A q \in Items(up[c]) : q \in Questions
  BY DEF Items
<1>3. /\ \A c \in Conns : handler'[c] \in Hand
      /\ \A c \in Conns : handler'[c].at \in Serves1 <=> handler'[c].question # None
  BY DEF HandTypes
<1>4. \A c \in Conns : handler'[c].question \in Questions \cup {None}
  BY <1>3 DEF Hand
<1>5. \A c \in Conns : handler'[c].question # None =>
        c = Home /\ ask'[handler'[c].question].at \in {"sent", "done"}
  <2>1. ASSUME NEW c \in Conns, handler'[c].question # None
        PROVE  c = Home /\ ask'[handler'[c].question].at \in {"sent", "done"}
    <3>1. PICK q \in Questions : q = handler'[c].question /\ q = handler[c].question
      BY <1>4, <2>1
    <3>2. c = Home /\ Asked(q)
      BY <1>1, <3>1 DEF OnceInv
    <3> QED
      BY <3>1, <3>2 DEF Asked
  <2> QED
    BY <2>1
<1>6. /\ \A c \in Conns : Distinct(up'[c])
      /\ \A c \in Conns : \A q \in Items(up'[c]) : Asked(q)' /\ ask'[q].conn = c
  BY <1>2 DEF OnceInv
<1>7. \A q \in Items(up'[Home]) : row'[q] = "none" /\ handler'[Home].question # q
  <2>1. ASSUME NEW q \in Items(up'[Home]) PROVE row'[q] = "none" /\ handler'[Home].question # q
    <3>1. q \in Items(up[Home]) /\ q \in Questions /\ q # None
      BY <1>1, <1>2, <2>1
    <3> QED
      BY <1>1, <3>1 DEF OnceInv
  <2> QED
    BY <2>1
<1>8. /\ handler'[Home].at \in {"owned", "claimed"} => row'[handler'[Home].question] = "none"
      /\ handler'[Home].at \in {"created", "linked"} => row'[handler'[Home].question] # "none"
  BY <1>1, <1>3, <1>4 DEF OnceInv, Serves1
<1>9. \A q \in Questions : ~Asked(q)' => row'[q] = "none"
  BY DEF OnceInv
<1> QED
  BY <1>5, <1>6, <1>7, <1>8, <1>9 DEF OnceInv, Asked

-----------------------------------------------------------------------------
(* Parts a step does not touch *)

\* Each part of the invariant stays as it is when nothing it speaks of changes:
\* what the machine knows of its questions,
LEMMA AskSame ==
  AskTypes /\ UNCHANGED <<agent, ask, waiters, byID, said, channel, answered>> => AskTypes'
  BY DEF AskTypes, Asked, OnRecord, FrameFine

\* what the agent's client does and was told,
LEMMA ClientSame ==
  ClientTypes /\ UNCHANGED <<poll, stale, told>> => ClientTypes'
  BY DEF ClientTypes, Asked, OnRecord, FrameFine

\* the connection, its sockets and its queues,
LEMMA NetSame ==
  NetTypes /\ UNCHANGED <<dev, sock, up, down>> => NetTypes'
  BY DEF NetTypes, Asked, OnRecord, FrameFine

\* the Hub's handlers,
LEMMA HandSame ==
  HandTypes /\ UNCHANGED <<table, handler>> => HandTypes'
  BY DEF HandTypes, Asked, OnRecord, FrameFine

\* the Hub's table and rows,
LEMMA HubSame ==
  HubTypes /\ UNCHANGED <<turn, open, linked, stopped, await, row>> => HubTypes'
  BY DEF HubTypes, Asked, OnRecord, FrameFine

\* which connection a question is on,
LEMMA ConnSame ==
  ConnInv /\ UNCHANGED <<dev, sock, ask, poll>> => ConnInv'
  BY DEF ConnInv, Asked, OnRecord, FrameFine

\* where it is,
LEMMA OnceSame ==
  OnceInv /\ UNCHANGED <<up, ask, handler, row>> => OnceInv'
  BY DEF OnceInv, Asked, OnRecord, FrameFine

\* what was said of it,
LEMMA SaidSame ==
  SaidInv /\ UNCHANGED <<said, ask, dev, await, row>> => SaidInv'
  BY DEF SaidInv, Asked, OnRecord, FrameFine

\* what is on the way down,
LEMMA FramesSame ==
  FramesInv /\ UNCHANGED <<down, ask, row>> => FramesInv'
  BY DEF FramesInv, Asked, OnRecord, FrameFine

\* the decisions on their way to the agent,
LEMMA RecordSame ==
  RecordInv /\ UNCHANGED <<row, channel, answered, poll, stale, told>> => RecordInv'
  BY DEF RecordInv, Asked, OnRecord, FrameFine

\* and which questions are known.
LEMMA KnownSame ==
  KnownInv /\ UNCHANGED <<poll, ask, dev, said, byID, answered, stale>> => KnownInv'
  BY DEF KnownInv, Asked, OnRecord, FrameFine

-----------------------------------------------------------------------------
(* The steps *)

\* ApprovalRelay.Ask: a question is tracked, written once to one connection, and then
\* given up or handed to the client, who polls for one that is known.
LEMMA AskKeeps ==
  ASSUME IInv, NEW q \in Questions,
         Begin(q) \/ GetSender(q) \/ Send(q) \/ AskFails(q) \/ AskAccepted(q)
  PROVE  IInv'
<1>0. /\ AskTypes /\ ClientTypes /\ NetTypes /\ HandTypes /\ HubTypes
      /\ ConnInv /\ OnceInv /\ SaidInv /\ FramesInv /\ RecordInv /\ KnownInv
  BY DEF IInv, Types
<1>1. CASE Begin(q)
  <2>1. ClientTypes' /\ NetTypes' /\ HandTypes' /\ HubTypes' /\ RecordInv'
    BY <1>0, <1>1, ClientSame, NetSame, HandSame, HubSame, RecordSame
       DEF Begin, client, network, hub
  <2>2. AskTypes'
    BY <1>0, <1>1, ZenonT(40) DEF AskTypes, Ask, ClientTypes, HubTypes, NetTypes, Conns, Outcomes,
       Begin, AskGoes, client, network, hub
  <2>3. ConnInv'
    BY <1>0, <1>1 DEF AskTypes, Ask, ClientTypes, NetTypes, Dev, ConnInv, Polls, Begin,
       AskGoes, client, network, hub
  <2>4. OnceInv'
    BY <1>0, <1>1 DEF AskTypes, Ask, OnceInv, Asked, Begin, AskGoes, client, network, hub
  <2>5. SaidInv'
    BY <1>0, <1>1 DEF AskTypes, Ask, NetTypes, Dev, HubTypes, SaidInv, Asked, Begin,
       AskGoes, client, network, hub
  <2>6. FramesInv'
    <3>1. \A x \in Questions : Asked(x) => Asked(x)'
      BY <1>0, <1>1 DEF AskTypes, Ask, Asked, AskGoes, Begin
    <3> QED
      BY <1>0, <1>1, <3>1, FramesStand DEF RowsStand, Begin, network, hub
  <2>7. KnownInv'
    BY <1>0, <1>1 DEF AskTypes, Ask, ClientTypes, NetTypes, Dev, KnownInv, Polls, Begin,
       AskGoes, client, network, hub
  <2> QED
    BY <2>1, <2>2, <2>3, <2>4, <2>5, <2>6, <2>7 DEF IInv, Types
<1>2. CASE GetSender(q)
  <2>1. dev.conn \in 0 .. MaxConns /\ dev.conn # 0
    BY <1>0, <1>2 DEF NetTypes, Dev, GetSender
  <2> DEFINE a == [at |-> "send", conn |-> dev.conn]
  <2>2. a \in Ask /\ a.at = "send" /\ a.conn = dev.conn
    BY <2>1 DEF Ask
  <2>3. ask' = [ask EXCEPT ![q] = a] /\ ask[q].at = "tracked"
    BY <1>2 DEF GetSender
  <2> HIDE DEF a
  <2>4. /\ ask' \in [Questions -> Ask] /\ ask'[q].at = "send" /\ ask'[q].conn = dev.conn
        /\ \A x \in Questions \ {q} : ask'[x] = ask[x]
    BY <1>0, <2>2, <2>3 DEF AskTypes
  <2>5. ~Asked(q) /\ ~Asked(q)' /\ \A x \in Questions : (Asked(x) <=> Asked(x)') /\ (x # q => ask'[x] = ask[x])
    BY <2>3, <2>4 DEF Asked
  <2>6. ClientTypes' /\ NetTypes' /\ HandTypes' /\ HubTypes' /\ RecordInv'
    BY <1>0, <1>2, ClientSame, NetSame, HandSame, HubSame, RecordSame
       DEF GetSender, client, network, hub
  <2>7. AskTypes'
    BY <1>0, <1>2, <2>4 DEF AskTypes, GetSender
  <2>8. ConnInv'
    BY <1>0, <1>2, <2>1, <2>4 DEF ConnInv, GetSender, client, network
  <2>9. OnceInv'
    BY <1>0, <1>2, <2>5, OnceStands DEF NetTypes, HandTypes, GetSender, network, hub
  <2>10. SaidInv'
    BY <1>0, <1>2, <2>5 DEF SaidInv, NetTypes, Dev, GetSender, hub
  <2>11. FramesInv'
    BY <1>0, <1>2, <2>5, FramesStand DEF RowsStand, GetSender, network, hub
  <2>12. KnownInv'
    <3>1. poll[q] \notin Polls \/ ask[q].conn # 0
      BY <1>0 DEF ConnInv
    <3> QED
      BY <1>0, <1>2, <2>3, <2>4, <2>5 DEF KnownInv, ConnInv, GetSender, client
  <2> QED
    BY <2>6, <2>7, <2>8, <2>9, <2>10, <2>11, <2>12 DEF IInv, Types
<1>3. CASE Send(q)
  <2>1. /\ ask' \in [Questions -> Ask] /\ ask'[q].at = "sent" /\ ask'[q].conn = ask[q].conn
        /\ \A x \in Questions \ {q} : ask'[x] = ask[x]
    BY <1>0, <1>3 DEF AskTypes, Ask, Send, AskGoes
  <2>2. ~Asked(q) /\ Asked(q)' /\ \A x \in Questions : Asked(x) => Asked(x)' /\ ask'[x].conn = ask[x].conn
    BY <1>3, <2>1 DEF Asked, Send
  <2>3. /\ ask[q].conn \in Conns /\ row[q] = "none" /\ said[q] # "accepted"
        /\ \A c \in Conns : q \notin Items(up[c]) /\ handler[c].question # q
    <3>1. ask[q].conn \in 0 .. MaxConns /\ ask[q].conn # 0 /\ q # None
      BY <1>0, <1>3, NodeApprovalsAssumption DEF AskTypes, Ask, ConnInv, Send
    <3> QED
      BY <1>0, <2>2, <3>1 DEF OnceInv, SaidInv, Conns
  <2>4. /\ up' \in [Conns -> Seq(Questions)]
        /\ \A c \in Conns : c # ask[q].conn => up'[c] = up[c]
        /\ Items(up'[ask[q].conn]) \subseteq Items(up[ask[q].conn]) \cup {q}
        /\ Distinct(up'[ask[q].conn])
    <3> DEFINE c == ask[q].conn
    <3>1. up[c] \in Seq(Questions) /\ c \in Conns /\ up \in [Conns -> Seq(Questions)] /\ Distinct(up[c])
      BY <1>0, <2>3 DEF NetTypes, OnceInv
    <3>2. CASE sock[c] = "up"
      <4>1. up' = [up EXCEPT ![c] = Append(up[c], q)]
        BY <1>3, <3>2 DEF Send
      <4>2. /\ Append(up[c], q) \in Seq(Questions) /\ Distinct(Append(up[c], q))
            /\ Items(Append(up[c], q)) \subseteq Items(up[c]) \cup {q}
        BY <2>3, <3>1, Written
      <4> HIDE DEF c
      <4>3. up' \in [Conns -> Seq(Questions)] /\ up'[c] = Append(up[c], q)
            /\ \A d \in Conns : d # c => up'[d] = up[d]
        BY <3>1, <4>1, <4>2
      <4> QED
        BY <4>2, <4>3 DEF c
    <3>3. CASE sock[c] # "up"
      <4>1. up' = up
        BY <1>3, <3>3 DEF Send
      <4> QED
        BY <3>1, <4>1
    <3> QED
      BY <3>2, <3>3
  <2>5. ClientTypes' /\ HandTypes' /\ HubTypes' /\ RecordInv'
    BY <1>0, <1>3, ClientSame, HandSame, HubSame, RecordSame DEF Send, client, hub
  <2>6. AskTypes'
    BY <1>0, <1>3, <2>1 DEF AskTypes, Send
  <2>7. NetTypes'
    BY <1>0, <1>3, <2>4 DEF NetTypes, Send
  <2>8. ConnInv'
    BY <1>0, <1>3, <2>1 DEF ConnInv, Send, client
  <2>9. OnceInv'
    <3>1. /\ \A c \in Conns : Distinct(up'[c])
          /\ \A c \in Conns : \A x \in Items(up'[c]) :
               (x = q /\ c = ask[q].conn) \/ (x \in Items(up[c]) /\ x # q)
      <4>1. ASSUME NEW c \in Conns
            PROVE  /\ Distinct(up'[c])
                   /\ \A x \in Items(up'[c]) : (x = q /\ c = ask[q].conn) \/ (x \in Items(up[c]) /\ x # q)
        <5>1. CASE c = ask[q].conn
          BY <2>3, <2>4, <5>1
        <5>2. CASE c # ask[q].conn
          BY <1>0, <2>3, <2>4, <5>2 DEF OnceInv
        <5> QED
          BY <5>1, <5>2
      <4> QED
        BY <4>1
    <3>2. \A c \in Conns : \A x \in Items(up[c]) : x \in Questions
      BY <1>0 DEF NetTypes, Items
    <3>3. UNCHANGED <<handler, row>> /\ Home \in Conns /\ None \notin Questions
      BY <1>3, NodeApprovalsAssumption DEF Send, hub, Home, Conns
    <3>4. /\ \A c \in Conns : handler[c].question \in Questions \cup {None}
          /\ \A c \in Conns : handler[c].question # None =>
               c = Home /\ ask'[handler[c].question].at \in {"sent", "done"}
      <4>1. \A c \in Conns : handler[c].question \in Questions \cup {None}
        BY <1>0 DEF HandTypes, Hand
      <4> QED
        BY <1>0, <2>2, <4>1 DEF OnceInv, Asked
    <3>5. \A c \in Conns : \A x \in Items(up'[c]) : Asked(x)' /\ ask'[x].conn = c
      BY <1>0, <2>1, <2>2, <3>1, <3>2 DEF OnceInv
    <3>6. \A x \in Items(up'[Home]) : row[x] = "none" /\ handler[Home].question # x
      BY <1>0, <2>3, <3>1, <3>3 DEF OnceInv
    <3>7. \A x \in Questions : ~Asked(x)' => row[x] = "none"
      BY <1>0, <2>2 DEF OnceInv
    <3> QED
      BY <1>0, <3>1, <3>3, <3>4, <3>5, <3>6, <3>7 DEF OnceInv, Asked
  <2>10. SaidInv'
    BY <1>0, <1>3, <2>2 DEF SaidInv, NetTypes, Dev, Send, hub
  <2>11. FramesInv'
    BY <1>0, <1>3, <2>2, FramesStand DEF RowsStand, Send, hub
  <2>12. KnownInv'
    BY <1>0, <1>3, <2>1, <2>3 DEF KnownInv, Send, client
  <2> QED
    BY <2>5, <2>6, <2>7, <2>8, <2>9, <2>10, <2>11, <2>12 DEF IInv, Types
<1>4. CASE AskFails(q)
  <2>1. NetTypes' /\ HandTypes' /\ HubTypes'
    BY <1>0, <1>4, NetSame, HandSame, HubSame DEF AskFails, network, hub
  <2>2. AskTypes'
    BY <1>0, <1>4, ZenonT(40) DEF AskTypes, Ask, ClientTypes, HubTypes, NetTypes, Conns, Outcomes,
       AskFails, AskGoes, Forget, Tell, network, hub
  <2>3. ClientTypes'
    BY <1>0, <1>4 DEF AskTypes, ClientTypes, Wait, HubTypes, Conns, Outcomes, AskFails,
       AskGoes, Forget, Tell, network, hub
  <2>4. ConnInv'
    BY <1>0, <1>4 DEF AskTypes, Ask, ClientTypes, NetTypes, Dev, ConnInv, Polls, AskFails,
       AskGoes, Forget, Tell, network, hub
  <2>5. OnceInv'
    BY <1>0, <1>4 DEF AskTypes, Ask, OnceInv, Asked, AskFails, AskGoes, Forget, Tell,
       network, hub
  <2>6. SaidInv'
    BY <1>0, <1>4 DEF AskTypes, Ask, NetTypes, Dev, HubTypes, SaidInv, Asked, AskFails,
       AskGoes, Forget, Tell, network, hub
  <2>7. FramesInv'
    <3>1. \A x \in Questions : Asked(x) => Asked(x)'
      BY <1>0, <1>4 DEF AskTypes, Ask, Asked, AskGoes, AskFails
    <3> QED
      BY <1>0, <1>4, <3>1, FramesStand DEF RowsStand, AskFails, network, hub
  <2>8. RecordInv'
    BY <1>0, <1>4 DEF AskTypes, ClientTypes, RecordInv, OnRecord, Decisions, Outcomes,
       AskFails, AskGoes, Forget, Tell, network, hub
  <2>9. KnownInv'
    BY <1>0, <1>4 DEF AskTypes, Ask, ClientTypes, NetTypes, Dev, KnownInv, Polls, AskFails,
       AskGoes, Forget, Tell, network, hub
  <2> QED
    BY <2>1, <2>2, <2>3, <2>4, <2>5, <2>6, <2>7, <2>8, <2>9 DEF IInv, Types
<1>5. CASE AskAccepted(q)
  <2>1. NetTypes' /\ HandTypes' /\ HubTypes'
    BY <1>0, <1>5, NetSame, HandSame, HubSame DEF AskAccepted, network, hub
  <2>2. AskTypes'
    BY <1>0, <1>5, ZenonT(40) DEF AskTypes, Ask, ClientTypes, HubTypes, NetTypes, Conns, Outcomes,
       AskAccepted, AskGoes, network, hub
  <2>3. ClientTypes'
    BY <1>0, <1>5 DEF AskTypes, ClientTypes, Wait, HubTypes, Conns, Outcomes, AskAccepted,
       AskGoes, network, hub
  <2>4. ConnInv'
    BY <1>0, <1>5 DEF AskTypes, Ask, ClientTypes, NetTypes, Dev, ConnInv, Polls,
       AskAccepted, AskGoes, network, hub
  <2>5. OnceInv'
    BY <1>0, <1>5 DEF AskTypes, Ask, OnceInv, Asked, AskAccepted, AskGoes, network, hub
  <2>6. SaidInv'
    BY <1>0, <1>5 DEF AskTypes, Ask, NetTypes, Dev, HubTypes, SaidInv, Asked, AskAccepted,
       AskGoes, network, hub
  <2>7. FramesInv'
    <3>1. \A x \in Questions : Asked(x) => Asked(x)'
      BY <1>0, <1>5 DEF AskTypes, Ask, Asked, AskGoes, AskAccepted
    <3> QED
      BY <1>0, <1>5, <3>1, FramesStand DEF RowsStand, AskAccepted, network, hub
  <2>8. RecordInv'
    BY <1>0, <1>5 DEF AskTypes, ClientTypes, RecordInv, OnRecord, Decisions, Outcomes,
       AskAccepted, AskGoes, network, hub
  <2>9. KnownInv'
    BY <1>0, <1>5 DEF AskTypes, Ask, ClientTypes, NetTypes, Dev, KnownInv, Polls,
       AskAccepted, AskGoes, network, hub
  <2> QED
    BY <2>1, <2>2, <2>3, <2>4, <2>5, <2>6, <2>7, <2>8, <2>9 DEF IInv, Types
<1> QED
  BY <1>1, <1>2, <1>3, <1>4, <1>5

\* The agent ends: no question is asked or polled for any more.
LEMMA AgentEndKeeps ==
  ASSUME IInv,
         AgentEnds
  PROVE  IInv'
<1>0. /\ AskTypes /\ ClientTypes /\ NetTypes /\ HandTypes /\ HubTypes
      /\ ConnInv /\ OnceInv /\ SaidInv /\ FramesInv /\ RecordInv /\ KnownInv
  BY DEF IInv, Types
<1>1. CASE AgentEnds
  <2>1. ask' \in [Questions -> Ask] /\ \A x \in Questions : ask'[x].at = "done"
        /\ ask'[x].conn = ask[x].conn
    BY <1>0, <1>1 DEF AskTypes, Ask, AgentEnds
  <2>2. \A x \in Questions : Asked(x)'
    BY <2>1 DEF Asked
  <2>3. NetTypes' /\ HandTypes' /\ HubTypes'
    BY <1>0, <1>1, NetSame, HandSame, HubSame DEF AgentEnds, network, hub
  <2>4. AskTypes'
    BY <1>0, <1>1, <2>1 DEF AskTypes, AgentEnds
  <2>5. ClientTypes'
    BY <1>0, <1>1 DEF AskTypes, ClientTypes, Wait, HubTypes, Conns, Outcomes, AgentEnds,
       network, hub
  <2>6. ConnInv'
    BY <1>0, <1>1, <2>1 DEF ConnInv, Polls, AgentEnds, network, hub
  <2>7. OnceInv'
    BY <1>0, <1>1, <2>1, <2>2, OnceStands DEF NetTypes, HandTypes, AgentEnds, network, hub
  <2>8. SaidInv'
    BY <1>0, <1>1, <2>2 DEF SaidInv, NetTypes, Dev, AgentEnds, network, hub
  <2>9. FramesInv'
    BY <1>0, <1>1, <2>2, FramesStand DEF RowsStand, AgentEnds, network, hub
  <2>10. RecordInv'
    BY <1>0, <1>1 DEF AskTypes, ClientTypes, RecordInv, OnRecord, Decisions, Outcomes,
       AgentEnds, network, hub
  <2>11. KnownInv'
    BY <1>0, <1>1, <2>1 DEF KnownInv, Polls, AgentEnds
  <2> QED
    BY <2>3, <2>4, <2>5, <2>6, <2>7, <2>8, <2>9, <2>10, <2>11 DEF IInv, Types
<1> QED
  BY <1>1

\* A poll takes what it tells the agent from the channel or from the outcomes kept, and
\* an outcome that is read is kept for the next poll.
LEMMA PollKeeps ==
  ASSUME IInv, NEW q \in Questions,
         Look(q) \/ Decision(q) \/ Hear(q) \/ Return(q) \/ CallTimesOut(q) \/
         StaleEnds(q) \/ StaleHears(q) \/ StaleSettles(q)
  PROVE  IInv'
<1>0. /\ AskTypes /\ ClientTypes /\ NetTypes /\ HandTypes /\ HubTypes
      /\ ConnInv /\ OnceInv /\ SaidInv /\ FramesInv /\ RecordInv /\ KnownInv
  BY DEF IInv, Types
<1>1. CASE Look(q)
  <2>1. AskTypes' /\ NetTypes' /\ HandTypes' /\ HubTypes' /\ OnceInv' /\ SaidInv'
        /\ FramesInv'
    BY <1>0, <1>1, AskSame, NetSame, HandSame, HubSame, OnceSame, SaidSame, FramesSame
       DEF Look, relay, network, hub
  <2>2. ClientTypes'
    BY <1>0, <1>1 DEF AskTypes, ClientTypes, Wait, HubTypes, Conns, Outcomes, Look, Tell,
       relay, network, hub
  <2>3. ConnInv'
    BY <1>0, <1>1 DEF AskTypes, Ask, ClientTypes, NetTypes, Dev, ConnInv, Polls, Look,
       Tell, relay, network, hub
  <2>4. RecordInv'
    <3>1. \A x \in Questions : poll'[x] \in {poll[x], "decision", "over", "error"} /\ told'[x] \in {told[x], "error"}
      BY <1>0, <1>1 DEF ClientTypes, Look, Tell
    <3> QED
      BY <1>0, <1>1, <3>1 DEF RecordInv, OnRecord, Decisions, Look, relay, hub
  <2>5. KnownInv'
    BY <1>0, <1>1 DEF AskTypes, Ask, ClientTypes, NetTypes, Dev, KnownInv, Polls, Look,
       Tell, relay, network, hub
  <2> QED
    BY <2>1, <2>2, <2>3, <2>4, <2>5 DEF IInv, Types
<1>2. CASE Decision(q)
  <2>1. AskTypes' /\ NetTypes' /\ HandTypes' /\ HubTypes' /\ OnceInv' /\ SaidInv'
        /\ FramesInv'
    BY <1>0, <1>2, AskSame, NetSame, HandSame, HubSame, OnceSame, SaidSame, FramesSame
       DEF Decision, relay, network, hub
  <2>2. ClientTypes'
    <3>1. answered[q] \in Outcomes \cup {None} /\ (answered[q] # None => answered[q] \in Outcomes)
      BY <1>0 DEF AskTypes
    <3>2. stale' = stale /\ \/ poll' = [poll EXCEPT ![q] = "wait"] /\ told' = told
                            \/ \E o \in Outcomes : Tell(q, o)
      BY <1>2, <3>1 DEF Decision, Tell, Outcomes
    <3> QED
      BY <1>0, <3>2 DEF ClientTypes, Tell
  <2>3. ConnInv'
    BY <1>0, <1>2 DEF AskTypes, Ask, ClientTypes, NetTypes, Dev, ConnInv, Polls, Decision,
       Tell, relay, network, hub
  <2>4. RecordInv'
    <3>1. \A x \in Questions : poll'[x] \in {poll[x], "wait", "over"} /\ told'[x] \in {told[x], "error", answered[x]}
      BY <1>0, <1>2 DEF ClientTypes, Decision, Tell
    <3> QED
      BY <1>0, <1>2, <3>1 DEF RecordInv, OnRecord, Decisions, Decision, relay, hub
  <2>5. KnownInv'
    BY <1>0, <1>2 DEF AskTypes, Ask, ClientTypes, NetTypes, Dev, KnownInv, Polls, Decision,
       Tell, relay, network, hub
  <2> QED
    BY <2>1, <2>2, <2>3, <2>4, <2>5 DEF IInv, Types
<1>3. CASE Hear(q)
  <2>1. NetTypes' /\ HandTypes' /\ HubTypes' /\ OnceInv' /\ SaidInv' /\ FramesInv'
    BY <1>0, <1>3, NetSame, HandSame, HubSame, OnceSame, SaidSame, FramesSame
       DEF Hear, network, hub
  <2>2. AskTypes'
    BY <1>0, <1>3 DEF AskTypes, Ask, ClientTypes, HubTypes, NetTypes, Conns, Outcomes,
       Hear, network, hub
  <2>3. ClientTypes'
    BY <1>0, <1>3 DEF AskTypes, ClientTypes, Wait, HubTypes, Conns, Outcomes, Hear,
       network, hub
  <2>4. ConnInv'
    BY <1>0, <1>3 DEF AskTypes, Ask, ClientTypes, NetTypes, Dev, ConnInv, Polls, Hear,
       network, hub
  <2>5. RecordInv'
    <3>1. /\ poll'[q] = channel[q] /\ channel'[q] = None
          /\ \A x \in Questions \ {q} : poll'[x] = poll[x] /\ channel'[x] = channel[x]
      BY <1>0, <1>3 DEF AskTypes, ClientTypes, Hear
    <3>2. None \notin Decisions
      BY NodeApprovalsAssumption DEF Decisions
    <3> QED
      BY <1>0, <1>3, <3>1, <3>2 DEF RecordInv, OnRecord, Hear, hub
  <2>6. KnownInv'
    BY <1>0, <1>3 DEF AskTypes, Ask, ClientTypes, NetTypes, Dev, KnownInv, Polls, Hear,
       network, hub
  <2> QED
    BY <2>1, <2>2, <2>3, <2>4, <2>5, <2>6 DEF IInv, Types
<1>4. CASE Return(q)
  <2>1. NetTypes' /\ HandTypes' /\ HubTypes' /\ OnceInv' /\ SaidInv' /\ FramesInv'
    BY <1>0, <1>4, NetSame, HandSame, HubSame, OnceSame, SaidSame, FramesSame
       DEF Return, network, hub
  <2>2. AskTypes'
    BY <1>0, <1>4 DEF AskTypes, Ask, ClientTypes, HubTypes, NetTypes, Conns, Outcomes,
       Return, Settle, Forget, Tell, network, hub
  <2>3. ClientTypes'
    BY <1>0, <1>4 DEF AskTypes, ClientTypes, Wait, HubTypes, Conns, Outcomes, Return,
       Settle, Forget, Tell, network, hub
  <2>4. ConnInv'
    BY <1>0, <1>4 DEF AskTypes, Ask, ClientTypes, NetTypes, Dev, ConnInv, Polls, Return,
       Settle, Forget, Tell, network, hub
  <2>5. RecordInv'
    BY <1>0, <1>4 DEF AskTypes, ClientTypes, RecordInv, OnRecord, Decisions, Outcomes,
       Return, Settle, Forget, Tell, network, hub
  <2>6. KnownInv'
    <3>1. None \notin Outcomes /\ poll[q] \in Outcomes
      BY <1>0, <1>4, NodeApprovalsAssumption DEF Outcomes, Decisions, Return
    <3>2. /\ \A x \in Questions \ {q} : (x \in byID' <=> x \in byID) /\ answered'[x] = answered[x] /\ poll'[x] = poll[x]
          /\ poll'[q] = "over"
          /\ q \in byID \/ answered[q] # None => answered'[q] # None
      BY <1>0, <1>4, <3>1 DEF AskTypes, ClientTypes, Return, Settle, Forget, Tell
    <3> QED
      BY <1>0, <1>4, <3>2 DEF KnownInv, Polls, Return
  <2> QED
    BY <2>1, <2>2, <2>3, <2>4, <2>5, <2>6 DEF IInv, Types
<1>5. CASE CallTimesOut(q)
  <2>1. AskTypes' /\ NetTypes' /\ HandTypes' /\ HubTypes' /\ OnceInv' /\ SaidInv'
        /\ FramesInv'
    BY <1>0, <1>5, AskSame, NetSame, HandSame, HubSame, OnceSame, SaidSame, FramesSame
       DEF CallTimesOut, relay, network, hub
  <2>2. ClientTypes'
    BY <1>0, <1>5 DEF AskTypes, ClientTypes, Wait, HubTypes, Conns, Outcomes, CallTimesOut,
       relay, network, hub
  <2>3. ConnInv'
    BY <1>0, <1>5 DEF AskTypes, Ask, ClientTypes, NetTypes, Dev, ConnInv, Polls,
       CallTimesOut, relay, network, hub
  <2>4. RecordInv'
    BY <1>0, <1>5 DEF AskTypes, ClientTypes, RecordInv, OnRecord, Decisions, Outcomes,
       CallTimesOut, relay, network, hub
  <2>5. KnownInv'
    BY <1>0, <1>5 DEF AskTypes, Ask, ClientTypes, NetTypes, Dev, KnownInv, Polls,
       CallTimesOut, relay, network, hub
  <2> QED
    BY <2>1, <2>2, <2>3, <2>4, <2>5 DEF IInv, Types
<1>6. CASE StaleEnds(q)
  <2>1. AskTypes' /\ NetTypes' /\ HandTypes' /\ HubTypes' /\ ConnInv' /\ OnceInv'
        /\ SaidInv' /\ FramesInv'
    BY <1>0, <1>6, AskSame, NetSame, HandSame, HubSame, ConnSame, OnceSame, SaidSame,
       FramesSame DEF StaleEnds, relay, network, hub
  <2>2. ClientTypes'
    BY <1>0, <1>6 DEF AskTypes, ClientTypes, Wait, HubTypes, Conns, Outcomes, StaleEnds,
       relay, network, hub
  <2>3. RecordInv'
    BY <1>0, <1>6 DEF AskTypes, ClientTypes, RecordInv, OnRecord, Decisions, Outcomes,
       StaleEnds, relay, network, hub
  <2>4. KnownInv'
    BY <1>0, <1>6 DEF AskTypes, Ask, ClientTypes, NetTypes, Dev, KnownInv, Polls,
       StaleEnds, relay, network, hub
  <2> QED
    BY <2>1, <2>2, <2>3, <2>4 DEF IInv, Types
<1>7. CASE StaleHears(q)
  <2>1. /\ channel[q] \in Outcomes /\ channel[q] # None
    BY <1>0, <1>7 DEF AskTypes, StaleHears
  <2> DEFINE w == [at |-> "settle", outcome |-> channel[q]]
  <2>2. w \in Wait /\ w.outcome = channel[q]
    BY <2>1 DEF Wait
  <2>3. stale' = [stale EXCEPT ![q] = w] /\ channel' = [channel EXCEPT ![q] = None]
    BY <1>7 DEF StaleHears
  <2> HIDE DEF w
  <2>4. /\ stale' \in [Questions -> Wait] /\ stale'[q].outcome = channel[q] /\ channel'[q] = None
        /\ \A x \in Questions \ {q} : stale'[x] = stale[x] /\ channel'[x] = channel[x]
    BY <1>0, <2>2, <2>3 DEF AskTypes, ClientTypes
  <2>5. None \notin Decisions
    BY NodeApprovalsAssumption DEF Decisions
  <2>6. NetTypes' /\ HandTypes' /\ HubTypes' /\ ConnInv' /\ OnceInv' /\ SaidInv'
        /\ FramesInv'
    BY <1>0, <1>7, NetSame, HandSame, HubSame, ConnSame, OnceSame, SaidSame, FramesSame
       DEF StaleHears, network, hub
  <2>7. AskTypes'
    BY <1>0, <1>7 DEF AskTypes, Ask, ClientTypes, HubTypes, NetTypes, Conns, Outcomes,
       StaleHears, network, hub
  <2>8. ClientTypes'
    BY <1>0, <1>7, <2>1, <2>4 DEF ClientTypes, StaleHears
  <2>9. RecordInv'
    BY <1>0, <1>7, <2>4, <2>5 DEF RecordInv, OnRecord, StaleHears, hub
  <2>10. KnownInv'
    BY <1>0, <1>7 DEF AskTypes, Ask, ClientTypes, NetTypes, Dev, KnownInv, Polls,
       StaleHears, network, hub
  <2> QED
    BY <2>6, <2>7, <2>8, <2>9, <2>10 DEF IInv, Types
<1>8. CASE StaleSettles(q)
  <2>1. NetTypes' /\ HandTypes' /\ HubTypes' /\ ConnInv' /\ OnceInv' /\ SaidInv'
        /\ FramesInv'
    BY <1>0, <1>8, NetSame, HandSame, HubSame, ConnSame, OnceSame, SaidSame, FramesSame
       DEF StaleSettles, network, hub
  <2>2. AskTypes'
    <3>1. stale[q].outcome \in Outcomes \cup {None}
      BY <1>0 DEF ClientTypes, Wait
    <3> QED
      BY <1>0, <1>8, <3>1 DEF AskTypes, StaleSettles, Settle, Forget
  <2>3. ClientTypes'
    BY <1>0, <1>8 DEF AskTypes, ClientTypes, Wait, HubTypes, Conns, Outcomes, StaleSettles,
       Settle, Forget, network, hub
  <2>4. RecordInv'
    <3>1. /\ stale'[q].outcome = None /\ \A x \in Questions \ {q} : stale'[x] = stale[x]
          /\ \A x \in Questions \ {q} : answered'[x] = answered[x]
          /\ answered'[q] \in {answered[q], stale[q].outcome}
      BY <1>0, <1>8 DEF AskTypes, ClientTypes, StaleSettles, Settle
    <3>2. None \notin Decisions
      BY NodeApprovalsAssumption DEF Decisions
    <3> QED
      BY <1>0, <1>8, <3>1, <3>2 DEF RecordInv, OnRecord, StaleSettles, hub
  <2>5. KnownInv'
    <3>1. stale[q].outcome # None /\ stale[q].outcome \in Outcomes \cup {None}
      BY <1>0, <1>8 DEF ClientTypes, Wait, StaleSettles
    <3>2. /\ \A x \in Questions \ {q} : (x \in byID' <=> x \in byID) /\ answered'[x] = answered[x]
          /\ q \in byID \/ answered[q] # None => answered'[q] # None
      BY <1>0, <1>8, <3>1 DEF AskTypes, StaleSettles, Settle, Forget
    <3> QED
      BY <1>0, <1>8, <3>2 DEF KnownInv, StaleSettles
  <2> QED
    BY <2>1, <2>2, <2>3, <2>4, <2>5 DEF IInv, Types
<1> QED
  BY <1>1, <1>2, <1>3, <1>4, <1>5, <1>6, <1>7, <1>8

\* The machine's read loop hands on what came down, and forgets everything only when
\* its connection is gone.
LEMMA MachineKeeps ==
  ASSUME IInv,
         DeviceReads \/ DeviceLinks \/ DeviceNotices \/ End
  PROVE  IInv'
<1>0. /\ AskTypes /\ ClientTypes /\ NetTypes /\ HandTypes /\ HubTypes
      /\ ConnInv /\ OnceInv /\ SaidInv /\ FramesInv /\ RecordInv /\ KnownInv
  BY DEF IInv, Types
<1>1. CASE DeviceReads
  <2> DEFINE f == Head(down[dev.conn])
  <2>1. /\ dev.conn \in Conns /\ down[dev.conn] \in Seq(DownFrame) /\ down[dev.conn] # <<>>
        /\ down \in [Conns -> Seq(DownFrame)]
    BY <1>0, <1>1 DEF DeviceReads, NetTypes, Dev, Conns
  <2>2. /\ f \in DownFrame /\ FrameFine(f) /\ Tail(down[dev.conn]) \in Seq(DownFrame)
        /\ Items(Tail(down[dev.conn])) \subseteq Items(down[dev.conn])
    BY <1>0, <2>1, ReadFirst DEF FramesInv
  <2>3. down' = [down EXCEPT ![dev.conn] = Tail(down[dev.conn])]
    BY <1>1 DEF DeviceReads
  <2>4. down' \in [Conns -> Seq(DownFrame)]
        /\ \A c \in Conns : Items(down'[c]) \subseteq Items(down[c])
    BY <2>1, <2>2, <2>3
  <2>5. /\ f.question \in Questions /\ (f.kind # "status" => f.what \in Decisions)
        /\ f.kind = "status" => f.what \in {"accepted", "refused"}
        /\ Asked(f.question) /\ (f.kind # "status" => OnRecord(f.question, f.what))
    BY <2>2 DEF DownFrame, FrameFine
  <2>6. IF f.kind = "status" THEN Status(f.question, f.what) ELSE Arrive(f.question, f.what)
    BY <1>1 DEF DeviceReads
  <2> DEFINE q == f.question
             what == f.what
  <2> HIDE DEF f
  <2>7. /\ UNCHANGED <<waiters, byID>>
        /\ channel' = channel \/ (channel' = [channel EXCEPT ![q] = what] /\ f.kind # "status")
        /\ \/ said' = said
           \/ said' = [said EXCEPT ![q] = "refused"]
        /\ dev' = dev \/ dev' = [dev EXCEPT !.linking = {q}]
    <3>1. CASE f.kind = "status"
      BY <2>5, <2>6, <3>1 DEF Status, FirstSaid
    <3>2. CASE f.kind # "status"
      <4>1. /\ channel' = [channel EXCEPT ![q] = IF channel[q] = None /\ q \in waiters THEN what ELSE channel[q]]
            /\ UNCHANGED <<waiters, byID, said, dev>>
        BY <2>6, <3>2 DEF Arrive
      <4>2. channel' = channel \/ channel' = [channel EXCEPT ![q] = what]
        <5>1. channel \in [Questions -> Outcomes \cup {None}]
          BY <1>0 DEF AskTypes
        <5> QED
          BY <4>1, <5>1
      <4> QED
        BY <3>2, <4>1, <4>2
    <3> QED
      BY <3>1, <3>2
  <2> HIDE DEF q, what
  <2>8. /\ q \in Questions /\ Asked(q) /\ (f.kind # "status" => what \in Decisions /\ OnRecord(q, what))
        /\ dev'.conn = dev.conn /\ dev'.ending = dev.ending /\ dev' \in Dev /\ dev'.linking \subseteq dev.linking \cup {q}
    <3>1. q \in Questions
      BY <2>5 DEF q
    <3> QED
      BY <1>0, <2>5, <2>7, <3>1 DEF NetTypes, Dev, q, what
  <2>9. /\ said' \in [Questions -> {None, "accepted", "refused", "gone"}]
        /\ \A x \in Questions : said'[x] = "accepted" => said[x] = "accepted"
        /\ channel' \in [Questions -> Outcomes \cup {None}]
        /\ \A x \in Questions : OnRecord(x, channel[x]) => OnRecord(x, channel'[x])
    BY <1>0, <2>7, <2>8 DEF AskTypes, Outcomes
  <2>10. ClientTypes' /\ HandTypes' /\ HubTypes' /\ OnceInv'
    BY <1>0, <1>1, ClientSame, HandSame, HubSame, OnceSame DEF DeviceReads, client, hub
  <2>11. AskTypes'
    BY <1>0, <1>1, <2>7, <2>9 DEF AskTypes, DeviceReads
  <2>12. NetTypes'
    BY <1>0, <1>1, <2>4, <2>8 DEF NetTypes, DeviceReads
  <2>13. ConnInv'
    BY <1>0, <1>1, <2>8 DEF ConnInv, DeviceReads, client
  <2>14. SaidInv'
    BY <1>0, <1>1, <2>8, <2>9 DEF SaidInv, Asked, DeviceReads, hub
  <2>15. FramesInv'
    BY <1>0, <1>1, <2>4, FramesStand DEF RowsStand, Asked, DeviceReads, hub
  <2>16. RecordInv'
    BY <1>0, <1>1, <2>9 DEF RecordInv, OnRecord, DeviceReads, client, hub
  <2>17. KnownInv'
    BY <1>0, <1>1, <2>7, <2>8, <2>9 DEF KnownInv, DeviceReads, client
  <2> QED
    BY <2>10, <2>11, <2>12, <2>13, <2>14, <2>15, <2>16, <2>17 DEF IInv, Types
<1>2. CASE DeviceLinks
  <2>1. PICK x \in dev.linking : byID' = byID \cup {x} /\ said' = FirstSaid(x, "accepted")
    BY <1>2 DEF DeviceLinks
  <2>2. x \in Questions /\ Asked(x) /\ said' \in [Questions -> {None, "accepted", "refused", "gone"}]
        /\ \A y \in Questions \ {x} : said'[y] = said[y]
    BY <1>0, <2>1 DEF NetTypes, Dev, AskTypes, SaidInv, FirstSaid
  <2>3. ClientTypes' /\ HandTypes' /\ HubTypes' /\ OnceInv' /\ FramesInv' /\ RecordInv'
    BY <1>0, <1>2, ClientSame, HandSame, HubSame, OnceSame, FramesSame, RecordSame
       DEF DeviceLinks, client, network, hub
  <2>4. AskTypes'
    BY <1>0, <1>2, <2>1, <2>2 DEF AskTypes, DeviceLinks
  <2>5. NetTypes'
    BY <1>0, <1>2 DEF NetTypes, Dev, HandTypes, HubTypes, DownFrame, AskTypes, Conns,
       Outcomes, DeviceLinks, FirstSaid, client, network, hub
  <2>6. ConnInv'
    BY <1>0, <1>2 DEF AskTypes, Ask, ClientTypes, NetTypes, Dev, ConnInv, Polls,
       DeviceLinks, FirstSaid, client, network, hub
  <2>7. SaidInv'
    BY <1>0, <1>2, <2>2 DEF SaidInv, NetTypes, Dev, Asked, DeviceLinks, hub
  <2>8. KnownInv'
    <3>1. dev'.conn = dev.conn
      BY <1>0, <1>2 DEF NetTypes, Dev, DeviceLinks
    <3> QED
      BY <1>0, <1>2, <2>1, <2>2, <3>1 DEF KnownInv, DeviceLinks, client
  <2> QED
    BY <2>3, <2>4, <2>5, <2>6, <2>7, <2>8 DEF IInv, Types
<1>3. CASE DeviceNotices
  <2>1. dev.conn \in Conns /\ down \in [Conns -> Seq(DownFrame)]
    BY <1>0, <1>3 DEF DeviceNotices, NetTypes, Dev, Conns
  <2>2. /\ down' \in [Conns -> Seq(DownFrame)] /\ \A c \in Conns : Items(down'[c]) \subseteq Items(down[c])
    <3>1. Items(<<>>) = {} /\ <<>> \in Seq(DownFrame)
      BY DEF Items
    <3> QED
      BY <1>3, <2>1, <3>1 DEF DeviceNotices
  <2>3. dev' \in Dev /\ dev'.conn = 0 /\ dev'.linking = dev.linking
    <3>1. dev' = [dev EXCEPT !.conn = 0, !.ending = TRUE] /\ dev \in Dev
      BY <1>0, <1>3 DEF DeviceNotices, NetTypes
    <3>2. 0 \in 0 .. MaxConns
      BY NodeApprovalsAssumption
    <3> QED
      BY <3>1, <3>2 DEF Dev
  <2>4. AskTypes' /\ ClientTypes' /\ HandTypes' /\ HubTypes' /\ OnceInv' /\ RecordInv'
    BY <1>0, <1>3, AskSame, ClientSame, HandSame, HubSame, OnceSame, RecordSame
       DEF DeviceNotices, relay, client, hub
  <2>5. NetTypes'
    BY <1>0, <1>3, <2>2, <2>3 DEF NetTypes, DeviceNotices
  <2>6. ConnInv'
    BY <1>0, <1>3, <2>3 DEF ConnInv, DeviceNotices, relay, client
  <2>7. SaidInv'
    BY <1>0, <1>3, <2>3 DEF SaidInv, Asked, DeviceNotices, relay, hub
  <2>8. FramesInv'
    BY <1>0, <1>3, <2>2, FramesStand DEF RowsStand, Asked, DeviceNotices, relay, hub
  <2>9. KnownInv'
    BY <1>0, <1>3, <2>3 DEF KnownInv, ConnInv, DeviceNotices, relay, client
  <2> QED
    BY <2>4, <2>5, <2>6, <2>7, <2>8, <2>9 DEF IInv, Types
<1>4. CASE End
  <2>1. ClientTypes' /\ HandTypes' /\ HubTypes' /\ OnceInv' /\ FramesInv'
    BY <1>0, <1>4, ClientSame, HandSame, HubSame, OnceSame, FramesSame
       DEF End, client, network, hub
  <2>2. AskTypes'
    BY <1>0, <1>4 DEF AskTypes, Ask, ClientTypes, HubTypes, NetTypes, Conns, Outcomes, End,
       client, network, hub
  <2>3. NetTypes'
    BY <1>0, <1>4 DEF NetTypes, Dev, HandTypes, HubTypes, DownFrame, AskTypes, Conns,
       Outcomes, End, client, network, hub
  <2>4. ConnInv'
    BY <1>0, <1>4 DEF AskTypes, Ask, ClientTypes, NetTypes, Dev, ConnInv, Polls, End,
       client, network, hub
  <2>5. SaidInv'
    BY <1>0, <1>4 DEF AskTypes, Ask, NetTypes, Dev, HubTypes, SaidInv, Asked, End, client,
       network, hub
  <2>6. RecordInv'
    <3>1. \A q \in Questions : channel'[q] \in {channel[q], "error"} /\ answered'[q] = None
      BY <1>0, <1>4 DEF End
    <3>2. None \notin Decisions /\ "error" \notin Decisions
      BY NodeApprovalsAssumption DEF Decisions
    <3> QED
      BY <1>0, <1>4, <3>1, <3>2 DEF RecordInv, OnRecord, End, client, hub
  <2>7. KnownInv'
    <3>1. dev.conn = 0 /\ dev'.conn = 0
      BY <1>0, <1>4 DEF NetTypes, Dev, ConnInv, End
    <3> QED
      BY <1>0, <1>4, <3>1 DEF KnownInv, ConnInv, End, client
  <2> QED
    BY <2>1, <2>2, <2>3, <2>4, <2>5, <2>6, <2>7 DEF IInv, Types
<1> QED
  BY <1>1, <1>2, <1>3, <1>4

\* A new connection is none that a question is waiting on.
LEMMA LinkKeeps ==
  ASSUME IInv, NEW c \in Conns,
         Connect(c) \/ Break(c)
  PROVE  IInv'
<1>0. /\ AskTypes /\ ClientTypes /\ NetTypes /\ HandTypes /\ HubTypes
      /\ ConnInv /\ OnceInv /\ SaidInv /\ FramesInv /\ RecordInv /\ KnownInv
  BY DEF IInv, Types
<1>1. CASE Connect(c)
  <2>1. dev' \in Dev /\ dev'.conn = c /\ dev'.linking = dev.linking /\ c # 0
    BY <1>0, <1>1 DEF NetTypes, Dev, Conns, Connect
  <2>2. /\ sock[c] = "none" /\ sock' \in [Conns -> {"none", "up", "broken"}]
        /\ sock'[c] = "up" /\ \A d \in Conns \ {c} : sock'[d] = sock[d]
    BY <1>0, <1>1 DEF NetTypes, Connect
  <2>3. handler[c].question = None
    BY <1>0, <1>1 DEF ConnInv, OnceInv, Connect
  <2>4. /\ HandTypes' /\ handler'[c].question = None /\ handler[c].at \notin Serves1
        /\ \A d \in Conns \ {c} : handler'[d] = handler[d]
    <3> DEFINE h == [handler[c] EXCEPT !.at = "hello"]
    <3>1. /\ h \in Hand /\ h.at \notin Serves1 /\ h.question = handler[c].question
          /\ handler[c].at \notin Serves1 /\ table' \in 0 .. MaxConns
      BY <1>0, <1>1, <2>3 DEF HandTypes, Hand, Serves1, Conns, Connect
    <3>2. handler' = [handler EXCEPT ![c] = h]
      BY <1>1 DEF Connect
    <3> HIDE DEF h
    <3> QED
      BY <1>0, <3>1, <3>2, HandMoves
  <2>5. AskTypes' /\ ClientTypes' /\ HubTypes' /\ FramesInv' /\ RecordInv'
    BY <1>0, <1>1, AskSame, ClientSame, HubSame, FramesSame, RecordSame
       DEF Connect, relay, client, hub
  <2>6. NetTypes'
    BY <1>0, <1>1, <2>1, <2>2 DEF NetTypes, Connect
  <2>7. HandTypes'
    BY <2>4
  <2>8. ConnInv'
    BY <1>0, <1>1, <2>1, <2>2 DEF ConnInv, NetTypes, AskTypes, Ask, Dev, Conns, Connect,
       relay, client
  <2>9. OnceInv'
    BY <1>0, <1>1, <2>4, OnceStands DEF NetTypes, HandTypes, Asked, Connect, relay, hub
  <2>10. SaidInv'
    BY <1>0, <1>1 DEF AskTypes, Ask, NetTypes, Dev, HubTypes, SaidInv, Asked, Connect,
       relay, client, hub
  <2>11. KnownInv'
    BY <1>0, <1>1, <2>1, <2>2 DEF KnownInv, ConnInv, Connect, relay, client
  <2> QED
    BY <2>5, <2>6, <2>7, <2>8, <2>9, <2>10, <2>11 DEF IInv, Types
<1>2. CASE Break(c)
  <2>1. AskTypes' /\ ClientTypes' /\ HandTypes' /\ HubTypes' /\ OnceInv' /\ SaidInv'
        /\ FramesInv' /\ RecordInv' /\ KnownInv'
    BY <1>0, <1>2, AskSame, ClientSame, HandSame, HubSame, OnceSame, SaidSame, FramesSame,
       RecordSame, KnownSame DEF Break, relay, client, hub
  <2>2. NetTypes'
    BY <1>0, <1>2 DEF NetTypes, Dev, HandTypes, HubTypes, DownFrame, AskTypes, Conns,
       Outcomes, Break, relay, client, hub
  <2>3. ConnInv'
    BY <1>0, <1>2 DEF AskTypes, Ask, ClientTypes, NetTypes, Dev, ConnInv, Polls, Break,
       relay, client, hub
  <2> QED
    BY <2>1, <2>2, <2>3 DEF IInv, Types
<1> QED
  BY <1>1, <1>2

\* The handler of the turn's connection makes a row for a question that has none, and
\* says so of a question that was asked.
LEMMA ServeKeeps ==
  ASSUME IInv, NEW c \in Conns,
         HubReads(c) \/ Claim(c) \/ Create(c) \/ Link(c) \/ Accept(c) \/
         SettleUnheard(c)
  PROVE  IInv'
<1>0. /\ AskTypes /\ ClientTypes /\ NetTypes /\ HandTypes /\ HubTypes
      /\ ConnInv /\ OnceInv /\ SaidInv /\ FramesInv /\ RecordInv /\ KnownInv
  BY DEF IInv, Types
<1>1. CASE HubReads(c)
  <2> DEFINE x == Head(up[c])
  <2>1. /\ up \in [Conns -> Seq(Questions)] /\ up[c] \in Seq(Questions) /\ up[c] # <<>>
        /\ x \in Questions /\ x \in Items(up[c]) /\ Tail(up[c]) \in Seq(Questions)
        /\ Items(Tail(up[c])) \subseteq Items(up[c]) /\ Distinct(Tail(up[c])) /\ x \notin Items(Tail(up[c]))
    BY <1>0, <1>1, ReadFirst DEF NetTypes, OnceInv, HubReads
  <2>2. /\ up' = [up EXCEPT ![c] = Tail(up[c])] /\ handler[c].at = "read"
        /\ \/ c = Home /\ Serving(c, "owned", x) /\ UNCHANGED down
           \/ Refuse(c, x) /\ UNCHANGED handler
        /\ UNCHANGED <<ask, row, said, await, dev, sock, table>>
    BY <1>1 DEF HubReads, relay, hub
  <2> HIDE DEF x
  <2>3. /\ up' \in [Conns -> Seq(Questions)] /\ up'[c] = Tail(up[c]) /\ \A d \in Conns \ {c} : up'[d] = up[d]
    BY <2>1, <2>2
  <2>4. \/ c = Home /\ Serving(c, "owned", x) /\ UNCHANGED down
        \/ UNCHANGED handler /\ down' = Sent(c, Frame("status", x, "refused"))
    BY <2>2 DEF Refuse
  <2>5. Frame("status", x, "refused") \in DownFrame /\ FrameFine(Frame("status", x, "refused"))
    BY <1>0, <2>1 DEF Frame, DownFrame, FrameFine, OnceInv
  <2>6. x # None /\ Asked(x)
    BY <1>0, <2>1, NodeApprovalsAssumption DEF OnceInv
  <2>7. AskTypes' /\ ClientTypes' /\ HubTypes' /\ ConnInv' /\ SaidInv' /\ RecordInv'
        /\ KnownInv'
    BY <1>0, <1>1, AskSame, ClientSame, HubSame, ConnSame, SaidSame, RecordSame,
       KnownSame DEF HubReads, relay, client, hub
  <2>8. NetTypes'
    BY <1>0, <2>2, <2>3, <2>4, <2>5, SentItems DEF NetTypes
  <2>9. HandTypes'
    BY <1>0, <2>1, <2>2, <2>4, HandServes DEF HandTypes, Serves1
  <2>10. OnceInv'
    <3>1. CASE UNCHANGED handler
      BY <1>0, <2>1, <2>2, <2>3, <3>1, OnceStands DEF HandTypes, Asked
    <3>2. CASE c = Home /\ Serving(c, "owned", x)
      <4>1. /\ handler'[c].at = "owned" /\ handler'[c].question = x
            /\ \A d \in Conns \ {c} : handler'[d] = handler[d]
        BY <1>0, <2>1, <2>2, <3>2, HandServes DEF Serves1
      <4>2. \A d \in Conns \ {c} : handler[d].question = None
        BY <1>0, <3>2 DEF OnceInv
      <4>3. /\ \A d \in Conns : Distinct(up'[d]) /\ Items(up'[d]) \subseteq Items(up[d])
            /\ x \notin Items(up'[Home]) /\ row[x] = "none"
        <5>1. \A d \in Conns : Distinct(up[d])
          BY <1>0 DEF OnceInv
        <5>2. row[x] = "none"
          BY <1>0, <2>1, <3>2 DEF OnceInv
        <5>3. \A d \in Conns : Distinct(up'[d]) /\ Items(up'[d]) \subseteq Items(up[d])
          BY <2>1, <2>3, <5>1
        <5> QED
          BY <2>1, <2>3, <3>2, <5>2, <5>3
      <4>4. \A d \in Conns : handler'[d].question # None => d = Home /\ Asked(handler'[d].question)
        BY <2>6, <3>2, <4>1, <4>2
      <4> QED
        BY <1>0, <2>2, <3>2, <4>1, <4>3, <4>4 DEF OnceInv, Asked
    <3> QED
      BY <2>4, <3>1, <3>2
  <2>11. FramesInv'
    <3>1. CASE UNCHANGED down
      BY <1>0, <2>2, <3>1, FramesSame
    <3>2. CASE down' = Sent(c, Frame("status", x, "refused"))
      BY <1>0, <2>2, <2>5, <3>2, FramesSent DEF RowsStand
    <3> QED
      BY <2>4, <3>1, <3>2
  <2> QED
    BY <2>7, <2>8, <2>9, <2>10, <2>11 DEF IInv, Types
<1>2. CASE Claim(c)
  <2> DEFINE x == handler[c].question
  <2>1. x \in Questions /\ x # None /\ c = Home /\ Asked(x) /\ Home \in Conns
    BY <1>0, <1>2, NodeApprovalsAssumption DEF HandTypes, Hand, Serves1, OnceInv, Conns,
       Home, Claim
  <2>2. /\ HandTypes' /\ handler'[c].at = "claimed" /\ handler'[c].question = x
        /\ \A d \in Conns \ {c} : handler'[d] = handler[d]
    BY <1>0, <1>2, <2>1, HandServes DEF Serves1, Claim
  <2>3. AskTypes' /\ ClientTypes' /\ NetTypes' /\ ConnInv' /\ SaidInv' /\ FramesInv'
        /\ RecordInv' /\ KnownInv'
    BY <1>0, <1>2, AskSame, ClientSame, NetSame, ConnSame, SaidSame, FramesSame,
       RecordSame, KnownSame DEF Claim, relay, client, network
  <2>4. HandTypes'
    BY <2>2
  <2>5. HubTypes'
    BY <1>0, <1>2 DEF HubTypes, HandTypes, Hand, Serves1, Conns, Outcomes, Claim, Serving,
       relay, client, network
  <2>6. OnceInv'
    BY <1>0, <1>2, <2>1, <2>2, OnceStands DEF NetTypes, HandTypes, Asked, Claim, network,
       relay
  <2> QED
    BY <2>3, <2>4, <2>5, <2>6 DEF IInv, Types
<1>3. CASE Create(c)
  <2> DEFINE x == handler[c].question
  <2>1. x \in Questions /\ x # None /\ c = Home /\ Asked(x) /\ Home \in Conns
    BY <1>0, <1>3, NodeApprovalsAssumption DEF HandTypes, Hand, Serves1, OnceInv, Conns,
       Home, Create
  <2> DEFINE refused == Frame("status", x, "refused")
  <2>2. /\ handler[c].at = "claimed" /\ row[x] = "none"
        /\ row' = row \/ row' = [row EXCEPT ![x] = "pending"]
        /\ \/ row' = [row EXCEPT ![x] = "pending"] /\ Serving(c, "created", x) /\ UNCHANGED <<down, open>>
           \/ Refuse(c, x) /\ Serving(c, "read", None) /\ open' = open \ {x}
        /\ UNCHANGED <<relay, client, dev, sock, up, table, turn, linked, stopped, await>>
    BY <1>0, <1>3, <2>1 DEF Create, OnceInv
  <2>3. refused \in DownFrame /\ FrameFine(refused)
    BY <2>1 DEF Frame, DownFrame, FrameFine
  <2> HIDE DEF x, refused
  <2>4. /\ HandTypes' /\ \A d \in Conns \ {c} : handler'[d] = handler[d]
        /\ \/ handler'[c].at = "created" /\ handler'[c].question = x
              /\ row' = [row EXCEPT ![x] = "pending"] /\ UNCHANGED down
           \/ handler'[c].at = "read" /\ handler'[c].question = None /\ down' = Sent(c, refused)
    <3>1. CASE Serving(c, "created", x) /\ row' = [row EXCEPT ![x] = "pending"] /\ UNCHANGED down
      BY <1>0, <2>1, <2>2, <3>1, HandServes DEF Serves1
    <3>2. CASE Serving(c, "read", None) /\ Refuse(c, x)
      BY <1>0, <2>1, <2>2, <3>2, HandServes DEF Refuse, refused
    <3> QED
      BY <2>2, <3>1, <3>2
  <2>5. /\ row' \in [Questions -> Decisions \cup {"none", "pending"}]
        /\ \A y \in Questions \ {x} : row'[y] = row[y]
        /\ row'[x] = "none" \/ row'[x] = "pending"
    BY <1>0, <2>2 DEF HubTypes
  <2>6. RowsStand
    BY <2>2, <2>5 DEF RowsStand, Decisions
  <2>7. ClientTypes' /\ ConnInv' /\ KnownInv'
    BY <1>0, <1>3, ClientSame, ConnSame, KnownSame DEF Create, relay, client
  <2>8. AskTypes'
    BY <1>0, <1>3, AskSame DEF Create, relay
  <2>9. NetTypes'
    BY <1>0, <2>2, <2>3, <2>4, SentItems DEF NetTypes
  <2>10. HandTypes'
    BY <2>4
  <2>11. HubTypes'
    BY <1>0, <2>2, <2>5 DEF HubTypes
  <2>12. OnceInv'
    <3>1. UNCHANGED <<ask, up>>
      BY <2>2 DEF relay
    <3>2. \A d \in Conns \ {c} : handler[d].question = None /\ handler'[d].question = None
      BY <1>0, <2>1, <2>4 DEF OnceInv
    <3>3. x \notin Items(up[Home]) /\ handler[c].question = x
      BY <1>0, <2>1 DEF OnceInv, x
    <3>4. \A y \in Items(up[Home]) : y \in Questions /\ y # x /\ row'[y] = "none" /\ y # None
      BY <1>0, <2>1, <2>5, <3>3, NodeApprovalsAssumption DEF OnceInv, NetTypes, Items
    <3>5. \A d \in Conns : handler'[d].question # None => d = Home /\ Asked(handler'[d].question)
      BY <2>1, <2>4, <3>2
    <3>6. \A y \in Items(up[Home]) : handler'[Home].question # y
      BY <2>1, <2>4, <3>4
    <3>7. /\ handler'[Home].at \notin {"owned", "claimed"}
          /\ handler'[Home].at \in {"created", "linked"} => row'[handler'[Home].question] # "none"
      BY <1>0, <2>1, <2>4 DEF HubTypes
    <3>8. \A y \in Questions : ~Asked(y) => row'[y] = "none"
      BY <1>0, <2>1, <2>5 DEF OnceInv
    <3> QED
      BY <1>0, <2>1, <3>1, <3>4, <3>5, <3>6, <3>7, <3>8 DEF OnceInv, Asked
  <2>13. SaidInv'
    <3>1. UNCHANGED <<ask, said, dev, await>>
      BY <2>2 DEF relay
    <3>2. \A y \in Questions : row[y] # "none" => row'[y] = row[y]
      BY <2>1, <2>2, <2>5
    <3> QED
      BY <1>0, <3>1, <3>2 DEF SaidInv, Asked, Decisions
  <2>14. FramesInv'
    <3>1. UNCHANGED ask
      BY <2>2 DEF relay
    <3>2. CASE UNCHANGED down
      BY <1>0, <2>6, <3>1, <3>2, FramesStand DEF Asked
    <3>3. CASE down' = Sent(c, refused)
      BY <1>0, <2>3, <2>6, <3>1, <3>3, FramesSent
    <3> QED
      BY <2>4, <3>2, <3>3
  <2>15. RecordInv'
    BY <1>0, <2>2, <2>6, RecordStands DEF relay, client
  <2> QED
    BY <2>7, <2>8, <2>9, <2>10, <2>11, <2>12, <2>13, <2>14, <2>15 DEF IInv, Types
<1>4. CASE Link(c)
  <2> DEFINE x == handler[c].question
  <2>1. x \in Questions /\ x # None /\ c = Home /\ Asked(x) /\ Home \in Conns
    BY <1>0, <1>4, NodeApprovalsAssumption DEF HandTypes, Hand, Serves1, OnceInv, Conns,
       Home, Link
  <2>2. /\ HandTypes' /\ handler'[c].at \in {"linked", "settle"} /\ handler'[c].question = x
        /\ \A d \in Conns \ {c} : handler'[d] = handler[d]
    <3>1. Serving(c, "linked", x) \/ Serving(c, "settle", x)
      BY <1>4 DEF Link
    <3> QED
      BY <1>0, <1>4, <2>1, <3>1, HandServes DEF Serves1, Link
  <2>3. AskTypes' /\ ClientTypes' /\ NetTypes' /\ ConnInv' /\ SaidInv' /\ FramesInv'
        /\ RecordInv' /\ KnownInv'
    BY <1>0, <1>4, AskSame, ClientSame, NetSame, ConnSame, SaidSame, FramesSame,
       RecordSame, KnownSame DEF Link, relay, client, network
  <2>4. HandTypes'
    BY <2>2
  <2>5. HubTypes'
    BY <1>0, <1>4 DEF HubTypes, HandTypes, Hand, Serves1, Conns, Outcomes, Link, Serving,
       relay, client, network
  <2>6. OnceInv'
    BY <1>0, <1>4, <2>1, <2>2, OnceStands DEF NetTypes, HandTypes, Asked, Link, network,
       relay
  <2> QED
    BY <2>3, <2>4, <2>5, <2>6 DEF IInv, Types
<1>5. CASE Accept(c)
  <2> DEFINE x == handler[c].question
  <2>1. x \in Questions /\ x # None /\ c = Home /\ Asked(x) /\ Home \in Conns
    BY <1>0, <1>5, NodeApprovalsAssumption DEF HandTypes, Hand, Serves1, OnceInv, Conns,
       Home, Accept
  <2> DEFINE accepted == Frame("status", x, "accepted")
  <2>2. /\ row[x] # "none" /\ handler[c].at = "linked"
        /\ \/ /\ down' = Sent(c, accepted) /\ await' = [await EXCEPT ![x] = "wait"]
              /\ Serving(c, "read", None)
           \/ Serving(c, "settle", x) /\ UNCHANGED <<down, await>>
        /\ UNCHANGED <<relay, client, dev, sock, up, table, row>>
    BY <1>0, <1>5, <2>1 DEF Accept, OnceInv
  <2>3. accepted \in DownFrame /\ FrameFine(accepted)
    BY <2>1 DEF Frame, DownFrame, FrameFine
  <2> HIDE DEF accepted
  <2>4. /\ HandTypes' /\ \A d \in Conns \ {c} : handler'[d] = handler[d]
        /\ \/ handler'[c].at = "read" /\ handler'[c].question = None
           \/ handler'[c].at = "settle" /\ handler'[c].question = x
    <3>1. CASE Serving(c, "read", None)
      BY <1>0, <2>1, <2>2, <3>1, HandServes
    <3>2. CASE Serving(c, "settle", x)
      BY <1>0, <2>1, <2>2, <3>2, HandServes DEF Serves1
    <3> QED
      BY <2>2, <3>1, <3>2
  <2>5. AskTypes' /\ ClientTypes' /\ ConnInv' /\ RecordInv' /\ KnownInv'
    BY <1>0, <1>5, AskSame, ClientSame, ConnSame, RecordSame, KnownSame
       DEF Accept, relay, client
  <2>6. NetTypes'
    BY <1>0, <2>2, <2>3, SentItems DEF NetTypes
  <2>7. HandTypes'
    BY <2>4
  <2>8. HubTypes'
    BY <1>0, <1>5 DEF HubTypes, HandTypes, Hand, Serves1, Conns, Outcomes, Accept, Serving,
       Sent, Frame, relay, client
  <2>9. OnceInv'
    BY <1>0, <2>1, <2>2, <2>4, OnceStands DEF NetTypes, HandTypes, Asked, relay
  <2>10. SaidInv'
    <3>1. UNCHANGED <<ask, said, dev, row>>
      BY <2>2 DEF relay
    <3>2. \A y \in Questions : await'[y] = await[y] \/ (y = x /\ await'[y] = "wait")
      BY <1>0, <2>2 DEF HubTypes
    <3> QED
      BY <1>0, <2>2, <3>1, <3>2 DEF SaidInv, Asked
  <2>11. FramesInv'
    <3>1. UNCHANGED <<ask, row>>
      BY <2>2 DEF relay
    <3>2. CASE UNCHANGED down
      BY <1>0, <3>1, <3>2, FramesSame
    <3>3. CASE down' = Sent(c, accepted)
      BY <1>0, <2>3, <3>1, <3>3, FramesSent DEF RowsStand
    <3> QED
      BY <2>2, <3>2, <3>3
  <2> QED
    BY <2>5, <2>6, <2>7, <2>8, <2>9, <2>10, <2>11 DEF IInv, Types
<1>6. CASE SettleUnheard(c)
  <2> DEFINE x == handler[c].question
  <2>1. x \in Questions /\ x # None /\ c = Home /\ Asked(x) /\ Home \in Conns
    BY <1>0, <1>6, NodeApprovalsAssumption DEF HandTypes, Hand, Serves1, OnceInv, Conns,
       Home, SettleUnheard
  <2>2. /\ HandTypes' /\ handler'[c].at = "read" /\ handler'[c].question = None
        /\ \A d \in Conns \ {c} : handler'[d] = handler[d]
    BY <1>0, <1>6, <2>1, HandServes DEF Serves1, SettleUnheard
  <2>3. row' = SettledRow(x)
    BY <1>6 DEF SettleUnheard
  <2>4. /\ row' \in [Questions -> Decisions \cup {"none", "pending"}] /\ RowsStand
        /\ \A y \in Questions : row'[y] = row[y] \/ (row[y] = "pending" /\ row'[y] = "expired")
    BY <1>0, <2>1, <2>3 DEF HubTypes, SettledRow, RowsStand, Decisions
  <2>5. AskTypes' /\ ClientTypes' /\ NetTypes' /\ ConnInv' /\ KnownInv'
    BY <1>0, <1>6, AskSame, ClientSame, NetSame, ConnSame, KnownSame
       DEF SettleUnheard, relay, client, network
  <2>6. HandTypes'
    BY <2>2
  <2>7. HubTypes'
    BY <1>0, <1>6, <2>4 DEF HubTypes, SettleUnheard
  <2>8. OnceInv'
    BY <1>0, <1>6, <2>1, <2>2, <2>4, OnceStands DEF NetTypes, HandTypes, Asked,
       SettleUnheard, network, relay
  <2>9. SaidInv'
    BY <1>0, <1>6, <2>4 DEF SaidInv, Asked, Decisions, SettleUnheard, relay
  <2>10. FramesInv'
    BY <1>0, <1>6, <2>4, FramesStand DEF Asked, SettleUnheard, network, relay
  <2>11. RecordInv'
    BY <1>0, <1>6, <2>4, RecordStands DEF SettleUnheard, relay, client
  <2> QED
    BY <2>5, <2>6, <2>7, <2>8, <2>9, <2>10, <2>11 DEF IInv, Types
<1> QED
  BY <1>1, <1>2, <1>3, <1>4, <1>5, <1>6

\* The end of a connection settles rows that are pending, and leaves decisions alone.
LEMMA AbandonKeeps ==
  ASSUME IInv, NEW c \in Conns,
         Attach(c) \/ Detach(c) \/ Abandon(c) \/ AbandonOne(c) \/ SettleOne(c) \/
         AbandonTurn(c)
  PROVE  IInv'
<1>0. /\ AskTypes /\ ClientTypes /\ NetTypes /\ HandTypes /\ HubTypes
      /\ ConnInv /\ OnceInv /\ SaidInv /\ FramesInv /\ RecordInv /\ KnownInv
  BY DEF IInv, Types
<1>1. CASE Attach(c)
  <2>1. /\ HandTypes' /\ handler'[c].question = None /\ handler[c].at \notin Serves1
        /\ \A d \in Conns \ {c} : handler'[d] = handler[d]
    <3> DEFINE l == IF table = 0 THEN "read" ELSE "abandon"
               h == [handler[c] EXCEPT !.at = l, !.gone = table]
    <3>1. /\ l \in {"read", "abandon", "done"} /\ handler[c] \in Hand /\ table \in 0 .. MaxConns
          /\ c \in 0 .. MaxConns /\ 0 \in 0 .. MaxConns /\ handler[c].at \notin Serves1
      BY <1>0, <1>1, NodeApprovalsAssumption DEF HandTypes, Conns, Serves1, Attach
    <3>2. /\ handler' = [handler EXCEPT ![c] = h] /\ table' \in 0 .. MaxConns
      BY <1>1, <3>1 DEF Attach
    <3> HIDE DEF l
    <3>3. h \in Hand /\ h.at = l /\ h.question = handler[c].question
      BY <3>1 DEF Hand
    <3>4. h.at \notin Serves1
      BY <3>1, <3>3 DEF Serves1
    <3> HIDE DEF h
    <3> QED
      BY <1>0, <3>1, <3>2, <3>3, <3>4, HandMoves
  <2>2. AskTypes' /\ ClientTypes' /\ NetTypes' /\ HubTypes' /\ ConnInv' /\ SaidInv'
        /\ FramesInv' /\ RecordInv' /\ KnownInv'
    BY <1>0, <1>1, AskSame, ClientSame, NetSame, HubSame, ConnSame, SaidSame, FramesSame,
       RecordSame, KnownSame DEF Attach, relay, client, network, hub
  <2>3. HandTypes'
    BY <2>1
  <2>4. OnceInv'
    BY <1>0, <1>1, <2>1, OnceStands DEF NetTypes, HandTypes, Asked, Conns, Attach, relay,
       network, hub
  <2> QED
    BY <2>2, <2>3, <2>4 DEF IInv, Types
<1>2. CASE Detach(c)
  <2>1. /\ HandTypes' /\ handler'[c].question = None /\ handler[c].at \notin Serves1
        /\ \A d \in Conns \ {c} : handler'[d] = handler[d]
    <3> DEFINE l == IF table = c THEN "abandon" ELSE "done"
               h == [handler[c] EXCEPT !.at = l, !.gone = c]
    <3>1. /\ l \in {"read", "abandon", "done"} /\ handler[c] \in Hand /\ table \in 0 .. MaxConns
          /\ c \in 0 .. MaxConns /\ 0 \in 0 .. MaxConns /\ handler[c].at \notin Serves1
      BY <1>0, <1>2, NodeApprovalsAssumption DEF HandTypes, Conns, Serves1, Detach
    <3>2. /\ handler' = [handler EXCEPT ![c] = h] /\ table' \in 0 .. MaxConns
      BY <1>2, <3>1 DEF Detach
    <3> HIDE DEF l
    <3>3. h \in Hand /\ h.at = l /\ h.question = handler[c].question
      BY <3>1 DEF Hand
    <3>4. h.at \notin Serves1
      BY <3>1, <3>3 DEF Serves1
    <3> HIDE DEF h
    <3> QED
      BY <1>0, <3>1, <3>2, <3>3, <3>4, HandMoves
  <2>2. AskTypes' /\ ClientTypes' /\ HubTypes' /\ ConnInv' /\ SaidInv' /\ FramesInv'
        /\ RecordInv' /\ KnownInv'
    BY <1>0, <1>2, AskSame, ClientSame, HubSame, ConnSame, SaidSame, FramesSame,
       RecordSame, KnownSame DEF Detach, relay, client, hub
  <2>3. NetTypes'
    BY <1>0, <1>2 DEF NetTypes, Dev, HandTypes, HubTypes, DownFrame, AskTypes, Conns,
       Outcomes, Detach, relay, client, hub
  <2>4. HandTypes'
    BY <2>1
  <2>5. OnceInv'
    <3>1. Items(<<>>) = {} /\ Distinct(<<>>)
      BY DEF Items, Distinct
    <3>2. \A d \in Conns : up'[d] = up[d] \/ up'[d] = <<>>
      BY <1>0, <1>2 DEF NetTypes, Detach
    <3>3. \A d \in Conns : Items(up'[d]) \subseteq Items(up[d]) /\ (Distinct(up[d]) => Distinct(up'[d]))
      BY <3>1, <3>2
    <3> QED
      BY <1>0, <1>2, <2>1, <3>3, OnceStands DEF NetTypes, HandTypes, Asked, Conns, Detach,
         relay, hub
  <2> QED
    BY <2>2, <2>3, <2>4, <2>5 DEF IInv, Types
<1>3. CASE Abandon(c)
  <2>1. /\ HandTypes' /\ handler'[c].question = None /\ handler[c].at \notin Serves1
        /\ \A d \in Conns \ {c} : handler'[d] = handler[d]
    <3> DEFINE h == [handler[c] EXCEPT !.at = "abandoning", !.doomed = IF handler[c].gone = Home THEN open ELSE {}]
    <3>1. /\ h \in Hand /\ h.at \notin Serves1 /\ h.question = handler[c].question
          /\ handler[c].at \notin Serves1 /\ table' \in 0 .. MaxConns
      BY <1>0, <1>3, ZenonT(40) DEF HandTypes, Hand, Serves1, Conns, Abandon, HubTypes
    <3>2. handler' = [handler EXCEPT ![c] = h]
      BY <1>3 DEF Abandon
    <3> HIDE DEF h
    <3> QED
      BY <1>0, <3>1, <3>2, HandMoves
  <2>2. AskTypes' /\ ClientTypes' /\ NetTypes' /\ HubTypes' /\ ConnInv' /\ SaidInv'
        /\ FramesInv' /\ RecordInv' /\ KnownInv'
    BY <1>0, <1>3, AskSame, ClientSame, NetSame, HubSame, ConnSame, SaidSame, FramesSame,
       RecordSame, KnownSame DEF Abandon, relay, client, network, hub
  <2>3. HandTypes'
    BY <2>1
  <2>4. OnceInv'
    BY <1>0, <1>3, <2>1, OnceStands DEF NetTypes, HandTypes, Asked, Conns, Abandon, relay,
       network, hub
  <2> QED
    BY <2>2, <2>3, <2>4 DEF IInv, Types
<1>4. CASE AbandonOne(c)
  <2>1. PICK x \in handler[c].doomed :
          /\ open' = open \ {x} /\ stopped' = stopped \cup {x}
          /\ handler' = [handler EXCEPT ![c].doomed = @ \ {x}, ![c].settling = {x} \cap linked]
    BY <1>4 DEF AbandonOne
  <2>2. x \in Questions
    BY <1>0, <2>1 DEF HandTypes, Hand
  <2>3. /\ HandTypes' /\ handler'[c].question = None /\ handler[c].at \notin Serves1
        /\ \A d \in Conns \ {c} : handler'[d] = handler[d]
    <3> DEFINE h == [handler[c] EXCEPT !.doomed = @ \ {x}, !.settling = {x} \cap linked]
    <3>1. /\ h \in Hand /\ h.at \notin Serves1 /\ h.question = handler[c].question
          /\ handler[c].at \notin Serves1 /\ table' \in 0 .. MaxConns
      BY <1>0, <1>4, <2>2, ZenonT(40) DEF HandTypes, Hand, Serves1, Conns, AbandonOne
    <3>2. handler' = [handler EXCEPT ![c] = h]
      BY <2>1
    <3> HIDE DEF h
    <3> QED
      BY <1>0, <3>1, <3>2, HandMoves
  <2>4. AskTypes' /\ ClientTypes' /\ NetTypes' /\ ConnInv' /\ SaidInv' /\ FramesInv'
        /\ RecordInv' /\ KnownInv'
    BY <1>0, <1>4, AskSame, ClientSame, NetSame, ConnSame, SaidSame, FramesSame,
       RecordSame, KnownSame DEF AbandonOne, relay, client, network
  <2>5. HandTypes'
    BY <2>3
  <2>6. HubTypes'
    BY <1>0, <1>4, <2>1, <2>2 DEF HubTypes, AbandonOne
  <2>7. OnceInv'
    BY <1>0, <1>4, <2>3, OnceStands DEF NetTypes, HandTypes, Asked, Conns, AbandonOne,
       relay, network
  <2> QED
    BY <2>4, <2>5, <2>6, <2>7 DEF IInv, Types
<1>5. CASE SettleOne(c)
  <2>1. PICK x \in handler[c].settling : row' = SettledRow(x)
    BY <1>5 DEF SettleOne
  <2>2. x \in Questions
    BY <1>0, <2>1 DEF HandTypes, Hand
  <2>3. /\ row' \in [Questions -> Decisions \cup {"none", "pending"}] /\ RowsStand
        /\ \A y \in Questions : row'[y] = row[y] \/ (row[y] = "pending" /\ row'[y] = "expired")
    BY <1>0, <2>1, <2>2 DEF HubTypes, SettledRow, RowsStand, Decisions
  <2>4. /\ handler' \in [Conns -> Hand]
        /\ \A d \in Conns : handler'[d].at = handler[d].at /\ handler'[d].question = handler[d].question
    BY <1>0, <1>5 DEF HandTypes, Hand, SettleOne
  <2>5. AskTypes' /\ ClientTypes' /\ NetTypes' /\ ConnInv' /\ KnownInv'
    BY <1>0, <1>5, AskSame, ClientSame, NetSame, ConnSame, KnownSame
       DEF SettleOne, relay, client, network
  <2>6. HandTypes'
    BY <1>0, <1>5, <2>4 DEF HandTypes, SettleOne
  <2>7. HubTypes'
    BY <1>0, <1>5, <2>3 DEF HubTypes, SettleOne
  <2>8. OnceInv'
    <3>1. HandTypes'
      BY <1>0, <1>5, <2>4 DEF HandTypes, SettleOne
    <3> QED
      BY <1>0, <1>5, <2>4, <2>3, <3>1, OnceStands DEF NetTypes, Asked, SettleOne, network,
         relay
  <2>9. SaidInv'
    BY <1>0, <1>5, <2>3 DEF SaidInv, Asked, Decisions, SettleOne, relay
  <2>10. FramesInv'
    BY <1>0, <1>5, <2>3, FramesStand DEF Asked, SettleOne, network, relay
  <2>11. RecordInv'
    BY <1>0, <1>5, <2>3, RecordStands DEF SettleOne, relay, client
  <2> QED
    BY <2>5, <2>6, <2>7, <2>8, <2>9, <2>10, <2>11 DEF IInv, Types
<1>6. CASE AbandonTurn(c)
  <2>1. /\ HandTypes' /\ handler'[c].question = None /\ handler[c].at \notin Serves1
        /\ \A d \in Conns \ {c} : handler'[d] = handler[d]
    <3> DEFINE h == [handler[c] EXCEPT !.at = IF handler[c].gone = c THEN "done" ELSE "read"]
    <3>1. /\ h \in Hand /\ h.at \notin Serves1 /\ h.question = handler[c].question
          /\ handler[c].at \notin Serves1 /\ table' \in 0 .. MaxConns
      BY <1>0, <1>6 DEF HandTypes, Hand, Serves1, Conns, AbandonTurn
    <3>2. handler' = [handler EXCEPT ![c] = h]
      BY <1>6 DEF AbandonTurn
    <3> HIDE DEF h
    <3> QED
      BY <1>0, <3>1, <3>2, HandMoves
  <2>2. AskTypes' /\ ClientTypes' /\ SaidInv' /\ FramesInv' /\ RecordInv' /\ KnownInv'
    BY <1>0, <1>6, AskSame, ClientSame, SaidSame, FramesSame, RecordSame, KnownSame
       DEF AbandonTurn, relay, client, hub
  <2>3. NetTypes'
    BY <1>0, <1>6 DEF NetTypes, Dev, HandTypes, HubTypes, DownFrame, AskTypes, Conns,
       Outcomes, AbandonTurn, relay, client, hub
  <2>4. HandTypes'
    BY <2>1
  <2>5. HubTypes'
    BY <1>0, <1>6 DEF HubTypes, HandTypes, Hand, Serves1, Conns, Outcomes, AbandonTurn,
       relay, client, hub
  <2>6. ConnInv'
    BY <1>0, <1>6 DEF AskTypes, Ask, ClientTypes, NetTypes, Dev, ConnInv, Polls,
       AbandonTurn, relay, client, hub
  <2>7. OnceInv'
    BY <1>0, <1>6, <2>1, OnceStands DEF NetTypes, HandTypes, Asked, Conns, AbandonTurn,
       relay, network, hub
  <2> QED
    BY <2>2, <2>3, <2>4, <2>5, <2>6, <2>7 DEF IInv, Types
<1> QED
  BY <1>1, <1>2, <1>3, <1>4, <1>5, <1>6

\* The goroutine that waits sends what the row says, and people decide once.
LEMMA WaitKeeps ==
  ASSUME IInv, NEW q \in Questions,
         Await(q) \/ StillOpen(q) \/ Decide(q) \/ AwaitReturns(q) \/ PersonDecides(q) \/
         Expire(q)
  PROVE  IInv'
<1>0. /\ AskTypes /\ ClientTypes /\ NetTypes /\ HandTypes /\ HubTypes
      /\ ConnInv /\ OnceInv /\ SaidInv /\ FramesInv /\ RecordInv /\ KnownInv
  BY DEF IInv, Types
<1>1. CASE Await(q)
  <2>1. AskTypes' /\ ClientTypes' /\ NetTypes' /\ HandTypes' /\ ConnInv' /\ OnceInv'
        /\ FramesInv' /\ RecordInv' /\ KnownInv'
    BY <1>0, <1>1, AskSame, ClientSame, NetSame, HandSame, ConnSame, OnceSame, FramesSame,
       RecordSame, KnownSame DEF Await, relay, client, network
  <2>2. HubTypes'
    BY <1>0, <1>1 DEF HubTypes, HandTypes, Hand, Serves1, Conns, Outcomes, Await, relay,
       client, network
  <2>3. SaidInv'
    BY <1>0, <1>1 DEF AskTypes, Ask, NetTypes, Dev, HubTypes, SaidInv, Asked, Await, relay,
       client, network
  <2> QED
    BY <2>1, <2>2, <2>3 DEF IInv, Types
<1>2. CASE StillOpen(q)
  <2>1. AskTypes' /\ ClientTypes' /\ NetTypes' /\ HandTypes' /\ ConnInv' /\ OnceInv'
        /\ FramesInv' /\ RecordInv' /\ KnownInv'
    BY <1>0, <1>2, AskSame, ClientSame, NetSame, HandSame, ConnSame, OnceSame, FramesSame,
       RecordSame, KnownSame DEF StillOpen, relay, client, network
  <2>2. HubTypes'
    BY <1>0, <1>2 DEF HubTypes, HandTypes, Hand, Serves1, Conns, Outcomes, StillOpen,
       relay, client, network
  <2>3. SaidInv'
    BY <1>0, <1>2 DEF AskTypes, Ask, NetTypes, Dev, HubTypes, SaidInv, Asked, StillOpen,
       relay, client, network
  <2> QED
    BY <2>1, <2>2, <2>3 DEF IInv, Types
<1>3. CASE Decide(q)
  <2> DEFINE f == Frame("decision", q, row[q])
  <2>1. /\ f \in DownFrame /\ FrameFine(f) /\ Home \in Conns /\ (down' = Sent(Home, f) \/ UNCHANGED down)
    <3>1. row[q] \in Decisions /\ row[q] # "none"
      BY <1>0, <1>3 DEF SaidInv, Decide, Decisions
    <3>2. Asked(q)
      BY <1>0, <3>1 DEF OnceInv
    <3>3. Home \in Conns
      BY NodeApprovalsAssumption DEF Home, Conns
    <3> QED
      BY <1>3, <3>1, <3>2, <3>3 DEF Decide, Frame, DownFrame, FrameFine, OnRecord
  <2> HIDE DEF f
  <2>2. AskTypes' /\ ClientTypes' /\ HandTypes' /\ ConnInv' /\ OnceInv' /\ RecordInv'
        /\ KnownInv'
    BY <1>0, <1>3, AskSame, ClientSame, HandSame, ConnSame, OnceSame, RecordSame,
       KnownSame DEF Decide, relay, client
  <2>3. NetTypes'
    BY <1>0, <1>3, <2>1, SentItems DEF NetTypes, Decide
  <2>4. HubTypes'
    BY <1>0, <1>3 DEF HubTypes, HandTypes, Hand, Serves1, Conns, Outcomes, Decide, Sent,
       Frame, relay, client
  <2>5. SaidInv'
    BY <1>0, <1>3 DEF SaidInv, HubTypes, Asked, Decide, relay
  <2>6. FramesInv'
    <3>1. CASE UNCHANGED down
      BY <1>0, <1>3, <3>1, FramesSame DEF Decide, relay
    <3>2. CASE down' = Sent(Home, f)
      BY <1>0, <1>3, <2>1, <3>2, FramesSent DEF RowsStand, Decide, relay
    <3> QED
      BY <2>1, <3>1, <3>2
  <2> QED
    BY <2>2, <2>3, <2>4, <2>5, <2>6 DEF IInv, Types
<1>4. CASE AwaitReturns(q)
  <2>1. AskTypes' /\ ClientTypes' /\ NetTypes' /\ HandTypes' /\ ConnInv' /\ OnceInv'
        /\ FramesInv' /\ RecordInv' /\ KnownInv'
    BY <1>0, <1>4, AskSame, ClientSame, NetSame, HandSame, ConnSame, OnceSame, FramesSame,
       RecordSame, KnownSame DEF AwaitReturns, relay, client, network
  <2>2. HubTypes'
    BY <1>0, <1>4 DEF HubTypes, HandTypes, Hand, Serves1, Conns, Outcomes, AwaitReturns,
       relay, client, network
  <2>3. SaidInv'
    BY <1>0, <1>4 DEF AskTypes, Ask, NetTypes, Dev, HubTypes, SaidInv, Asked, AwaitReturns,
       relay, client, network
  <2> QED
    BY <2>1, <2>2, <2>3 DEF IInv, Types
<1>5. CASE PersonDecides(q)
  <2>1. row[q] = "pending" /\ \E d \in Decisions : row' = [row EXCEPT ![q] = d]
    BY <1>5 DEF PersonDecides, Decisions
  <2>2. /\ row' \in [Questions -> Decisions \cup {"none", "pending"}] /\ RowsStand
        /\ \A y \in Questions : row'[y] = row[y] \/ (row[y] = "pending" /\ row'[y] \in Decisions)
    BY <1>0, <2>1 DEF HubTypes, RowsStand, Decisions
  <2>3. AskTypes' /\ ClientTypes' /\ NetTypes' /\ HandTypes' /\ ConnInv' /\ KnownInv'
    BY <1>0, <1>5, AskSame, ClientSame, NetSame, HandSame, ConnSame, KnownSame
       DEF PersonDecides, relay, client, network
  <2>4. HubTypes'
    BY <1>0, <1>5, <2>2 DEF HubTypes, PersonDecides
  <2>5. OnceInv'
    BY <1>0, <1>5, <2>2, OnceStands DEF NetTypes, HandTypes, Decisions, Asked,
       PersonDecides, network, relay
  <2>6. SaidInv'
    BY <1>0, <1>5, <2>2 DEF SaidInv, Asked, Decisions, PersonDecides, relay
  <2>7. FramesInv'
    BY <1>0, <1>5, <2>2, FramesStand DEF Asked, PersonDecides, network, relay
  <2>8. RecordInv'
    BY <1>0, <1>5, <2>2, RecordStands DEF PersonDecides, relay, client
  <2> QED
    BY <2>3, <2>4, <2>5, <2>6, <2>7, <2>8 DEF IInv, Types
<1>6. CASE Expire(q)
  <2>1. row[q] = "pending" /\ \E d \in Decisions : row' = [row EXCEPT ![q] = d]
    BY <1>6 DEF Expire, Decisions
  <2>2. /\ row' \in [Questions -> Decisions \cup {"none", "pending"}] /\ RowsStand
        /\ \A y \in Questions : row'[y] = row[y] \/ (row[y] = "pending" /\ row'[y] \in Decisions)
    BY <1>0, <2>1 DEF HubTypes, RowsStand, Decisions
  <2>3. AskTypes' /\ ClientTypes' /\ NetTypes' /\ HandTypes' /\ ConnInv' /\ KnownInv'
    BY <1>0, <1>6, AskSame, ClientSame, NetSame, HandSame, ConnSame, KnownSame
       DEF Expire, relay, client, network
  <2>4. HubTypes'
    BY <1>0, <1>6, <2>2 DEF HubTypes, Expire
  <2>5. OnceInv'
    BY <1>0, <1>6, <2>2, OnceStands DEF NetTypes, HandTypes, Decisions, Asked, Expire,
       network, relay
  <2>6. SaidInv'
    BY <1>0, <1>6, <2>2 DEF SaidInv, Asked, Decisions, Expire, relay
  <2>7. FramesInv'
    BY <1>0, <1>6, <2>2, FramesStand DEF Asked, Expire, network, relay
  <2>8. RecordInv'
    BY <1>0, <1>6, <2>2, RecordStands DEF Expire, relay, client
  <2> QED
    BY <2>3, <2>4, <2>5, <2>6, <2>7, <2>8 DEF IInv, Types
<1> QED
  BY <1>1, <1>2, <1>3, <1>4, <1>5, <1>6

\* The end of the turn touches nothing of this.
LEMMA TurnEndKeeps ==
  ASSUME IInv,
         TurnEnds
  PROVE  IInv'
<1>0. /\ AskTypes /\ ClientTypes /\ NetTypes /\ HandTypes /\ HubTypes
      /\ ConnInv /\ OnceInv /\ SaidInv /\ FramesInv /\ RecordInv /\ KnownInv
  BY DEF IInv, Types
<1>1. CASE TurnEnds
  <2>1. AskTypes' /\ ClientTypes' /\ NetTypes' /\ HandTypes' /\ ConnInv' /\ OnceInv'
        /\ SaidInv' /\ FramesInv' /\ RecordInv' /\ KnownInv'
    BY <1>0, <1>1, AskSame, ClientSame, NetSame, HandSame, ConnSame, OnceSame, SaidSame,
       FramesSame, RecordSame, KnownSame DEF TurnEnds, relay, client, network, hub
  <2>2. HubTypes'
    BY <1>0, <1>1 DEF HubTypes, HandTypes, Hand, Serves1, Conns, Outcomes, TurnEnds, relay,
       client, network, hub
  <2> QED
    BY <2>1, <2>2 DEF IInv, Types
<1> QED
  BY <1>1
-----------------------------------------------------------------------------
(* The theorems *)

\* It holds of the state the daemons start in.
LEMMA StartsRight == Init => IInv
<1> SUFFICES ASSUME Init PROVE IInv
  OBVIOUS
<1>1. /\ 0 \in 0 .. MaxConns /\ 1 \in 0 .. MaxConns /\ Home \in Conns /\ None \notin Questions
  BY NodeApprovalsAssumption DEF Home, Conns
<1>2. /\ \A q \in Questions : ask[q] = [at |-> "idle", conn |-> 0] /\ stale[q] = [at |-> "none", outcome |-> None]
      /\ \A q \in Questions : said[q] = None /\ channel[q] = None /\ answered[q] = None
                                /\ poll[q] = "off" /\ told[q] = None /\ row[q] = "none" /\ await[q] = "off"
  BY DEF Init
<1>3. \A c \in Conns : up[c] = <<>> /\ down[c] = <<>>
  BY DEF Init
<1>4. AskTypes
  BY <1>1 DEF Init, AskTypes, Ask
<1>5. ClientTypes
  BY <1>1, <1>2 DEF Init, ClientTypes, Wait
<1>6. NetTypes
  <2>1. /\ dev = [conn |-> 1, ending |-> FALSE, linking |-> {}]
        /\ up = [c \in Conns |-> <<>>] /\ down = [c \in Conns |-> <<>>]
        /\ sock = [c \in Conns |-> IF c = Home THEN "up" ELSE "none"]
    BY DEF Init, Home
  <2>2. dev \in Dev
    BY <1>1, <2>1 DEF Dev
  <2>3. <<>> \in Seq(Questions) /\ <<>> \in Seq(DownFrame)
    OBVIOUS
  <2> QED
    BY <2>1, <2>2, <2>3 DEF NetTypes
<1>7. \A c \in Conns : handler[c] = [NoHandler EXCEPT !.at = IF c = Home THEN "read" ELSE "none"]
  BY DEF Init
<1>8. \A c \in Conns : handler[c] \in Hand /\ handler[c].at \in {"read", "none"} /\ handler[c].question = None
  BY <1>1, <1>7, ZenonT(40) DEF NoHandler, Hand
<1>9. HandTypes
  <2>1. handler = [c \in Conns |-> handler[c]] /\ table \in 0 .. MaxConns
    BY <1>1 DEF Init, Home
  <2>2. handler \in [Conns -> Hand]
    BY <1>8, <2>1
  <2> QED
    BY <1>8, <2>1, <2>2 DEF HandTypes, Serves1
<1>10. HubTypes
  BY DEF Init, HubTypes
<1>11. ConnInv
  BY <1>1, <1>2 DEF Init, ConnInv, Polls, Home
<1>12. Items(<<>>) = {} /\ Distinct(<<>>)
  BY DEF Items, Distinct
<1>13. OnceInv
  BY <1>1, <1>2, <1>3, <1>8, <1>12 DEF OnceInv
<1>14. None # "accepted" /\ None \notin Decisions
  BY NodeApprovalsAssumption DEF Decisions
<1>15. SaidInv
  BY <1>2, <1>14 DEF Init, SaidInv
<1>16. FramesInv
  BY <1>3, <1>12 DEF FramesInv
<1>17. RecordInv
  BY <1>2, <1>14 DEF RecordInv, OnRecord, Decisions
<1>18. KnownInv
  BY <1>2 DEF KnownInv, Polls
<1> QED
  BY <1>4, <1>5, <1>6, <1>9, <1>10, <1>11, <1>13, <1>15, <1>16, <1>17, <1>18 DEF IInv, Types

\* No step of the machine, of the Hub, of the agent, of a person or of the network
\* breaks the invariant.
THEOREM NodeApprovalsInductive == Spec => []IInv
<1>1. Init => IInv
  BY StartsRight
<1>2. IInv /\ [Next]_vars => IInv'
  <2> SUFFICES ASSUME IInv, [Next]_vars PROVE IInv'
    OBVIOUS
  <2>1. CASE Next
    <3>1. ASSUME NEW q \in Questions, Begin(q) \/ Asking(q) PROVE IInv'
      BY <3>1, AskKeeps DEF Asking
    <3>2. ASSUME NEW q \in Questions, Polling(q) \/ Stale(q) PROVE IInv'
      BY <3>2, PollKeeps DEF Polling, Stale
    <3>3. ASSUME NEW q \in Questions, Waiting(q) \/ PersonDecides(q) \/ Expire(q) PROVE IInv'
      BY <3>3, WaitKeeps DEF Waiting
    <3>4. CASE AgentEnds
      BY <3>4, AgentEndKeeps
    <3>5. CASE TurnEnds
      BY <3>5, TurnEndKeeps
    <3>6. CASE Machine
      BY <3>6, MachineKeeps DEF Machine
    <3>7. ASSUME NEW c \in Conns, Connect(c) \/ Break(c) PROVE IInv'
      BY <3>7, LinkKeeps
    <3>8. ASSUME NEW c \in Conns, Serves(c) PROVE IInv'
      BY <3>8, ServeKeeps, AbandonKeeps DEF Serves
    <3> QED
      BY <2>1, <3>1, <3>2, <3>3, <3>4, <3>5, <3>6, <3>7, <3>8 DEF Next
  <2>2. CASE UNCHANGED vars
    BY <2>2, AskSame, ClientSame, NetSame, HandSame, HubSame, ConnSame, OnceSame, SaidSame,
       FramesSame, RecordSame, KnownSame
       DEF IInv, Types, vars, relay, client, network, hub
  <2> QED
    BY <2>1, <2>2
<1> QED
  BY <1>1, <1>2, PTL DEF Spec

\* The state keeps its types; what is sent as a decision is one.
THEOREM NodeApprovalsTypes == Spec => []TypeOK
<1>1. IInv => TypeOK
  BY DEF IInv, Types, AskTypes, ClientTypes, NetTypes, HandTypes, HubTypes, TypeOK, Ask, Wait, Dev, Hand
<1> QED
  BY <1>1, NodeApprovalsInductive, PTL

\* An agent on another machine is told the decision the Hub's record shows, whatever
\* ended, was lost or was asked twice in between.
THEOREM AgentIsToldTheRecord == Spec => []ToldTheRecord
<1>1. IInv => ToldTheRecord
  BY DEF IInv, RecordInv, OnRecord, ToldTheRecord
<1> QED
  BY <1>1, NodeApprovalsInductive, PTL

\* While the connection of a question lasts, the machine knows it.
THEOREM MachineKnowsItsQuestion == Spec => []QuestionIsKnown
<1>1. IInv => QuestionIsKnown
  BY DEF IInv, KnownInv, Polls, QuestionIsKnown
<1> QED
  BY <1>1, NodeApprovalsInductive, PTL


=============================================================================

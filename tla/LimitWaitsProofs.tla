-------------------------- MODULE LimitWaitsProofs --------------------------
(***************************************************************************)
(* What the quota waits of a task keep, for every number of workers,       *)
(* finishers, turns, requests, errors and restarts: the types of the state,*)
(* and that a wait which has not ended is always tended, by the worker     *)
(* that holds its claim or by somebody who will look at it again.          *)
(***************************************************************************)
EXTENDS LimitWaits, WellFoundedInduction, TLAPS

\* The state but for the wait, its timer and the goroutines.
DataInv ==
  /\ status \in {"running", "retrying"} \cup Terminal
  /\ epoch \in Nat
  /\ cards \in Seq(Card) /\ Len(cards) \in 1..MaxTurns /\ Len(cards) <= turns
  /\ cause \in {"none", "known", "unknown"}
  /\ retryMu \in Procs \cup {None}
  /\ turns \in 1..MaxTurns /\ ops \in 0..MaxOps
  /\ errors \in 0..MaxErrors /\ restarts \in 0..MaxRestarts

\* The timer that can be canceled is one whose worker still sleeps; a worker whose
\* context is canceled is not the registered one, and goes no further than its read
\* of the row.
TimerInv ==
  /\ timer \in Workers \cup {None}
  /\ timer # None => proc[timer].pc \in {"sleep", "fired"}
  /\ \A p \in Procs : proc[p].dead => p # timer /\ proc[p].pc \in {"sleep", "fired", "look"}

\* A worker that will look at the wait.  One that is about to claim it has looked
\* already: if the wait is not due any more, the claim fails and the worker is gone.
WillLook(w) ==
  /\ ~proc[w].dead
  /\ \/ proc[w].pc \in {"sleep", "fired", "look", "rewait", "rearm"}
     \/ proc[w].pc = "claim" /\ row.due

Tended ==
  row.state = "waiting" /\ ~stopped =>
    \/ \E w \in Workers : WillLook(w)
    \/ \E p \in Procs : proc[p].pc \in {"arm", "stoprow"}

IInv ==
  /\ DataInv /\ row \in Row /\ proc \in [Procs -> Proc] /\ stopped \in BOOLEAN
  /\ TimerInv /\ ClaimIsHeld /\ Tended

-----------------------------------------------------------------------------
(* The newest card *)

\* A set of numbers has a least one,
LEMMA LeastOf ==
  ASSUME NEW T \in SUBSET Nat, T # {}
  PROVE  \E x \in T : \A y \in T : x <= y
<1> DEFINE R == OpToRel(<, Nat)
<1>1. IsWellFoundedOn(R, Nat)
  BY NatLessThanWellFounded
<1>2. ASSUME NEW x \in Nat, NEW y \in Nat, ~(<<y, x>> \in R)
      PROVE  x <= y
  BY <1>2 DEF OpToRel
<1> HIDE DEF R
<1>3. PICK x \in T : \A y \in T : ~(<<y, x>> \in R)
  BY <1>1, WFMin
<1>4. \A y \in T : x <= y
  BY <1>2, <1>3
<1> QED
  BY <1>4

\* and a bounded one a greatest, the one furthest from the least of the distances.
LEMMA GreatestOf ==
  ASSUME NEW T \in SUBSET Nat, T # {}, NEW n \in Nat, \A x \in T : x <= n
  PROVE  \E x \in T : \A y \in T : y <= x
<1> DEFINE S == {n - x : x \in T}
<1>1. S \in SUBSET Nat
  <2>1. ASSUME NEW x \in T PROVE n - x \in Nat
    <3>1. x \in Nat /\ x <= n
      OBVIOUS
    <3> QED
      BY <3>1
  <2> QED
    BY <2>1
<1>2. S # {} /\ (\A x \in T : n - x \in S) /\ (\A y \in S : \E x \in T : y = n - x)
  OBVIOUS
<1> HIDE DEF S
<1>3. PICK y \in S : \A z \in S : y <= z
  BY <1>1, <1>2, LeastOf
<1>4. PICK x \in T : y = n - x
  BY <1>2
<1>5. ASSUME NEW z \in T PROVE z <= x
  <2>1. n - x <= n - z
    BY <1>2, <1>3, <1>4
  <2>2. x \in Nat /\ z \in Nat
    OBVIOUS
  <2> QED
    BY <2>1, <2>2
<1> QED
  BY <1>5

\* So the newest card of the transcript is a card, and one that says something.
LEMMA NewestCard ==
  ASSUME cards \in Seq(Card)
  PROVE  LatestHit \in Card
<1>1. CASE Hits = {}
  BY <1>1 DEF LatestHit, NoCard, Card
<1>2. CASE Hits # {}
  <2>1. Len(cards) \in Nat /\ Hits \subseteq 1..Len(cards)
    BY DEF Hits
  <2>2. Hits \in SUBSET Nat /\ \A i \in Hits : i <= Len(cards)
    BY <2>1
  <2>3. \E i \in Hits : \A j \in Hits : j <= i
    BY <1>2, <2>1, <2>2, GreatestOf
  <2> DEFINE i == CHOOSE i \in Hits : \A j \in Hits : j <= i
  <2>4. i \in Hits
    BY <2>3
  <2>5. LatestHit = cards[i]
    BY <1>2 DEF LatestHit
  <2> HIDE DEF i
  <2> QED
    BY <2>1, <2>4, <2>5
<1> QED
  BY <1>1, <1>2

-----------------------------------------------------------------------------
(* Pieces of the state *)

\* What the steps below know of the data they read.
LEMMA DataFacts ==
  ASSUME IInv
  PROVE  /\ MaxTurns \in Nat \ {0} /\ None \notin Procs /\ Api \notin Workers
         /\ Workers \subseteq Procs /\ Finishers \subseteq Procs /\ Api \in Procs
         /\ Workers \cap Finishers = {}
         /\ LatestHit \in Card /\ LatestHit.known \in BOOLEAN /\ HasHit \in BOOLEAN
         /\ ThisTurn \in Turn
<1>1. LatestHit \in Card
  BY NewestCard DEF IInv, DataInv
<1>2. ThisTurn \in Turn
  BY DEF IInv, DataInv, ThisTurn, Turn
<1> QED
  BY <1>1, <1>2, LimitAssumption DEF LimitAssumption, Procs, Card, HasHit

\* A card of this turn is replaced.
LEMMA CardPut ==
  ASSUME DataInv, NEW c \in Card, cards' = [cards EXCEPT ![Len(cards)] = c]
  PROVE  cards' \in Seq(Card) /\ Len(cards') = Len(cards)
BY DEF DataInv

\* And the list of cards keeps its length and its types when the state of one is written.
LEMMA CardWritten ==
  ASSUME DataInv, NEW known \in BOOLEAN,
         NEW s \in {"none", "open", "waiting", "continued", "switched", "dismissed", "blocked"},
         Put(s, known)
  PROVE  cards' \in Seq(Card) /\ Len(cards') = Len(cards)
<1>1. [status |-> s, known |-> known] \in Card
  BY DEF Card
<1> QED
  BY <1>1, CardPut DEF Put

\* What a goroutine becomes when it goes on with an entry of its record, or starts
\* over.
LEMMA OffProc ==
  /\ Off \in Proc /\ Off.pc = "off" /\ Off.dead = FALSE /\ Off.op = "auto" /\ Off.hit = FALSE
BY LimitAssumption DEF LimitAssumption, Off, Proc, Turn

\* A goroutine that moves on without writing the row or the timer leaves the wait
\* tended, if it was not the one that tended it, or still does.
LEMMA Goes ==
  ASSUME IInv, NEW p \in Procs, NEW v \in Proc, Become(p, v), UNCHANGED <<row, timer, stopped>>,
         v.dead = proc[p].dead \/ v.dead = FALSE,
         p = timer \/ v.dead => v.pc \in {"sleep", "fired"},
         proc[p].pc \in ClaimPcs => v.pc \in ClaimPcs \/ ~Holds(p),
         proc[p].pc \notin {"arm", "stoprow"},
         p \in Workers /\ WillLook(p) /\ row.state = "waiting" =>
            ~v.dead /\ (\/ v.pc \in {"sleep", "fired", "look", "rewait", "rearm"}
                        \/ v.pc = "claim" /\ row.due),
         DataInv'
  PROVE  IInv'
<1>1. proc' \in [Procs -> Proc] /\ proc'[p] = v /\ \A q \in Procs \ {p} : proc'[q] = proc[q]
  BY DEF IInv, Become
<1>2. TimerInv'
  BY <1>1, LimitAssumption DEF LimitAssumption, IInv, TimerInv, Procs
<1>3. ClaimIsHeld'
  <2>1. CASE row.state # "probing"
    BY <2>1 DEF ClaimIsHeld
  <2>2. CASE row.state = "probing"
    <3>1. row.claim # None /\ proc[row.claim].pc \in ClaimPcs /\ row.claim \in Procs
      BY <2>2 DEF IInv, ClaimIsHeld, Row, Procs
    <3> QED
      BY <1>1, <2>2, <3>1 DEF ClaimIsHeld, Holds
  <2> QED
    BY <2>1, <2>2
<1>4. Tended'
  <2> SUFFICES ASSUME row.state = "waiting", ~stopped
               PROVE  \/ \E w \in Workers : WillLook(w)'
                      \/ \E q \in Procs : proc'[q].pc \in {"arm", "stoprow"}
    BY DEF Tended
  <2>1. CASE \E w \in Workers : WillLook(w)
    <3>1. PICK w \in Workers : WillLook(w)
      BY <2>1
    <3>2. WillLook(w)'
      BY <1>1, <3>1 DEF WillLook, Procs
    <3> QED
      BY <3>2
  <2>2. CASE \E q \in Procs : proc[q].pc \in {"arm", "stoprow"}
    BY <1>1, <2>2
  <2> QED
    BY <2>1, <2>2 DEF IInv, Tended
<1> QED
  BY <1>1, <1>2, <1>3, <1>4 DEF IInv

\* Nor does a step that moves none of them.
LEMMA Stands ==
  ASSUME IInv, UNCHANGED <<row, timer, stopped, proc>>, DataInv'
  PROVE  IInv'
BY DEF IInv, TimerInv, ClaimIsHeld, Tended, WillLook

\* The data a step of a goroutine leaves alone.
LEMMA DataSame ==
  ASSUME DataInv, UNCHANGED <<task, cards, retryMu, bounds>>
  PROVE  DataInv'
BY DEF DataInv, task, bounds

\* A step that only patches the card of this turn.
LEMMA DataPut ==
  ASSUME DataInv, NEW known \in BOOLEAN,
         NEW s \in {"none", "open", "waiting", "continued", "switched", "dismissed", "blocked"},
         Put(s, known), UNCHANGED <<task, retryMu, bounds>>
  PROVE  DataInv'
BY CardWritten DEF DataInv, task, bounds

AllPcs == {"off", "blockcard"} \cup SleepPcs \cup ClaimPcs \cup RearmPcs \cup ArmPcs \cup UserPcs

\* The record of a goroutine at its next place.
LEMMA NextPlace ==
  ASSUME IInv, NEW p \in Procs, NEW l \in AllPcs
  PROVE  /\ proc[p] \in Proc
         /\ [proc[p] EXCEPT !.pc = l] \in Proc
         /\ [proc[p] EXCEPT !.pc = l].pc = l /\ [proc[p] EXCEPT !.pc = l].dead = proc[p].dead
BY DEF IInv, Proc, AllPcs

\* A goroutine that goes on, out of a place where it tends nothing.
LEMMA GoesTo ==
  ASSUME IInv, NEW p \in Procs, NEW l \in AllPcs, Goto(p, l), UNCHANGED <<row, timer, stopped>>,
         proc[p].pc \notin SleepPcs \cup RearmPcs \cup {"arm", "stoprow"},
         proc[p].pc \in ClaimPcs => l \in ClaimPcs \/ ~Holds(p),
         DataInv'
  PROVE  IInv'
<1> DEFINE v == [proc[p] EXCEPT !.pc = l]
<1>1. v \in Proc /\ v.pc = l /\ v.dead = proc[p].dead
  BY NextPlace
<1>2. Become(p, v)
  BY DEF Goto
<1> HIDE DEF v
<1>3. p # timer /\ ~proc[p].dead
  BY LimitAssumption DEF LimitAssumption, IInv, TimerInv, SleepPcs, Procs
<1>4. ~WillLook(p)
  BY DEF WillLook, SleepPcs, RearmPcs
<1> QED
  BY <1>1, <1>2, <1>3, <1>4, Goes

\* One that starts over with a record of its own.
LEMMA GoesAs ==
  ASSUME IInv, NEW p \in Procs, NEW v \in Proc, Become(p, v), UNCHANGED <<row, timer, stopped>>,
         proc[p].pc \notin SleepPcs \cup RearmPcs \cup {"arm", "stoprow"}, ~v.dead,
         proc[p].pc \in ClaimPcs => v.pc \in ClaimPcs \/ ~Holds(p),
         DataInv'
  PROVE  IInv'
<1>1. p # timer /\ ~proc[p].dead
  BY LimitAssumption DEF LimitAssumption, IInv, TimerInv, SleepPcs, Procs
<1>2. ~WillLook(p)
  BY DEF WillLook, SleepPcs, RearmPcs
<1>3. v.dead = FALSE
  BY DEF Proc
<1> QED
  BY <1>1, <1>2, <1>3, Goes

-----------------------------------------------------------------------------
(* The turn, and the policy at its end *)

\* A limit is hit, a turn ends, time passes.
LEMMA TurnKeeps ==
  ASSUME IInv, HitsLimit \/ TimePasses \/ \E f \in Finishers : TurnEnds(f)
  PROVE  IInv'
<1>1. CASE HitsLimit
  <2>1. PICK known \in BOOLEAN : Put("open", known) \/ UNCHANGED cards
    BY <1>1 DEF HitsLimit
  <2>2. cards' \in Seq(Card) /\ Len(cards') = Len(cards)
    BY <2>1, CardWritten DEF IInv, DataInv
  <2>3. DataInv'
    BY <1>1, <2>2 DEF HitsLimit, IInv, DataInv, bounds
  <2> QED
    BY <1>1, <2>3, Stands DEF HitsLimit
<1>2. CASE TimePasses
  <2>1. row' \in Row /\ row'.state = row.state /\ row'.claim = row.claim /\ (row.due => row'.due)
    BY <1>2 DEF TimePasses, Due, Expires, Late, IInv, Row
  <2>2. UNCHANGED <<task, cards, timer, retryMu, proc, stopped, bounds>>
    BY <1>2 DEF TimePasses
  <2>3. DataInv'
    BY <2>2, DataSame DEF IInv
  <2>4. TimerInv' /\ ClaimIsHeld'
    BY <2>1, <2>2 DEF IInv, TimerInv, ClaimIsHeld
  <2>5. \A w \in Workers : WillLook(w) => WillLook(w)'
    BY <2>1, <2>2 DEF WillLook
  <2>6. Tended'
    BY <2>1, <2>2, <2>5 DEF IInv, Tended
  <2> QED
    BY <2>1, <2>2, <2>3, <2>4, <2>6 DEF IInv
<1>3. ASSUME NEW f \in Finishers, TurnEnds(f)
      PROVE  IInv'
  <2>1. f \in Procs
    BY DataFacts
  <2>2. DataInv'
    BY <1>3 DEF TurnEnds, IInv, DataInv, bounds, Terminal
  <2>3. CASE UNCHANGED proc
    BY <1>3, <2>2, <2>3, Stands DEF TurnEnds
  <2>4. CASE Goto(f, "policy")
    BY <1>3, <2>1, <2>2, <2>4, GoesTo DEF TurnEnds, AllPcs, ArmPcs, SleepPcs, RearmPcs, ClaimPcs
  <2> QED
    BY <1>3, <2>3, <2>4 DEF TurnEnds
<1> QED
  BY <1>1, <1>2, <1>3

-----------------------------------------------------------------------------
(* Arming a wait *)

\* A timer is armed: its worker will look at the wait, whoever was registered before.
LEMMA TimerArmed ==
  ASSUME IInv, NEW p \in Procs, NEW x \in Workers, ArmTimer(p, x), row' = row, DataInv',
         proc[p].pc \notin ClaimPcs, proc[x].pc \notin ClaimPcs \cup {"sleep", "fired"}
  PROVE  IInv'
<1> DEFINE s == [Off EXCEPT !.pc = "sleep"]
<1>1. s \in Proc /\ s.pc = "sleep" /\ s.dead = FALSE
  BY OffProc DEF Proc, SleepPcs
<1>2. proc \in [Procs -> Proc] /\ x \in Procs
  BY DEF IInv, Procs
<1>3. /\ Dropped \in [Procs -> Proc]
      /\ \A q \in Procs : Dropped[q].pc = proc[q].pc
      /\ \A q \in Procs : q # timer => Dropped[q] = proc[q]
      /\ \A q \in Procs : q = timer => Dropped[q].dead = TRUE
  <2>1. CASE timer = None
    BY <1>2, <2>1, LimitAssumption DEF LimitAssumption, Dropped
  <2>2. CASE timer # None
    <3>1. timer \in Procs /\ Dropped = [proc EXCEPT ![timer] = [proc[timer] EXCEPT !.dead = TRUE]]
      BY <1>2, <2>2 DEF Dropped, IInv, TimerInv, Procs
    <3> DEFINE d == [proc[timer] EXCEPT !.dead = TRUE]
    <3>2. d \in Proc /\ d.pc = proc[timer].pc /\ d.dead = TRUE
      BY <1>2, <3>1 DEF Proc
    <3> HIDE DEF d
    <3> QED
      BY <1>2, <3>1, <3>2 DEF d
  <2> QED
    BY <2>1, <2>2
<1>4. proc' = [Dropped EXCEPT ![p] = Off, ![x] = s] /\ timer' = x /\ stopped' = FALSE
  BY DEF ArmTimer
<1> HIDE DEF s
<1>5. /\ proc' \in [Procs -> Proc] /\ proc'[x] = s
      /\ \A q \in Procs : q # x => proc'[q] = IF q = p THEN Off ELSE Dropped[q]
  BY <1>1, <1>2, <1>3, <1>4, OffProc
<1>6. TimerInv'
  <2>1. ASSUME NEW q \in Procs, proc'[q].dead
        PROVE  q # x /\ proc'[q].pc \in {"sleep", "fired", "look"}
    <3>1. q # x
      BY <1>1, <1>5, <2>1
    <3>2. q # p
      BY <1>5, <2>1, <3>1, OffProc
    <3>3. proc'[q] = Dropped[q]
      BY <1>5, <3>1, <3>2
    <3>4. CASE q = timer
      BY <1>3, <3>1, <3>3, <3>4, LimitAssumption DEF LimitAssumption, IInv, TimerInv, Procs
    <3>5. CASE q # timer
      BY <1>3, <2>1, <3>1, <3>3, <3>5 DEF IInv, TimerInv
    <3> QED
      BY <3>4, <3>5
  <2> QED
    BY <1>1, <1>4, <1>5, <2>1 DEF TimerInv
<1>7. ClaimIsHeld'
  <2>1. CASE row.state # "probing"
    BY <2>1 DEF ClaimIsHeld
  <2>2. CASE row.state = "probing"
    <3>1. row.claim # None /\ proc[row.claim].pc \in ClaimPcs /\ row.claim \in Procs
      BY <2>2 DEF IInv, ClaimIsHeld, Row, Procs
    <3> QED
      BY <1>3, <1>5, <2>2, <3>1 DEF ClaimIsHeld
  <2> QED
    BY <2>1, <2>2
<1>8. Tended'
  BY <1>1, <1>5 DEF Tended, WillLook
<1> QED
  BY <1>4, <1>5, <1>6, <1>7, <1>8 DEF IInv

\* The end of a run, and the user's wait, arm one.
LEMMA ArmingKeeps ==
  ASSUME IInv, NEW p \in Finishers \cup {Api}, Arming(p)
  PROVE  IInv'
<1> USE DEF AllPcs, ArmPcs, SleepPcs, RearmPcs, ClaimPcs
<1>1. p \in Procs /\ proc[p] \in Proc /\ p \notin Workers
  BY DataFacts DEF IInv
<1>2. CASE Policy(p)
  <2>1. UNCHANGED <<task, cards, row, timer, retryMu, stopped, bounds>> /\ proc[p].pc = "policy"
    BY <1>2 DEF Policy
  <2>2. DataInv'
    BY <2>1, DataSame DEF IInv
  <2> DEFINE v == [Off EXCEPT !.pc = "armcheck", !.known = LatestHit.known]
  <2>3. v \in Proc /\ v.dead = FALSE
    BY OffProc, DataFacts DEF Proc
  <2>4. Become(p, v) \/ Become(p, Off)
    BY <1>2 DEF Policy
  <2> HIDE DEF v
  <2> QED
    BY <1>1, <2>1, <2>2, <2>3, <2>4, OffProc, GoesAs
<1>3. CASE ArmCheck(p)
  <2>1. DataInv'
    BY <1>3, DataSame DEF ArmCheck, IInv
  <2>2. Goto(p, "mark") \/ Goto(p, "off")
    BY <1>3 DEF ArmCheck
  <2> QED
    BY <1>1, <1>3, <2>1, <2>2, GoesTo DEF ArmCheck
<1>4. CASE Mark(p)
  <2>1. DataInv'
    BY <1>1, <1>4, DataPut DEF Mark, IInv, Proc
  <2> DEFINE v == [proc[p] EXCEPT !.pc = "persist", !.turn = ThisTurn]
  <2>2. v \in Proc /\ v.dead = proc[p].dead
    BY <1>1, DataFacts DEF Proc
  <2>3. Become(p, v)
    BY <1>4 DEF Mark
  <2>4. ~proc[p].dead
    BY <1>1, <1>4 DEF Mark, IInv, TimerInv
  <2> HIDE DEF v
  <2> QED
    BY <1>1, <1>4, <2>1, <2>2, <2>3, <2>4, GoesAs DEF Mark
<1>5. CASE Persist(p)
  <2>1. /\ UNCHANGED <<task, cards, timer, retryMu, stopped, bounds>> /\ Goto(p, "arm")
        /\ proc[p].pc = "persist"
    BY <1>5 DEF Persist
  <2>2. DataInv'
    BY <2>1, DataSame DEF IInv
  <2>3. row' \in Row /\ (row'.state = "waiting" \/ row' = row)
    <3> DEFINE e == row.expired /\ row.turn = proc[p].turn
    <3>1. e \in BOOLEAN /\ proc[p].turn \in Turn /\ proc[p].known \in BOOLEAN
      BY <1>1 DEF Proc
    <3>2. row' = row \/ row' = [NoWait EXCEPT !.state = "waiting", !.turn = proc[p].turn,
                                  !.known = proc[p].known, !.expired = e]
      BY <1>5 DEF Persist
    <3> HIDE DEF e
    <3>3. [NoWait EXCEPT !.state = "waiting", !.turn = proc[p].turn, !.known = proc[p].known,
             !.expired = e] \in Row
      BY <3>1 DEF NoWait, Row, Active
    <3> QED
      BY <3>2, <3>3 DEF IInv, NoWait
  <2>4. /\ proc' \in [Procs -> Proc] /\ proc'[p].pc = "arm"
        /\ proc'[p].dead = proc[p].dead
        /\ \A q \in Procs \ {p} : proc'[q] = proc[q]
    BY <1>1, <2>1, NextPlace DEF Goto, Become, IInv
  <2>5. TimerInv'
    BY <1>1, <2>1, <2>4, LimitAssumption DEF LimitAssumption, IInv, TimerInv, Procs
  <2>6. ClaimIsHeld'
    <3>1. row.state = "probing" => row.claim \in Procs /\ proc[row.claim].pc \in ClaimPcs
      BY DEF IInv, ClaimIsHeld, Row, Procs
    <3> QED
      BY <1>1, <2>1, <2>3, <2>4, <3>1 DEF ClaimIsHeld, IInv
  <2>7. Tended'
    BY <1>1, <2>4 DEF Tended
  <2> QED
    BY <2>1, <2>2, <2>3, <2>4, <2>5, <2>6, <2>7 DEF IInv
<1>6. CASE Arm(p)
  <2>1. DataInv'
    BY <1>6, DataSame DEF Arm, IInv, ArmTimer
  <2>2. PICK x \in Workers : proc[x].pc = "off" /\ ArmTimer(p, x)
    BY <1>6 DEF Arm
  <2> QED
    BY <1>1, <1>6, <2>1, <2>2, TimerArmed DEF Arm
<1> QED
  BY <1>2, <1>3, <1>4, <1>5, <1>6 DEF Arming

-----------------------------------------------------------------------------
(* The worker of a timer *)

\* It wakes, reads the row, and claims it, sleeps on or is gone.
LEMMA WakingKeeps ==
  ASSUME IInv, NEW w \in Workers, Wake(w) \/ Fired(w) \/ Look(w) \/ Claim(w)
  PROVE  IInv'
<1> USE DEF AllPcs, SleepPcs, RearmPcs, ClaimPcs
<1>1. w \in Procs /\ proc[w] \in Proc /\ proc \in [Procs -> Proc] /\ w # None
  BY DataFacts DEF IInv
<1>2. DataInv'
  BY DataSame DEF Wake, Fired, Look, Claim, IInv, ArmTimer
<1>3. ASSUME NEW l \in AllPcs, Goto(w, l), UNCHANGED <<row, timer, stopped>>,
             w = timer \/ proc[w].dead => l \in {"sleep", "fired"},
             proc[w].pc \in {"sleep", "fired", "look"},
             WillLook(w) => ~proc[w].dead /\ (l \in {"fired", "look"} \/ (l = "claim" /\ row.due))
      PROVE  IInv'
  <2> DEFINE v == [proc[w] EXCEPT !.pc = l]
  <2>1. v \in Proc /\ v.pc = l /\ v.dead = proc[w].dead
    BY <1>1, NextPlace
  <2>2. Become(w, v)
    BY <1>3 DEF Goto
  <2> HIDE DEF v
  <2> QED
    BY <1>1, <1>2, <1>3, <2>1, <2>2, Goes
<1>4. CASE Wake(w)
  <2>1. CASE Goto(w, "fired")
    BY <1>3, <1>4, <2>1 DEF Wake, WillLook
  <2>2. CASE proc[w].dead /\ Become(w, Off)
    <3>1. w # timer /\ ~WillLook(w)
      BY <1>1, <2>2 DEF IInv, TimerInv, WillLook
    <3> QED
      BY <1>1, <1>2, <1>4, <2>2, <3>1, OffProc, Goes DEF Wake
  <2> QED
    BY <1>4, <2>1, <2>2 DEF Wake
<1>5. CASE Fired(w)
  <2> DEFINE v == [proc[w] EXCEPT !.pc = "look"]
  <2>1. v \in Proc /\ v.pc = "look" /\ v.dead = proc[w].dead
    BY <1>1, NextPlace
  <2>2. proc' = [proc EXCEPT ![w] = v] /\ timer' = None /\ UNCHANGED <<row, stopped>>
        /\ proc[w].pc = "fired"
    BY <1>5 DEF Fired, Goto, Become
  <2> HIDE DEF v
  <2>3. /\ proc' \in [Procs -> Proc] /\ proc'[w] = v
        /\ \A q \in Procs \ {w} : proc'[q] = proc[q]
    BY <1>1, <2>1, <2>2
  <2>4. TimerInv'
    BY <1>1, <2>1, <2>2, <2>3, DataFacts DEF IInv, TimerInv
  <2>5. ClaimIsHeld'
    <3>1. row.state = "probing" => row.claim \in Procs /\ proc[row.claim].pc \in ClaimPcs
      BY DEF IInv, ClaimIsHeld, Row, Procs
    <3> QED
      BY <2>2, <2>3, <3>1 DEF ClaimIsHeld, IInv
  <2>6. Tended'
    <3>1. \A u \in Workers : WillLook(u) => WillLook(u)'
      BY <1>1, <2>1, <2>2, <2>3 DEF WillLook, Procs
    <3>2. \A q \in Procs : proc[q].pc \in {"arm", "stoprow"} => proc'[q].pc = proc[q].pc
      BY <2>2, <2>3
    <3> QED
      BY <2>2, <3>1, <3>2 DEF IInv, Tended
  <2> QED
    BY <1>2, <2>2, <2>3, <2>4, <2>5, <2>6 DEF IInv
<1>6. CASE Look(w)
  <2>1. w # timer /\ proc[w].pc = "look" /\ row' = row
    BY <1>1, <1>6 DEF Look, IInv, TimerInv
  <2>2. CASE (proc[w].dead \/ row.state \notin Active) /\ Become(w, Off) /\ UNCHANGED <<timer, stopped>>
    <3>1. WillLook(w) => row.state # "waiting"
      BY <2>2 DEF WillLook, Active
    <3> QED
      BY <1>1, <1>2, <2>1, <2>2, <3>1, OffProc, Goes
  <2>3. CASE ~proc[w].dead /\ row.due /\ Goto(w, "claim") /\ UNCHANGED <<timer, stopped>>
    BY <1>3, <2>1, <2>3
  <2>4. CASE ArmTimer(w, w)
    BY <1>1, <1>2, <2>1, <2>4, TimerArmed
  <2> QED
    BY <1>6, <2>2, <2>3, <2>4 DEF Look
<1>7. CASE Claim(w)
  <2>1. w # timer /\ proc[w].pc = "claim" /\ ~proc[w].dead
        /\ UNCHANGED <<timer, stopped>>
    BY <1>1, <1>7 DEF Claim, IInv, TimerInv
  <2>2. CASE row.due /\ (row.state = "waiting" \/ (row.state = "probing" /\ row.late))
    <3> DEFINE v == [Off EXCEPT !.pc = "check", !.turn = row.turn, !.known = row.known,
                       !.expired = row.expired]
    <3>1. v \in Proc /\ v.pc = "check" /\ v.dead = FALSE
      BY OffProc DEF IInv, Row, Proc
    <3>2. /\ row' = [row EXCEPT !.state = "probing", !.claim = w, !.late = FALSE]
          /\ proc' = [proc EXCEPT ![w] = v]
      BY <1>7, <2>2 DEF Claim, Become
    <3> HIDE DEF v
    <3>3. row' \in Row /\ row'.state = "probing" /\ row'.claim = w
      BY <3>2 DEF IInv, Row, Active
    <3>4. /\ proc' \in [Procs -> Proc] /\ proc'[w] = v
          /\ \A q \in Procs \ {w} : proc'[q] = proc[q]
      BY <1>1, <3>1, <3>2
    <3>5. TimerInv'
      BY <1>1, <2>1, <3>1, <3>4, LimitAssumption DEF LimitAssumption, IInv, TimerInv, Procs
    <3>6. ClaimIsHeld'
      BY <1>1, <3>1, <3>3, <3>4 DEF ClaimIsHeld
    <3>7. Tended'
      BY <3>3 DEF Tended
    <3> QED
      BY <1>2, <2>1, <3>3, <3>4, <3>5, <3>6, <3>7 DEF IInv
  <2>3. CASE ~(row.due /\ (row.state = "waiting" \/ (row.state = "probing" /\ row.late)))
    <3>1. Become(w, Off) /\ row' = row
      BY <1>7, <2>3 DEF Claim
    <3>2. row.state = "waiting" => ~WillLook(w)
      BY <2>1, <2>3 DEF WillLook
    <3> QED
      BY <1>1, <1>2, <2>1, <3>1, <3>2, OffProc, Goes
  <2> QED
    BY <2>2, <2>3
<1> QED
  BY <1>4, <1>5, <1>6, <1>7

\* What becomes of the row when a claim is written back, or a user stops the wait.
LEMMA RowReleased ==
  ASSUME row \in Row, NEW state \in {"waiting", "canceled", "blocked", "completed"}
  PROVE  Released(state) \in Row /\ Released(state).state = state
<1> DEFINE due == row.due /\ state \in Active
           known == row.known /\ state \in Active
<1>1. due \in BOOLEAN /\ known \in BOOLEAN
  OBVIOUS
<1>2. Released(state) = [row EXCEPT !.state = state, !.claim = None, !.late = FALSE,
                           !.due = due, !.known = known]
  BY DEF Released, Row
<1> HIDE DEF due, known
<1> QED
  BY <1>1, <1>2 DEF Row, Active

\* A claim is given back by the worker that holds it, which will look again or has
\* ended the wait.
LEMMA GivesBack ==
  ASSUME IInv, NEW w \in Workers, NEW l \in AllPcs, Goto(w, l), proc[w].pc \in ClaimPcs,
         row' \in Row, UNCHANGED <<timer, stopped>>, DataInv',
         \/ row'.state = "waiting" /\ l \in RearmPcs
         \/ row'.state \notin Active
  PROVE  IInv'
<1> USE DEF AllPcs, SleepPcs, RearmPcs, ClaimPcs
<1> DEFINE v == [proc[w] EXCEPT !.pc = l]
<1>1. w \in Procs /\ w # None
  BY DataFacts
<1>2. v \in Proc /\ v.pc = l /\ v.dead = proc[w].dead
  BY <1>1, NextPlace
<1>3. proc' = [proc EXCEPT ![w] = v]
  BY DEF Goto, Become
<1> HIDE DEF v
<1>4. proc' \in [Procs -> Proc] /\ proc'[w] = v /\ \A q \in Procs \ {w} : proc'[q] = proc[q]
  BY <1>1, <1>2, <1>3 DEF IInv
<1>5. w # timer /\ ~proc[w].dead
  BY <1>1 DEF IInv, TimerInv
<1>6. TimerInv'
  BY <1>1, <1>2, <1>4, <1>5, LimitAssumption DEF LimitAssumption, IInv, TimerInv, Procs
<1>7. ClaimIsHeld'
  BY DEF ClaimIsHeld, Active
<1>8. Tended'
  <2>1. CASE row'.state = "waiting" /\ l \in RearmPcs
    <3>1. WillLook(w)'
      BY <1>2, <1>4, <1>5, <2>1 DEF WillLook
    <3> QED
      BY <3>1 DEF Tended
  <2>2. CASE row'.state \notin Active
    BY <2>2 DEF Tended, Active
  <2> QED
    BY <2>1, <2>2
<1> QED
  BY <1>4, <1>6, <1>7, <1>8 DEF IInv

\* It checks the turn, waits on, ends the wait, or opens the card to retry.
LEMMA ClaimedKeeps ==
  ASSUME IInv, NEW w \in Workers,
         \/ Check(w) \/ Backoff(w) \/ Rearm(w) \/ Settle(w) \/ BlockCard(w) \/ Open(w)
         \/ Reread(w) \/ Again(w) \/ Rewait(w)
  PROVE  IInv'
<1> USE DEF AllPcs, SleepPcs, RearmPcs, ClaimPcs
<1>1. w \in Procs /\ proc[w] \in Proc /\ row \in Row /\ row.claim \in Workers \cup {None}
  BY DataFacts DEF IInv, Row
<1>2. proc[w].known \in BOOLEAN /\ proc[w].turn \in Turn /\ ThisTurn \in Turn
  BY <1>1, DataFacts DEF Proc
<1>3. ASSUME UNCHANGED <<task, cards, retryMu, bounds>>
      PROVE  DataInv'
  BY <1>3, DataSame DEF IInv
<1>4. CASE Check(w)
  <2>1. UNCHANGED <<task, cards, row, timer, retryMu, stopped, bounds>> /\ proc[w].pc = "check"
    BY <1>4 DEF Check
  <2>2. ASSUME NEW l \in {"open", "block", "drop"}
        PROVE  [Off EXCEPT !.pc = l] \in Proc /\ [Off EXCEPT !.pc = l].pc = l
               /\ [Off EXCEPT !.pc = l].dead = FALSE
    BY OffProc DEF Proc
  <2>3. ASSUME NEW l \in {"restamp", "backoff"}
        PROVE  /\ [Off EXCEPT !.pc = l, !.turn = ThisTurn] \in Proc
               /\ [Off EXCEPT !.pc = l, !.turn = ThisTurn].pc = l
               /\ [Off EXCEPT !.pc = l, !.turn = ThisTurn].dead = FALSE
    BY <1>2, OffProc DEF Proc
  <2>4. PICK v \in Proc : Become(w, v) /\ ~v.dead /\ v.pc \in ClaimPcs
    <3>1. \/ \E l \in {"open", "block", "drop"} : Become(w, [Off EXCEPT !.pc = l])
          \/ \E l \in {"restamp", "backoff"} : Become(w, [Off EXCEPT !.pc = l, !.turn = ThisTurn])
      BY <1>4 DEF Check
    <3> QED
      BY <2>2, <2>3, <3>1
  <2> QED
    BY <1>1, <1>3, <2>1, <2>4, GoesAs
<1>5. ASSUME NEW next \in {"rearm", "rewait"}, WaitAgain(w, next), proc[w].pc \in ClaimPcs,
             UNCHANGED <<task, cards, timer, retryMu, stopped, bounds>>
      PROVE  IInv'
  <2>1. CASE Holds(w)
    <3>1. Released("waiting") \in Row /\ Released("waiting").state = "waiting"
      BY <1>1, RowReleased
    <3>2. row' = [Released("waiting") EXCEPT !.turn = proc[w].turn, !.due = FALSE] /\ Goto(w, next)
      BY <1>5, <2>1 DEF WaitAgain
    <3>3. row' \in Row /\ row'.state = "waiting"
      BY <1>2, <3>1, <3>2 DEF Row
    <3> QED
      BY <1>3, <1>5, <3>2, <3>3, GivesBack
  <2>2. CASE ~Holds(w)
    BY <1>1, <1>3, <1>5, <2>2, OffProc, GoesAs DEF WaitAgain
  <2> QED
    BY <2>1, <2>2
<1>6. CASE Backoff(w)
  BY <1>5, <1>6 DEF Backoff
<1>7. CASE Again(w)
  BY <1>5, <1>7 DEF Again
<1>8. CASE Rearm(w)
  BY <1>1, <1>3, <1>8, TimerArmed DEF Rearm, ArmTimer
<1>9. CASE Settle(w)
  <2>1. /\ UNCHANGED <<task, cards, timer, retryMu, stopped, bounds>>
        /\ proc[w].pc \in {"drop", "block", "complete"}
        /\ Goto(w, "blockcard") \/ Goto(w, "off")
    BY <1>9 DEF Settle
  <2>2. DataInv'
    BY <1>3, <2>1
  <2>3. CASE Holds(w)
    <3>1. PICK state \in {"canceled", "blocked", "completed"} : row' = Released(state)
      BY <1>9, <2>3 DEF Settle
    <3>2. row' \in Row /\ row'.state \notin Active
      BY <1>1, <3>1, RowReleased DEF Active
    <3> QED
      BY <2>1, <2>2, <3>2, GivesBack
  <2>4. CASE ~Holds(w)
    BY <1>1, <1>9, <2>1, <2>2, <2>4, GoesTo DEF Settle
  <2> QED
    BY <2>3, <2>4
<1>10. CASE BlockCard(w)
  <2>1. DataInv'
    BY <1>10, DataPut, DataSame, DataFacts DEF BlockCard, IInv
  <2> QED
    BY <1>1, <1>10, <2>1, OffProc, GoesAs DEF BlockCard
<1>11. CASE Open(w)
  <2> DEFINE l == IF HasHit THEN "retry" ELSE "drop"
             known == HasHit /\ LatestHit.known
  <2>1. l \in ClaimPcs /\ known \in BOOLEAN
    BY DataFacts
  <2>2. Become(w, [Off EXCEPT !.pc = l, !.known = known])
    BY <1>11 DEF Open
  <2> HIDE DEF l, known
  <2> DEFINE v == [Off EXCEPT !.pc = l, !.known = known]
  <2>3. v \in Proc /\ v.pc = l /\ v.dead = FALSE
    BY <2>1, OffProc, ZenonT(40) DEF Proc
  <2> HIDE DEF v
  <2>4. UNCHANGED <<task, cards, row, timer, retryMu, stopped, bounds>> /\ proc[w].pc = "open"
    BY <1>11 DEF Open
  <2> QED
    BY <1>1, <1>3, <2>1, <2>2, <2>3, <2>4, GoesAs DEF v
<1>12. CASE Reread(w)
  <2> DEFINE v == [proc[w] EXCEPT !.pc = "again", !.turn = ThisTurn]
  <2>1. v \in Proc /\ v.pc = "again" /\ v.dead = proc[w].dead
    BY <1>1, <1>2 DEF Proc
  <2>2. Become(w, v) /\ proc[w].pc = "reread"
        /\ UNCHANGED <<task, cards, row, timer, retryMu, stopped, bounds>>
    BY <1>12 DEF Reread
  <2> HIDE DEF v
  <2>3. ~proc[w].dead
    BY <1>1, <2>2 DEF IInv, TimerInv
  <2> QED
    BY <1>1, <1>3, <2>1, <2>2, <2>3, GoesAs
<1>13. CASE Rewait(w)
  <2> DEFINE v == [proc[w] EXCEPT !.pc = "rearm"]
  <2>1. v \in Proc /\ v.pc = "rearm" /\ v.dead = proc[w].dead
    BY <1>1, NextPlace
  <2>2. Become(w, v) /\ proc[w].pc = "rewait" /\ UNCHANGED <<row, timer, stopped>>
    BY <1>13 DEF Rewait, Goto
  <2> HIDE DEF v
  <2>3. ~proc[w].dead /\ w # timer
    BY <1>1, <2>2, LimitAssumption DEF LimitAssumption, IInv, TimerInv
  <2>4. DataInv'
    BY <1>2, <1>13, DataPut DEF Rewait, IInv
  <2> QED
    BY <1>1, <2>1, <2>2, <2>3, <2>4, Goes
<1> QED
  BY <1>4, <1>6, <1>7, <1>8, <1>9, <1>10, <1>11, <1>12, <1>13

\* A retry, by the worker or by the user.
LEMMA RetryKeeps ==
  ASSUME IInv, NEW p \in Workers \cup {Api}, RetryBy(p)
  PROVE  IInv'
<1> USE DEF AllPcs, SleepPcs, RearmPcs, ClaimPcs
<1>1. /\ p \in Procs /\ proc[p] \in Proc /\ row \in Row /\ row.claim \in Workers \cup {None}
      /\ Api \notin Workers /\ Api # None
  BY DataFacts DEF IInv, Row
<1>2. proc[p].known \in BOOLEAN /\ ~Holds(Api)
  BY <1>1 DEF Proc, Holds
<1>3. UNCHANGED <<row, timer, stopped>> /\ proc[p].pc \in {"retry", "commit", "continued"}
  BY DEF RetryBy, RetryBegin, RetryCommit, RetryUndone, Continued
<1>4. DataInv'
  <2>1. DataInv /\ MaxTurns \in Nat \ {0} /\ MaxErrors \in Nat
    BY LimitAssumption DEF LimitAssumption, IInv
  <2>2. CASE RetryBegin(p)
    <3>1. UNCHANGED <<epoch, cards, cause, turns, ops, restarts>>
          /\ errors' \in 0..MaxErrors
          /\ retryMu' \in Procs \cup {None}
          /\ status' \in {"running", "retrying"} \cup Terminal
      BY <1>1, <2>1, <2>2 DEF RetryBegin, DataInv
    <3> QED
      BY <2>1, <3>1 DEF DataInv
  <2>3. CASE RetryCommit(p)
    <3>1. NoCard \in Card
      BY DEF NoCard, Card
    <3>2. cards' \in Seq(Card) /\ Len(cards') = Len(cards)
      BY <2>1, <2>3, <3>1, CardPut DEF RetryCommit
    <3>3. turns' \in 1..MaxTurns /\ turns <= turns' /\ epoch' \in Nat
      BY <2>1, <2>3 DEF RetryCommit, NextTurn, DataInv
    <3> QED
      BY <2>1, <2>3, <3>2, <3>3 DEF RetryCommit, DataInv
  <2>4. CASE RetryUndone(p)
    BY <2>1, <2>4 DEF RetryUndone, DataInv, Terminal
  <2>5. CASE Continued(p)
    BY <1>2, <2>1, <2>5, DataPut DEF Continued
  <2> QED
    BY <2>2, <2>3, <2>4, <2>5 DEF RetryBy
<1>5. ASSUME NEW l \in {"commit", "reread", "continued", "complete"}, Goto(p, l)
      PROVE  IInv'
  BY <1>1, <1>3, <1>4, <1>5, GoesTo
<1>6. CASE RetryFails(p)
  <2>1. CASE p = Api
    BY <1>1, <1>2, <1>3, <1>4, <1>6, <2>1, OffProc, GoesAs DEF RetryFails
  <2>2. CASE p # Api
    BY <1>5, <1>6, <2>2 DEF RetryFails, Goto
  <2> QED
    BY <2>1, <2>2
<1>7. CASE Become(p, Off) /\ p = Api
  BY <1>1, <1>2, <1>3, <1>4, <1>7, OffProc, GoesAs
<1>8. CASE Goto(p, "off") /\ p = Api
  BY <1>1, <1>2, <1>3, <1>4, <1>8, GoesTo
<1>9. CASE RetryBegin(p)
  BY <1>5, <1>6, <1>9 DEF RetryBegin
<1>10. CASE RetryCommit(p)
  BY <1>5, <1>7, <1>10 DEF RetryCommit, Goto
<1>11. CASE RetryUndone(p)
  BY <1>6, <1>11 DEF RetryUndone
<1>12. CASE Continued(p)
  BY <1>5, <1>8, <1>12 DEF Continued
<1> QED
  BY <1>9, <1>10, <1>11, <1>12 DEF RetryBy

-----------------------------------------------------------------------------
(* Requests of users *)

\* The registered timer is dropped: its worker, if it sleeps still, is canceled, and
\* whoever asked for it answers for the wait until the row is written, or has set
\* stopped.
LEMMA TimerDropped ==
  ASSUME IInv, NEW v \in Proc, ~v.dead, timer' = None, row' = row,
         proc' = [Dropped EXCEPT ![Api] = v], DataInv', proc[Api].pc \notin {"arm", "stoprow"},
         (v.pc = "stoprow" /\ stopped' = stopped) \/ stopped' = TRUE
  PROVE  IInv'
<1>1. proc \in [Procs -> Proc] /\ Api \in Procs /\ Api \notin Workers
  BY DataFacts DEF IInv
<1>2. /\ Dropped \in [Procs -> Proc]
      /\ \A q \in Procs : Dropped[q].pc = proc[q].pc
      /\ \A q \in Procs : q # timer => Dropped[q] = proc[q]
      /\ timer # None => timer \in Procs /\ proc[timer].pc \in {"sleep", "fired"}
  <2>1. CASE timer = None
    BY <1>1, <2>1, LimitAssumption DEF LimitAssumption, Dropped
  <2>2. CASE timer # None
    <3>1. /\ timer \in Procs /\ Dropped = [proc EXCEPT ![timer] = [proc[timer] EXCEPT !.dead = TRUE]]
          /\ proc[timer].pc \in {"sleep", "fired"}
      BY <1>1, <2>2 DEF Dropped, IInv, TimerInv, Procs
    <3> DEFINE d == [proc[timer] EXCEPT !.dead = TRUE]
    <3>2. d \in Proc /\ d.pc = proc[timer].pc
      BY <1>1, <3>1 DEF Proc
    <3> HIDE DEF d
    <3> QED
      BY <1>1, <3>1, <3>2 DEF d
  <2> QED
    BY <2>1, <2>2
<1>3. /\ proc' \in [Procs -> Proc] /\ proc'[Api] = v
      /\ \A q \in Procs \ {Api} : proc'[q] = Dropped[q]
  BY <1>1, <1>2
<1>4. TimerInv'
  <2>1. ASSUME NEW q \in Procs, proc'[q].dead
        PROVE  q # None /\ proc'[q].pc \in {"sleep", "fired", "look"}
    <3>1. q # Api /\ q # None
      BY <1>3, <2>1, DataFacts
    <3> QED
      BY <1>2, <1>3, <2>1, <3>1 DEF IInv, TimerInv
  <2> QED
    BY <2>1 DEF TimerInv
<1>5. ClaimIsHeld'
  <2>1. row.state = "probing" => row.claim \in Procs /\ row.claim # Api
                                 /\ proc[row.claim].pc \in ClaimPcs
    BY <1>1 DEF IInv, ClaimIsHeld, Row, Procs
  <2> QED
    BY <1>2, <1>3, <2>1 DEF ClaimIsHeld, IInv
<1>6. Tended'
  BY <1>1, <1>3 DEF Tended
<1>7. stopped' \in BOOLEAN
  BY DEF IInv
<1> QED
  BY <1>3, <1>4, <1>5, <1>6, <1>7 DEF IInv

\* What users do: their wait, their continue, the switch of the card, a message, a
\* cancel.
LEMMA RequestKeeps ==
  ASSUME IInv,
         \/ \E op \in AllOps : Begin(op)
         \/ Patched \/ StopTimer \/ StopRow \/ Follow \/ CancelBegin \/ CancelWrite
  PROVE  IInv'
<1> USE DEF AllPcs, SleepPcs, RearmPcs, ClaimPcs, UserPcs
<1>1. /\ Api \in Procs /\ proc[Api] \in Proc /\ row \in Row /\ DataInv
      /\ MaxOps \in Nat /\ MaxTurns \in Nat \ {0}
  BY DataFacts, LimitAssumption DEF LimitAssumption, IInv
<1>2. proc[Api].known \in BOOLEAN /\ ~proc[Api].dead
  <2>1. Api \notin Workers /\ Api # None
    BY DataFacts
  <2>2. ~proc[Api].dead
    BY <1>1 DEF IInv, TimerInv, Begin, Patched, StopTimer, StopRow, Follow, CancelBegin, CancelWrite
  <2> QED
    BY <1>1, <2>2 DEF Proc
<1>3. ASSUME NEW op \in AllOps, Begin(op)
      PROVE  IInv'
  <2>1. PICK known : /\ known \in {LatestHit.known} \cup (IF op = "wait" THEN {TRUE} ELSE {})
                     /\ Become(Api, [Off EXCEPT !.pc = FirstPlace(op), !.op = op, !.hit = HasHit,
                                                !.known = known])
    BY <1>3 DEF Begin
  <2>2. known \in BOOLEAN /\ HasHit \in BOOLEAN
    BY <2>1, DataFacts
  <2>3. FirstPlace(op) \in UserPcs \cup {"off"}
    <3>1. op \in {"wait", "continue", "switch", "dismiss", "followup"}
      BY <1>3 DEF Begin, AllOps
    <3> QED
      BY <3>1 DEF FirstPlace
  <2> DEFINE l == FirstPlace(op)
             h == HasHit
  <2> HIDE DEF l, h
  <2> DEFINE v == [Off EXCEPT !.pc = l, !.op = op, !.hit = h, !.known = known]
  <2>4. v \in Proc /\ v.dead = FALSE
    <3> DEFINE pcs == {"off", "blockcard"} \cup SleepPcs \cup ClaimPcs \cup RearmPcs \cup ArmPcs
                      \cup UserPcs
               kinds == AllOps \cup {"auto"}
    <3>1. l \in pcs /\ op \in kinds /\ h \in BOOLEAN
      BY <2>2, <2>3 DEF l, h
    <3>2. Proc = [pc : pcs, op : kinds, turn : Turn, known : BOOLEAN, hit : BOOLEAN,
                  expired : BOOLEAN, dead : BOOLEAN]
      BY DEF Proc
    <3> HIDE DEF pcs, kinds
    <3> QED
      BY <2>2, <3>1, <3>2, OffProc
  <2>5. Become(Api, v)
    BY <2>1 DEF l, h
  <2> HIDE DEF v
  <2>6. DataInv'
    <3>1. ops' = ops + 1 /\ ops < MaxOps
          /\ UNCHANGED <<status, epoch, cards, cause, retryMu, turns, errors, restarts>>
      BY <1>3 DEF Begin, task
    <3>2. MaxOps \in Nat /\ ops' \in 0..MaxOps
      BY <1>1, <3>1, LimitAssumption DEF LimitAssumption, DataInv
    <3> QED
      BY <1>1, <3>1, <3>2 DEF DataInv
  <2> QED
    BY <1>1, <1>3, <2>4, <2>5, <2>6, GoesAs DEF Begin
<1>4. CASE Patched
  <2>1. DataInv'
    BY <1>1, <1>2, <1>4, DataPut DEF Patched
  <2>2. /\ proc[Api].pc \in {"switched", "dismissed"} /\ UNCHANGED <<row, timer, stopped>>
        /\ Goto(Api, "stop") \/ Goto(Api, "off")
    BY <1>4 DEF Patched
  <2> QED
    BY <1>1, <2>1, <2>2, GoesTo
<1>5. CASE StopTimer
  <2> DEFINE v == [Dropped[Api] EXCEPT !.pc = "stoprow"]
             u == [proc[Api] EXCEPT !.pc = "stoprow"]
  <2>1. /\ UNCHANGED <<task, cards, row, retryMu, stopped, bounds>> /\ timer' = None
        /\ proc' = [Dropped EXCEPT ![Api] = v] /\ proc[Api].pc = "stop"
    BY <1>5 DEF StopTimer
  <2>2. v = u
    <3>1. timer # None => timer \in Procs /\ timer # Api
      BY DataFacts DEF IInv, TimerInv
    <3>2. Dropped[Api] = proc[Api]
      BY <3>1 DEF Dropped, IInv
    <3> QED
      BY <3>2
  <2>3. u \in Proc /\ u.pc = "stoprow" /\ u.dead = proc[Api].dead
    BY <1>1, NextPlace
  <2> HIDE DEF v, u
  <2>4. DataInv'
    BY <1>1, <2>1, DataSame
  <2> QED
    BY <1>2, <2>1, <2>2, <2>3, <2>4, TimerDropped
<1>6. CASE StopRow
  <2>1. /\ UNCHANGED <<task, cards, timer, retryMu, stopped, bounds>> /\ proc[Api].pc = "stoprow"
        /\ \E l \in {"retry", "follow"} : Goto(Api, l)
    BY <1>6 DEF StopRow
  <2>2. PICK l \in {"retry", "follow"} : Goto(Api, l)
    BY <2>1
  <2>3. row' \in Row /\ row'.state \notin Active
    BY <1>1, <1>6, RowReleased DEF StopRow, Active
  <2> DEFINE v == [proc[Api] EXCEPT !.pc = l]
  <2>4. v \in Proc /\ v.dead = proc[Api].dead
    BY <1>1, NextPlace
  <2>5. proc' = [proc EXCEPT ![Api] = v]
    BY <2>2 DEF Goto, Become
  <2> HIDE DEF v
  <2>6. /\ proc' \in [Procs -> Proc] /\ proc'[Api] = v
        /\ \A q \in Procs \ {Api} : proc'[q] = proc[q]
    BY <1>1, <2>4, <2>5 DEF IInv
  <2>7. TimerInv'
    BY <1>2, <2>1, <2>4, <2>6, DataFacts DEF IInv, TimerInv
  <2>8. ClaimIsHeld' /\ Tended'
    BY <2>3 DEF ClaimIsHeld, Tended, Active
  <2>9. DataInv'
    BY <1>1, <2>1, DataSame
  <2> QED
    BY <2>1, <2>3, <2>6, <2>7, <2>8, <2>9 DEF IInv
<1>7. CASE Follow
  <2>1. DataInv'
    <3>1. CASE UNCHANGED <<status, cause, cards, turns>>
      BY <1>1, <1>7, <3>1 DEF Follow, DataInv
    <3>2. CASE /\ status' = "running" /\ cause' = "none" /\ turns < MaxTurns
               /\ cards' = Append(cards, NoCard) /\ turns' = turns + 1
      <4>1. NoCard \in Card
        BY DEF NoCard, Card
      <4>2. cards' \in Seq(Card) /\ Len(cards') = Len(cards) + 1
        BY <1>1, <3>2, <4>1 DEF DataInv
      <4> QED
        BY <1>1, <1>7, <3>2, <4>2 DEF Follow, DataInv
    <3> QED
      BY <1>7, <3>1, <3>2 DEF Follow
  <2> QED
    BY <1>1, <1>7, <2>1, OffProc, GoesAs DEF Follow
<1>8. CASE CancelBegin
  <2> DEFINE v == [Off EXCEPT !.pc = "cancel", !.op = "cancel"]
  <2>1. v \in Proc /\ v.dead = FALSE
    BY OffProc DEF Proc, AllOps
  <2>2. proc' = [Dropped EXCEPT ![Api] = v]
    BY <1>8 DEF CancelBegin
  <2> HIDE DEF v
  <2>3. DataInv'
    BY <1>1, <1>8 DEF CancelBegin, DataInv, task
  <2> QED
    BY <1>8, <2>1, <2>2, <2>3, TimerDropped DEF CancelBegin
<1>9. CASE CancelWrite
  <2>1. DataInv'
    BY <1>1, <1>9 DEF CancelWrite, DataInv, bounds, Terminal
  <2> QED
    BY <1>1, <1>9, <2>1, OffProc, GoesAs DEF CancelWrite
<1> QED
  BY <1>3, <1>4, <1>5, <1>6, <1>7, <1>8, <1>9

-----------------------------------------------------------------------------
(* The daemon dies and comes back *)

\* No claim survives it, and a wait that is still there gets a timer.
LEMMA RestartKeeps ==
  ASSUME IInv, Restart
  PROVE  IInv'
<1> USE DEF AllPcs, SleepPcs, ArmPcs
<1>1. DataInv /\ row \in Row /\ MaxRestarts \in Nat /\ MaxTurns \in Nat \ {0}
  BY LimitAssumption DEF LimitAssumption, IInv
<1>2. DataInv'
  <2>0. /\ restarts' \in 0..MaxRestarts /\ retryMu' = None /\ UNCHANGED <<ops, errors>>
        /\ retryMu' \in Procs \cup {None} /\ ops' \in 0..MaxOps /\ errors' \in 0..MaxErrors
    BY <1>1 DEF Restart, DataInv
  <2>1. CASE /\ status' = (IF status \in Terminal THEN status ELSE "failed")
             /\ UNCHANGED <<epoch, cards, cause, turns>>
    <3>1. status' \in {"running", "retrying"} \cup Terminal
      BY <2>1 DEF Terminal
    <3> QED
      BY <1>1, <2>0, <2>1, <3>1 DEF DataInv
  <2>2. CASE /\ status' = "running" /\ epoch' = epoch + 1 /\ cause' = "none" /\ turns' = NextTurn
             /\ cards' = [cards EXCEPT ![Len(cards)] = NoCard]
    <3>1. NoCard \in Card
      BY DEF NoCard, Card
    <3>2. cards' \in Seq(Card) /\ Len(cards') = Len(cards)
      BY <1>1, <2>2, <3>1, CardPut
    <3>3. turns' \in 1..MaxTurns /\ turns <= turns'
      BY <1>1, <2>2 DEF NextTurn, DataInv
    <3> QED
      BY <1>1, <2>0, <2>2, <3>2, <3>3 DEF DataInv
  <2> QED
    BY <2>1, <2>2 DEF Restart
<1>3. row' \in Row /\ row'.state # "probing"
  <2>1. row' = IF row.state = "probing" THEN Released("waiting") ELSE row
    BY DEF Restart, ClaimsReleased
  <2> QED
    BY <1>1, <2>1, RowReleased
<1>4. ClaimIsHeld'
  BY <1>3 DEF ClaimIsHeld
<1> DEFINE off == [p \in Procs |-> Off]
<1>5. off \in [Procs -> Proc]
  BY OffProc
<1>6. CASE row'.state \in Active
  <2>1. PICK x \in Workers : timer' = x /\ stopped' = FALSE /\ proc' = [off EXCEPT ![x].pc = "sleep"]
    BY <1>6 DEF Restart
  <2> DEFINE s == [Off EXCEPT !.pc = "sleep"]
  <2>2. s \in Proc /\ s.pc = "sleep" /\ s.dead = FALSE
    BY OffProc DEF Proc
  <2>3. x \in Procs /\ proc' = [off EXCEPT ![x] = s]
    BY <2>1, DataFacts
  <2> HIDE DEF s
  <2>4. /\ proc' \in [Procs -> Proc] /\ proc'[x] = s /\ \A q \in Procs \ {x} : proc'[q] = Off
    BY <1>5, <2>2, <2>3
  <2>5. TimerInv'
    BY <2>1, <2>2, <2>4, OffProc DEF TimerInv
  <2>6. Tended'
    BY <2>2, <2>4 DEF Tended, WillLook
  <2> QED
    BY <1>2, <1>3, <1>4, <2>1, <2>4, <2>5, <2>6 DEF IInv
<1>7. CASE row'.state \notin Active
  <2>1. /\ timer' = None /\ stopped' = stopped
        /\ \/ proc' = off
           \/ \E f \in Finishers :
                proc' = [off EXCEPT ![f].known = LatestHit.known, ![f].turn = <<epoch, Len(cards)>>,
                               ![f].pc = IF LatestHit.status = "waiting" THEN "persist" ELSE "armcheck"]
    BY <1>7 DEF Restart
  <2>2. proc' \in [Procs -> Proc] /\ \A q \in Procs : ~proc'[q].dead
    <3>1. CASE proc' = off
      BY <1>5, <3>1, OffProc
    <3>2. CASE proc' # off
      <4>1. PICK f \in Finishers :
                proc' = [off EXCEPT ![f].known = LatestHit.known, ![f].turn = <<epoch, Len(cards)>>,
                               ![f].pc = IF LatestHit.status = "waiting" THEN "persist" ELSE "armcheck"]
        BY <2>1, <3>2
      <4> DEFINE l == IF LatestHit.status = "waiting" THEN "persist" ELSE "armcheck"
                 known == LatestHit.known
                 turn == <<epoch, Len(cards)>>
      <4>2. l \in ArmPcs /\ known \in BOOLEAN /\ turn \in Turn
        BY DataFacts DEF ThisTurn
      <4>3. f \in Procs /\ proc' = [off EXCEPT ![f] = [[[Off EXCEPT !.known = known] EXCEPT !.turn = turn]
                                                         EXCEPT !.pc = l]]
        BY <4>1, DataFacts
      <4> HIDE DEF l, known, turn
      <4> DEFINE v == [[[Off EXCEPT !.known = known] EXCEPT !.turn = turn] EXCEPT !.pc = l]
      <4>4. v \in Proc /\ v.dead = FALSE
        BY <4>2, OffProc DEF Proc
      <4> HIDE DEF v
      <4> QED
        BY <1>5, <4>3, <4>4, OffProc DEF v
    <3> QED
      BY <3>1, <3>2
  <2>3. TimerInv'
    BY <2>1, <2>2 DEF TimerInv
  <2>4. Tended'
    BY <1>7 DEF Tended, Active
  <2> QED
    BY <1>2, <1>3, <1>4, <2>1, <2>2, <2>3, <2>4 DEF IInv
<1> QED
  BY <1>6, <1>7

-----------------------------------------------------------------------------
(* The theorems *)

\* A task runs its first turn, and nothing waits.
LEMMA InitHolds == Init => IInv
<1> SUFFICES ASSUME Init PROVE IInv
  OBVIOUS
<1> USE LimitAssumption DEF LimitAssumption, Init
<1>1. NoCard \in Card
  BY DEF NoCard, Card
<1>2. cards \in Seq(Card) /\ Len(cards) = 1
  BY <1>1
<1>3. DataInv
  BY <1>2 DEF DataInv
<1>4. row \in Row /\ row.state = "none"
  BY DEF NoWait, Row, Turn
<1>5. proc \in [Procs -> Proc] /\ TimerInv
  BY OffProc DEF TimerInv
<1> QED
  BY <1>3, <1>4, <1>5 DEF IInv, ClaimIsHeld, Tended

\* One step of whatever kind.
LEMMA StepHolds == IInv /\ [Next]_vars => IInv'
<1> SUFFICES ASSUME IInv, [Next]_vars PROVE IInv'
  OBVIOUS
<1>1. CASE UNCHANGED vars
  <2>1. DataInv'
    BY <1>1, DataSame DEF IInv, vars, task, bounds
  <2> QED
    BY <1>1, <2>1, Stands DEF vars
<1>2. CASE Next
  BY <1>2, TurnKeeps, ArmingKeeps, WakingKeeps, ClaimedKeeps, RetryKeeps, RequestKeeps, RestartKeeps
     DEF Next, Working, Requested, Arming
<1> QED
  BY <1>1, <1>2

\* The inductive invariant holds in every behaviour of the model.
THEOREM LimitWaitsInductive == Spec => []IInv
BY InitHolds, StepHolds, PTL DEF Spec

\* The task, its cards, the wait's row, the timer and the goroutines stay within their
\* types (TypeOK).
THEOREM LimitWaitsTypes == Spec => []TypeOK
<1>1. IInv => TypeOK
  BY DEF IInv, DataInv, TimerInv, TypeOK
<1> QED
  BY <1>1, LimitWaitsInductive, PTL

\* A wait that has not ended is tended (WaitIsTended): a claim is in the hands of a
\* worker that will write it again, and a persisted deadline has a wake-up, although
\* timers fire early, are replaced and dropped, claims outlive their lease, retries
\* fail and the daemon dies.
THEOREM WaitsAreTended == Spec => []WaitIsTended
<1>1. IInv => WaitIsTended
  BY DEF IInv, Tended, WillLook, WaitIsTended, WaitHasWake, Wakes, SleepPcs
<1> QED
  BY <1>1, LimitWaitsInductive, PTL
=============================================================================

----------------------------- MODULE AgentProofs -----------------------------
(***************************************************************************)
(* What a turn keeps of its agents.                                        *)
(*                                                                         *)
(* First part (Approvals): for every number of asks, turns and stops, the  *)
(* types of the state, that an agent is told the decision the record       *)
(* shows unless a statement fails, and that a decision, once taken,        *)
(* stands.                                                                 *)
(*                                                                         *)
(* Second part (WorkerGroups): for any plan and any number of requests,    *)
(* that PlanWaves splits the plan as it should, that a group leaves        *)
(* nothing behind, and that no agent works before or beside what it must   *)
(* wait for.                                                               *)
(***************************************************************************)
EXTENDS Approvals, WorkerGroups, TLAPS, FiniteSetTheorems, NaturalsInduction,
        SequenceTheorems, WellFoundedInduction

-----------------------------------------------------------------------------
(* Permissions and questions *)

Decisions == {"approved", "denied", "expired", "answered"}

\* TypeOK says of each ask what its entries are; a step that updates one entry
\* needs to know that the state is made of functions on the asks.
Shape ==
  /\ ask \in [Asks -> {"none", "pending"} \cup Decisions]
  /\ told \in [Asks -> {None, "conflict", "failure"} \cup Decisions]
  /\ channel \in [Asks -> {None} \cup Decisions]
  /\ asking \in [Asks -> {"idle", "insert", "pause", "done"}]
  /\ settling \in [Asks -> {"idle", "notify", "read", "others", "resume", "done"}]
  /\ poll \in [Asks -> {"off", "due", "read", "waiting", "late", "expiring", "over"}]

\* What the steps of one ask rely on.  Its row is there once its handler has
\* inserted it, so a poll that finds it not pending finds a decision; whoever
\* settles it has written the decision before; and the channel, like what the
\* agent is told, holds no decision but the one of the row.  A poll that has told
\* the agent is over for good.
AskInv(a) ==
  /\ asking[a] \in {"idle", "insert"} => ask[a] = "none"
  /\ asking[a] = "pause" => ask[a] # "none"
  /\ poll[a] \notin {"off", "over"} => ask[a] # "none"
  /\ settling[a] # "idle" => Settled(a)
  /\ channel[a] # None => channel[a] = ask[a] /\ Settled(a)
  /\ asking[a] = "idle" => poll[a] = "off"
  /\ asking[a] # "done" => poll[a] \in {"off", "over"} /\ told[a] = None
  /\ told[a] # None => /\ poll[a] = "over"
                       /\ \/ told[a] = "failure"
                          \/ told[a] = ask[a] /\ Settled(a)
                          \/ told[a] = "conflict" /\ a \in Questions

IInv == TypeOK /\ Shape /\ \A a \in Asks : AskInv(a)

\* The first turn of a task that has asked nothing.
LEMMA InitHolds == Init => IInv
<1> SUFFICES ASSUME Init PROVE IInv
  OBVIOUS
<1> USE DEF Init
<1>1. TypeOK
  <2>1. cancel \in [pc: {"idle", "permissions", "questions"},
                   deny: SUBSET Asks, at: Asks \cup {None}]
    BY DEF NoCancel
  <2>2. turns \in 0..MaxTurns /\ stops \in 0..MaxStops
    BY ApprovalsAssumption DEF ApprovalsAssumption
  <2> QED
    BY <2>1, <2>2 DEF TypeOK, Busy
<1>2. Shape
  BY DEF Shape
<1>3. ASSUME NEW a \in Asks PROVE AskInv(a)
  BY <1>3 DEF AskInv, Settled
<1> QED
  BY <1>1, <1>2, <1>3 DEF IInv

-----------------------------------------------------------------------------
(* Every step keeps it *)

\* Statements fail within the bound.
LEMMA FailsBounded ==
  ASSUME IInv, Fails
  PROVE  turns' \in 0..MaxTurns /\ stops' \in 0..MaxStops
BY ApprovalsAssumption DEF ApprovalsAssumption, IInv, TypeOK, Fails

\* The handlers that create an ask, and its growing old.
LEMMA HandlerKeeps ==
  ASSUME IInv, NEW a \in Asks, Request(a) \/ Handler(a) \/ Age(a)
  PROVE  IInv'
<1> USE DEF IInv, TypeOK, Shape, AskInv, Settled, turn, waits, bounds
<1>1. CASE Request(a)
  BY <1>1 DEF Request
<1>2. CASE Insert(a)
  BY <1>2 DEF Insert
<1>3. CASE Pause(a)
  BY <1>3 DEF Pause, Busy, Waiting
<1>4. CASE RequestCut(a)
  BY <1>4 DEF RequestCut
<1>5. CASE RequestFails(a)
  BY <1>5, FailsBounded DEF RequestFails, Told
<1>6. CASE Age(a)
  BY <1>6 DEF Age
<1> QED
  BY <1>1, <1>2, <1>3, <1>4, <1>5, <1>6 DEF Handler

\* Whoever settles a pending ask writes a decision over nothing but "pending":
\* the asks that others have settled, and what their agents were told, stay.
LEMMA SettleKeeps ==
  ASSUME IInv, NEW a \in Asks, NEW answer \in Answers(a), Settle(a, answer)
  PROVE  /\ ask' \in [Asks -> {"none", "pending"} \cup Decisions]
         /\ settling' \in [Asks -> {"idle", "notify", "read", "others", "resume", "done"}]
         /\ aged' \subseteq Asks
         /\ ask'[a] = answer /\ settling'[a] = "notify"
         /\ \A b \in Asks \ {a} : ask'[b] = ask[b] /\ settling'[b] = settling[b]
         /\ ask[a] = "pending" /\ answer \notin {"none", "pending"}
BY DEF IInv, TypeOK, Shape, Settle, Answers, Decisions

\* A person, the ticker, and what the goroutine that settled an ask does next.
LEMMA SettlingKeeps ==
  ASSUME IInv, NEW a \in Asks, Answer(a) \/ ExpireStale(a) \/ Settling(a)
  PROVE  IInv'
<1> USE DEF IInv, TypeOK, Shape, AskInv, Settled, turn, waits, bounds
<1>1. CASE Answer(a)
  BY <1>1, SettleKeeps DEF Answer
<1>2. CASE ExpireStale(a)
  <2>1. "expired" \in Answers(a)
    BY DEF Answers
  <2> QED
    BY <1>2, <2>1, SettleKeeps DEF ExpireStale
<1>3. CASE Notify(a)
  BY <1>3 DEF Notify, SettlingGoes, Decisions
<1>4. CASE ReadTask(a)
  BY <1>4 DEF ReadTask, SettlingGoes
<1>5. CASE AppendFails(a)
  BY <1>5, FailsBounded DEF AppendFails, SettlingGoes, Told
<1>6. CASE ReadOthers(a)
  BY <1>6 DEF ReadOthers, SettlingGoes
<1>7. CASE Resume(a)
  BY <1>7 DEF Resume, SettlingGoes, Busy
<1> QED
  BY <1>1, <1>2, <1>3, <1>4, <1>5, <1>6, <1>7 DEF Settling

\* The poll of an ask: what it tells the agent is the decision of the row, and
\* the row of an ask that is polled and not pending has one.
LEMMA PollKeeps ==
  ASSUME IInv, NEW a \in Asks, Poll(a)
  PROVE  IInv'
<1> USE DEF IInv, TypeOK, Shape, AskInv, Settled, turn, waits, bounds, Told, PollGoes,
            Unregister
<1>1. CASE PollRead(a)
  BY <1>1 DEF PollRead, Decisions
<1>2. CASE PollRegister(a)
  BY <1>2 DEF PollRegister
<1>3. CASE PollHears(a)
  BY <1>3 DEF PollHears, Decisions
<1>4. CASE PollTimer(a)
  BY <1>4 DEF PollTimer, Decisions
<1>5. CASE PollExpires(a)
  <2>1. "expired" \in Answers(a)
    BY DEF Answers
  <2>2. CASE ask[a] = "pending"
    BY <1>5, <2>1, <2>2, SettleKeeps DEF PollExpires
  <2>3. CASE ask[a] # "pending"
    BY <1>5, <2>3 DEF PollExpires, Asks, Decisions
  <2> QED
    BY <2>2, <2>3
<1>6. CASE PollReturns(a)
  BY <1>6 DEF PollReturns, Decisions
<1>7. CASE PollFails(a)
  BY <1>7, FailsBounded DEF PollFails
<1> QED
  BY <1>1, <1>2, <1>3, <1>4, <1>5, <1>6, <1>7 DEF Poll

\* The turn and its end, which drops the agent's polls and leaves the asks alone.
LEMMA TurnKeeps ==
  ASSUME IInv, Exit \/ Crash \/ FinishTurn \/ FollowUp \/ StartTurn
  PROVE  IInv'
<1> USE DEF IInv, TypeOK, Shape, AskInv, Settled, waits, bounds, AgentGone
<1>1. CASE Exit
  BY <1>1 DEF Exit
<1>2. CASE Crash
  BY <1>2 DEF Crash
<1>3. CASE FinishTurn
  BY <1>3 DEF FinishTurn, Ended
<1>4. CASE FollowUp
  BY <1>4, ApprovalsAssumption DEF ApprovalsAssumption, FollowUp
<1>5. CASE StartTurn
  BY <1>5, ZenonT(40) DEF StartTurn, Busy
<1> QED
  BY <1>1, <1>2, <1>3, <1>4, <1>5

\* A cancel, which denies permissions and answers questions.
LEMMA CancelKeeps ==
  ASSUME IInv, CancelBegin \/ Cancel
  PROVE  IInv'
<1> USE DEF IInv, TypeOK, Shape, AskInv, Settled, turn, waits, bounds
<1>1. CASE CancelBegin
  BY <1>1, ApprovalsAssumption DEF ApprovalsAssumption, CancelBegin, PendingOf, Asks
<1>2. ASSUME NEW a \in Asks, CancelDeny(a)
      PROVE  IInv'
  <2> DEFINE answer == IF a \in Permissions THEN "denied" ELSE "answered"
  <2>1. answer \in Answers(a)
    BY DEF Answers
  <2>2. /\ cancel' \in [pc: {"idle", "permissions", "questions"},
                        deny: SUBSET Asks, at: Asks \cup {None}]
        /\ UNCHANGED <<status, inQueue, agent, asking, poll, channel, told, turns, stops>>
    <3>1. \/ cancel' = [cancel EXCEPT !.deny = @ \ {a}, !.at = a]
          \/ cancel' = [cancel EXCEPT !.deny = @ \ {a}]
      BY <1>2 DEF CancelDeny
    <3>2. UNCHANGED <<status, inQueue, agent, asking, poll, channel, told, turns, stops>>
      BY <1>2 DEF CancelDeny
    <3> QED
      BY <3>1, <3>2, ZenonT(40)
  <2>3. CASE ask[a] = "pending"
    <3>1. Settle(a, answer)
      BY <1>2, <2>3 DEF CancelDeny
    <3> HIDE DEF answer
    <3> QED
      BY <2>1, <2>2, <3>1, SettleKeeps
  <2>4. CASE ask[a] # "pending"
    <3>1. UNCHANGED <<ask, aged, settling>>
      BY <1>2, <2>4 DEF CancelDeny
    <3> QED
      BY <2>2, <3>1
  <2> QED
    BY <2>3, <2>4
<1>3. CASE CancelQuestions
  BY <1>3 DEF CancelQuestions, PendingOf, Asks
<1>4. CASE CancelWrite
  BY <1>4 DEF CancelWrite, NoCancel, AgentGone, Ended
<1> QED
  BY <1>1, <1>2, <1>3, <1>4 DEF Cancel

\* A restart, after which only the settled asks have somebody who settled them.
LEMMA RestartKeeps ==
  ASSUME IInv, Restart
  PROVE  IInv'
<1> USE DEF Restart, AgentGone
<1>1. TypeOK'
  <2>1. ASSUME NEW a \in Asks
        PROVE  /\ asking'[a] \in {"idle", "insert", "pause", "done"}
               /\ settling'[a] \in {"idle", "notify", "read", "others", "resume", "done"}
               /\ poll'[a] \in {"off", "due", "read", "waiting", "late", "expiring", "over"}
    BY <2>1
  <2>2. /\ status' \in {"queued"} \cup Busy \cup Ended
        /\ stops' \in 0..MaxStops
        /\ cancel' \in [pc: {"idle", "permissions", "questions"},
                        deny: SUBSET Asks, at: Asks \cup {None}]
    BY ApprovalsAssumption DEF ApprovalsAssumption, IInv, TypeOK, Ended, NoCancel
  <2> QED
    BY <2>1, <2>2 DEF IInv, TypeOK
<1>2. Shape'
  BY DEF IInv, Shape
<1>3. ASSUME NEW a \in Asks PROVE AskInv(a)'
  BY <1>3 DEF IInv, AskInv, Settled
<1> QED
  BY <1>1, <1>2, <1>3 DEF IInv

\* One step of whatever kind.
LEMMA StepHolds == IInv /\ [Next]_vars => IInv'
<1> SUFFICES ASSUME IInv, [Next]_vars PROVE IInv'
  OBVIOUS
<1>1. CASE UNCHANGED vars
  BY <1>1 DEF vars, IInv, TypeOK, Shape, AskInv, Settled
<1> QED
  BY <1>1, HandlerKeeps, SettlingKeeps, PollKeeps, TurnKeeps, CancelKeeps, RestartKeeps
     DEF Next

-----------------------------------------------------------------------------
(* The theorems *)

\* The inductive invariant holds in every behaviour of the model.
THEOREM ApprovalsInductive == Spec => []IInv
BY InitHolds, StepHolds, PTL DEF Spec

\* The state of the asks, their handlers, their polls and the cancel stays within
\* its types (TypeOK).
THEOREM ApprovalsTypes == Spec => []TypeOK
<1>1. IInv => TypeOK
  BY DEF IInv
<1> QED
  BY <1>1, ApprovalsInductive, PTL

\* The agent acts on the decision the record shows (ToldTheDecision), whether a
\* person, the ticker, the poll's own verdict or a cancel was first, however the
\* answer and the second look at the row of WaitApproval interleave, and whichever
\* statement fails: a permission's poll ends in that decision or in the failure.
THEOREM AgentHearsTheRecord == Spec => []ToldTheDecision
<1>1. IInv => ToldTheDecision
  BY DEF IInv, AskInv, ToldTheDecision
<1> QED
  BY <1>1, ApprovalsInductive, PTL

\* A decision stands: the update of an ask's row is conditional on its being
\* pending, so no later verdict of a person, the ticker, a poll or a cancel replaces
\* the one that was taken, and what an agent has been told is its last word on the
\* ask: no second answer follows it.
DecisionsStand ==
  \A a \in Asks : /\ Settled(a) => ask'[a] = ask[a]
                  /\ told[a] # None => told'[a] = told[a]

\* A step that settles one ask, or lets nobody know anything.
LEMMA SettledStays ==
  ASSUME IInv, NEW a \in Asks, NEW answer, Settle(a, answer), UNCHANGED told
  PROVE  DecisionsStand
BY DEF IInv, Shape, Settle, Settled, DecisionsStand

\* Every step leaves every decision, and what every agent was told, as they were.
LEMMA StepStands == IInv /\ [Next]_vars => DecisionsStand
<1> SUFFICES ASSUME IInv, [Next]_vars PROVE DecisionsStand
  OBVIOUS
<1>1. CASE UNCHANGED <<ask, told>>
  BY <1>1 DEF DecisionsStand
<1>2. ASSUME NEW a \in Asks, Poll(a)
      PROVE  DecisionsStand
  <2> USE DEF Told, PollGoes
  <2>1. poll[a] \notin {"off", "over"}
    BY <1>2 DEF Poll, PollRead, PollRegister, PollHears, PollTimer, PollExpires, PollReturns,
                PollFails
  <2>2. \A b \in Asks : told[b] # None => told'[b] = told[b]
    <3>1. \A b \in Asks \ {a} : told'[b] = told[b]
      BY <1>2 DEF IInv, Shape, Poll, PollRead, PollRegister, PollHears, PollTimer, PollExpires,
                  PollReturns, PollFails
    <3>2. told[a] = None
      BY <2>1 DEF IInv, AskInv
    <3> QED
      BY <3>1, <3>2
  <2>3. \/ UNCHANGED ask
        \/ ask[a] = "pending" /\ ask' = [ask EXCEPT ![a] = "expired"]
    BY <1>2 DEF Poll, PollRead, PollRegister, PollHears, PollTimer, PollExpires, PollReturns,
                PollFails, Settle
  <2> QED
    BY <2>2, <2>3 DEF IInv, Shape, Settled, DecisionsStand
<1>3. ASSUME NEW a \in Asks, Insert(a)
      PROVE  DecisionsStand
  BY <1>3 DEF Insert, IInv, Shape, AskInv, Settled, DecisionsStand, waits
<1>4. ASSUME NEW a \in Asks, Answer(a) \/ ExpireStale(a) \/ CancelDeny(a)
      PROVE  DecisionsStand
  <2>1. UNCHANGED told
    BY <1>4 DEF Answer, ExpireStale, CancelDeny, waits
  <2>2. UNCHANGED ask \/ \E answer : Settle(a, answer)
    BY <1>4 DEF Answer, ExpireStale, CancelDeny
  <2> QED
    BY <1>1, <2>1, <2>2, SettledStays
<1>5. ASSUME NEW a \in Asks, AppendFails(a)
      PROVE  DecisionsStand
  <2>1. CASE poll[a] = "expiring"
    <3>1. told[a] = None
      BY <2>1 DEF IInv, AskInv
    <3> QED
      BY <1>5, <2>1, <3>1 DEF AppendFails, Told, IInv, Shape, DecisionsStand
  <2>2. CASE poll[a] # "expiring"
    BY <1>1, <1>5, <2>2 DEF AppendFails
  <2> QED
    BY <2>1, <2>2
<1>6. ASSUME NEW a \in Asks, Notify(a) \/ ReadTask(a) \/ ReadOthers(a) \/ Resume(a)
      PROVE  DecisionsStand
  BY <1>1, <1>6 DEF Notify, ReadTask, ReadOthers, Resume, waits
<1>7. ASSUME NEW a \in Asks, RequestFails(a)
      PROVE  DecisionsStand
  <2>1. told[a] = None
    BY <1>7 DEF RequestFails, IInv, AskInv, Shape
  <2> QED
    BY <1>7, <2>1 DEF RequestFails, Told, IInv, Shape, DecisionsStand
<1>8. ASSUME NEW a \in Asks, Request(a) \/ Pause(a) \/ RequestCut(a) \/ Age(a)
      PROVE  DecisionsStand
  BY <1>1, <1>8 DEF Request, Pause, RequestCut, Age, waits
<1>9. CASE \/ Exit \/ Crash \/ FinishTurn \/ FollowUp \/ StartTurn
           \/ CancelBegin \/ CancelQuestions \/ CancelWrite \/ Restart
  BY <1>1, <1>9 DEF Exit, Crash, FinishTurn, FollowUp, StartTurn, CancelBegin, CancelQuestions,
                    CancelWrite, Restart, waits
<1>10. CASE UNCHANGED vars
  BY <1>1, <1>10 DEF vars
<1> QED
  BY <1>2, <1>3, <1>4, <1>5, <1>6, <1>7, <1>8, <1>9, <1>10
     DEF Next, Handler, Settling, Cancel

\* No behaviour takes a decision, or an answer given to an agent, back.
THEOREM NoDecisionTakenBack == Spec => [][DecisionsStand]_vars
<1>1. IInv /\ [Next]_vars => [DecisionsStand]_vars
  BY StepStands
<1> QED
  BY <1>1, ApprovalsInductive, PTL DEF Spec

-----------------------------------------------------------------------------
(* Groups of workers: the waves *)

\* What Plan hands to PlanWaves: a step builds on earlier ones only.
Ordered(pl) ==
  /\ pl \in [Steps -> [access : Accesses, deps : SUBSET Steps]]
  /\ \A s \in Steps : pl[s].deps \subseteq 1 .. s - 1

Ready(pl, done, s) == s \notin done /\ pl[s].deps \subseteq done

\* NextWave looks at one step after the other,
PassNext(pl, done, w, s) ==
  IF s \notin done /\ pl[s].deps \subseteq done /\ ~Conflicts(pl, w, s) THEN Append(w, s) ELSE w

Pass(pl, done) ==
  CHOOSE f : f = [s \in 0 .. N |-> IF s = 0 THEN <<>> ELSE PassNext(pl, done, f[s - 1], s)]

\* and what it has when it has come to the k-th is this.
PassedTo(pl, done, w, k) ==
  /\ w \in Seq(Steps)
  /\ \A i \in 1..Len(w) : w[i] <= k /\ Ready(pl, done, w[i])
  /\ \A i, j \in 1..Len(w) : i # j => w[i] # w[j] /\ "write" \notin {pl[w[i]].access, pl[w[j]].access}
  /\ (\E s \in Steps : s <= k /\ Ready(pl, done, s)) => w # <<>>

\* A set of numbers has a least one.
LEMMA LeastNumber ==
  ASSUME NEW T \in SUBSET Nat, T # {}
  PROVE  \E x \in T : \A y \in T : x <= y
<1> DEFINE R == OpToRel(<, Nat)
<1>1. IsWellFoundedOn(R, Nat)
  BY NatLessThanWellFounded
<1>2. ASSUME NEW x \in Nat, NEW y \in Nat, ~(<<y, x>> \in R)
      PROVE  x <= y
  BY <1>2 DEF OpToRel
<1> HIDE DEF R
<1>3. PICK x \in T : \A y \in T : ~(<<y, x>> \in R)
  BY <1>1, WFMin
<1> QED
  BY <1>2, <1>3

\* A set of numbers with 0 and, below a bound, with each number its successor, holds
\* all up to the bound.
LEMMA CountingUp ==
  ASSUME NEW n \in Nat, NEW T, 0 \in T, \A k \in 0..n : k # n /\ k \in T => k + 1 \in T
  PROVE  0..n \subseteq T
<1> DEFINE Rest == {k \in 0..n : k \notin T}
<1>1. SUFFICES ASSUME Rest # {} PROVE FALSE
  OBVIOUS
<1>2. PICK k \in Rest : \A y \in Rest : k <= y
  <2>1. Rest \in SUBSET Nat
    OBVIOUS
  <2> HIDE DEF Rest
  <2> QED
    BY <1>1, <2>1, LeastNumber
<1>3. k # 0 /\ k - 1 \in 0..n /\ k - 1 # n /\ k - 1 \notin Rest
  BY <1>2
<1>4. k - 1 \in T
  BY <1>3
<1> QED
  BY <1>2, <1>3, <1>4

\* The look at one more step.
LEMMA PassMoves ==
  ASSUME NEW pl, Ordered(pl), NEW done, NEW w, NEW k \in Steps, PassedTo(pl, done, w, k - 1)
  PROVE  PassedTo(pl, done, PassNext(pl, done, w, k), k)
<1> DEFINE v == PassNext(pl, done, w, k)
<1>0. k \in Nat \ {0} /\ \A s \in Steps : s \in Nat
  BY GroupAssumption DEF Steps, GroupAssumption
<1>1. CASE Ready(pl, done, k) /\ ~Conflicts(pl, w, k)
  <2>1. v = Append(w, k)
    BY <1>1 DEF PassNext, Ready
  <2>2. w \in Seq(Steps) /\ Len(w) \in Nat
    BY LenProperties DEF PassedTo
  <2>3. /\ v \in Seq(Steps) /\ Len(v) = Len(w) + 1 /\ v[Len(w) + 1] = k
        /\ \A i \in 1..Len(w) : v[i] = w[i] /\ w[i] \in Steps
    BY <2>1, <2>2, AppendProperties, ElementOfSeq
  <2>4. \A i \in 1..Len(v) : v[i] <= k /\ Ready(pl, done, v[i])
    <3> SUFFICES ASSUME NEW i \in 1..Len(v) PROVE v[i] <= k /\ Ready(pl, done, v[i])
      OBVIOUS
    <3>1. CASE i = Len(w) + 1
      BY <1>0, <1>1, <2>3, <3>1
    <3>2. CASE i \in 1..Len(w)
      <4>1. v[i] = w[i] /\ w[i] <= k - 1 /\ w[i] \in Nat /\ Ready(pl, done, w[i])
        BY <1>0, <2>3, <3>2 DEF PassedTo
      <4> QED
        BY <1>0, <4>1
    <3> QED
      BY <2>2, <2>3, <3>1, <3>2
  <2>5. \A i \in 1..Len(w) : w[i] # k /\ "write" \notin {pl[k].access, pl[w[i]].access}
    BY <1>0, <1>1, <2>3 DEF PassedTo, Conflicts
  <2>6. ASSUME NEW i \in 1..Len(v), NEW j \in 1..Len(v), i # j
        PROVE  v[i] # v[j] /\ "write" \notin {pl[v[i]].access, pl[v[j]].access}
    <3>1. CASE i \in 1..Len(w) /\ j \in 1..Len(w)
      BY <2>3, <2>6, <3>1 DEF PassedTo
    <3>2. CASE i = Len(w) + 1 /\ j \in 1..Len(w)
      BY <2>3, <2>5, <3>2
    <3>3. CASE j = Len(w) + 1 /\ i \in 1..Len(w)
      BY <2>3, <2>5, <3>3
    <3> QED
      BY <2>2, <2>3, <2>6, <3>1, <3>2, <3>3
  <2>7. v # <<>>
    BY <2>2, <2>3, EmptySeq
  <2> QED
    BY <2>3, <2>4, <2>6, <2>7 DEF PassedTo
<1>2. CASE ~(Ready(pl, done, k) /\ ~Conflicts(pl, w, k))
  <2>1. v = w
    BY <1>2 DEF PassNext, Ready
  <2>2. Len(w) \in Nat /\ \A i \in 1..Len(w) : w[i] \in Steps
    BY LenProperties, ElementOfSeq DEF PassedTo
  <2>3. \A i \in 1..Len(w) : w[i] <= k
    <3> SUFFICES ASSUME NEW i \in 1..Len(w) PROVE w[i] <= k
      OBVIOUS
    <3>1. w[i] <= k - 1 /\ w[i] \in Nat
      BY <1>0, <2>2 DEF PassedTo
    <3> QED
      BY <1>0, <3>1
  <2>4. ASSUME NEW s \in Steps, s <= k, Ready(pl, done, s), w = <<>> PROVE FALSE
    <3>1. ~Conflicts(pl, w, k)
      BY <2>4, EmptySeq DEF Conflicts
    <3>2. s # k
      BY <1>2, <2>4, <3>1
    <3>3. s <= k - 1
      BY <1>0, <2>4, <3>2
    <3> QED
      BY <2>4, <3>3 DEF PassedTo
  <2> QED
    BY <2>1, <2>3, <2>4 DEF PassedTo
<1> QED
  BY <1>1, <1>2

\* The recursion has a solution, on ever longer ranges,
LEMMA PassExists ==
  ASSUME NEW pl, NEW done
  PROVE  \E f : f = [s \in 0 .. N |-> IF s = 0 THEN <<>> ELSE PassNext(pl, done, f[s - 1], s)]
<1> DEFINE Solves(f, n) == f = [s \in 0 .. n |-> IF s = 0 THEN <<>> ELSE PassNext(pl, done, f[s - 1], s)]
<1> DEFINE T == {n \in 0..N : \E f : Solves(f, n)}
<1>0. N \in Nat
  BY GroupAssumption DEF GroupAssumption
<1>1. 0 \in T
  <2> DEFINE f == [s \in 0 .. 0 |-> <<>>]
  <2>1. Solves(f, 0)
    <3>1. \A s \in 0 .. 0 : s = 0
      OBVIOUS
    <3>2. f = [s \in 0 .. 0 |-> IF s = 0 THEN <<>> ELSE PassNext(pl, done, f[s - 1], s)]
      BY <3>1, Zenon
    <3> QED
      BY <3>2
  <2>2. \E h : Solves(h, 0)
    BY <2>1, Zenon
  <2> HIDE DEF Solves
  <2> QED
    BY <1>0, <2>2
<1>2. ASSUME NEW k \in 0..N, k # N, k \in T PROVE k + 1 \in T
  <2>1. PICK f : Solves(f, k)
    BY <1>2
  <2> DEFINE g == [s \in 0 .. k + 1 |-> IF s = k + 1 THEN PassNext(pl, done, f[k], k + 1) ELSE f[s]]
  <2>2. ASSUME NEW s \in 0 .. k + 1
        PROVE  g[s] = IF s = 0 THEN <<>> ELSE PassNext(pl, done, g[s - 1], s)
    <3>1. CASE s = k + 1
      <4>1. s # 0 /\ s - 1 = k /\ k \in 0 .. k + 1 /\ k # k + 1
        BY <3>1, <1>0
      <4> QED
        BY <3>1, <4>1
    <3>2. CASE s \in 0 .. k /\ s # 0
      <4>1. s # k + 1 /\ s - 1 \in 0 .. k + 1 /\ s - 1 # k + 1 /\ s \in 0 .. k
        BY <3>2, <1>0
      <4>2. g[s] = f[s] /\ g[s - 1] = f[s - 1]
        BY <4>1
      <4>3. f[s] = PassNext(pl, done, f[s - 1], s)
        BY <2>1, <3>2
      <4> QED
        BY <3>2, <4>2, <4>3
    <3>3. CASE s = 0
      <4>1. 0 # k + 1 /\ 0 \in 0 .. k + 1 /\ 0 \in 0 .. k
        BY <1>0
      <4>2. g[0] = f[0] /\ f[0] = <<>>
        BY <2>1, <4>1
      <4> QED
        BY <3>3, <4>2
    <3> QED
      BY <1>0, <3>1, <3>2, <3>3
  <2>3. Solves(g, k + 1)
    BY <2>2
  <2>4. k + 1 \in 0..N
    BY <1>0, <1>2
  <2> QED
    BY <2>3, <2>4
<1>3. N \in T
  <2> HIDE DEF T
  <2>1. 0..N \subseteq T
    BY <1>0, <1>1, <1>2, CountingUp
  <2> QED
    BY <1>0, <2>1
<1> QED
  BY <1>3

\* so a wave is what the pass has at the end: steps that are ready, each once, none in
\* conflict with another, and some if one is ready.
LEMMA WaveIsPassed ==
  ASSUME NEW pl, Ordered(pl), NEW done
  PROVE  PassedTo(pl, done, NextWave(pl, done), N)
<1> DEFINE f == Pass(pl, done)
<1>0. N \in Nat /\ Steps = 1..N
  BY GroupAssumption DEF GroupAssumption, Steps
<1>1. NextWave(pl, done) = f[N]
  BY DEF NextWave, Pass, PassNext
<1>2. f = [s \in 0 .. N |-> IF s = 0 THEN <<>> ELSE PassNext(pl, done, f[s - 1], s)]
  <2> DEFINE IsPass(h) == h = [s \in 0 .. N |-> IF s = 0 THEN <<>> ELSE PassNext(pl, done, h[s - 1], s)]
  <2>1. \E h : IsPass(h)
    BY PassExists
  <2>2. f = CHOOSE h : IsPass(h)
    BY Zenon DEF Pass
  <2> HIDE DEF IsPass, f
  <2>3. IsPass(f)
    BY <2>1, <2>2, Zenon
  <2> QED
    BY <2>3 DEF IsPass
<1> DEFINE T == {k \in 0..N : PassedTo(pl, done, f[k], k)}
<1> HIDE DEF f
<1>3. 0 \in T
  <2>1. f[0] = <<>>
    BY <1>0, <1>2
  <2>2. PassedTo(pl, done, <<>>, 0)
    <3>1. ~ \E s \in Steps : s <= 0
      BY <1>0
    <3> QED
      BY <3>1, EmptySeq DEF PassedTo
  <2> QED
    BY <1>0, <2>1, <2>2
<1>4. ASSUME NEW k \in 0..N, k # N, k \in T PROVE k + 1 \in T
  <2>1. k + 1 \in Steps /\ k + 1 \in 0..N /\ k + 1 # 0 /\ (k + 1) - 1 = k
    BY <1>0, <1>4
  <2>2. f[k + 1] = PassNext(pl, done, f[k], k + 1)
    BY <1>2, <2>1
  <2>3. PassedTo(pl, done, f[k], (k + 1) - 1)
    BY <1>4, <2>1
  <2>4. PassedTo(pl, done, f[k + 1], k + 1)
    BY <2>1, <2>2, <2>3, PassMoves
  <2> QED
    BY <2>1, <2>4
<1>5. N \in T
  <2> HIDE DEF T
  <2>1. 0..N \subseteq T
    BY <1>0, <1>3, <1>4, CountingUp
  <2> QED
    BY <1>0, <2>1
<1> QED
  BY <1>1, <1>5

\* PlanWaves makes one wave after the other,
PlanNext(pl, ws) ==
  IF InWaves(ws) = Steps THEN ws ELSE Append(ws, NextWave(pl, InWaves(ws)))

Planning(pl) ==
  CHOOSE f : f = [n \in 0 .. N |-> IF n = 0 THEN <<>> ELSE PlanNext(pl, f[n - 1])]

\* and has this after n of them: disjoint ones, each of which builds on those before
\* it, and with n steps at least or with all.
PlannedTo(pl, ws, n) ==
  /\ ws \in Seq(Seq(Steps))
  /\ \A i \in 1..Len(ws) :
       /\ ws[i] # <<>>
       /\ \A j, l \in 1..Len(ws[i]) :
            j # l => /\ ws[i][j] # ws[i][l]
                     /\ "write" \notin {pl[ws[i][j]].access, pl[ws[i][l]].access}
  /\ \A i, k \in 1..Len(ws) : i # k =>
       \A j \in 1..Len(ws[i]), l \in 1..Len(ws[k]) : ws[i][j] # ws[k][l]
  /\ \A i \in 1..Len(ws) : \A j \in 1..Len(ws[i]) : \A u \in pl[ws[i][j]].deps :
       \E k \in 1..Len(ws) : k < i /\ \E l \in 1..Len(ws[k]) : ws[k][l] = u
  /\ InWaves(ws) = Steps \/ n <= Cardinality(InWaves(ws))

\* The steps in waves are steps of the waves.
LEMMA InWavesIs ==
  ASSUME NEW ws \in Seq(Seq(Steps))
  PROVE  /\ \A i \in 1..Len(ws) : ws[i] \in Seq(Steps) /\ Len(ws[i]) \in Nat
                                  /\ \A j \in 1..Len(ws[i]) : ws[i][j] \in Steps
         /\ \A u : u \in InWaves(ws) <=> \E i \in 1..Len(ws) : \E j \in 1..Len(ws[i]) : ws[i][j] = u
         /\ InWaves(ws) \subseteq Steps
<1>1. \A i \in 1..Len(ws) : ws[i] \in Seq(Steps)
  BY ElementOfSeq
<1>2. \A i \in 1..Len(ws) : Len(ws[i]) \in Nat /\ \A j \in 1..Len(ws[i]) : ws[i][j] \in Steps
  BY <1>1, ElementOfSeq, LenProperties
<1>3. \A u : u \in InWaves(ws) <=> \E i \in 1..Len(ws) : \E j \in 1..Len(ws[i]) : ws[i][j] = u
  BY SMTT(30) DEF InWaves
<1> QED
  BY <1>1, <1>2, <1>3

\* As long as a step is in no wave there is one that is ready: the first of them.
LEMMA SomeReady ==
  ASSUME NEW pl, Ordered(pl), NEW done, done \subseteq Steps, done # Steps
  PROVE  \E s \in Steps : s <= N /\ Ready(pl, done, s)
<1>0. N \in Nat /\ Steps = 1..N
  BY GroupAssumption DEF GroupAssumption, Steps
<1>1. Steps \ done \in SUBSET Nat /\ Steps \ done # {}
  <2>1. PICK u \in Steps : u \notin done
    OBVIOUS
  <2> QED
    BY <1>0, <2>1
<1>2. PICK s \in Steps \ done : \A y \in Steps \ done : s <= y
  BY <1>1, LeastNumber
<1>3. pl[s].deps \subseteq 1 .. s - 1
  BY <1>2 DEF Ordered
<1>4. \A u \in 1 .. s - 1 : u \in Steps /\ ~(s <= u)
  BY <1>0, <1>2
<1>5. pl[s].deps \subseteq done
  BY <1>2, <1>3, <1>4
<1> QED
  BY <1>0, <1>2, <1>5 DEF Ready

\* One wave more.
LEMMA PlanMoves ==
  ASSUME NEW pl, Ordered(pl), NEW ws, NEW n \in Nat, PlannedTo(pl, ws, n)
  PROVE  PlannedTo(pl, PlanNext(pl, ws), n + 1)
<1>1. CASE InWaves(ws) = Steps
  BY <1>1 DEF PlanNext, PlannedTo
<1>2. CASE InWaves(ws) # Steps
  <2> DEFINE done == InWaves(ws)
             w == NextWave(pl, done)
             v == Append(ws, w)
             m == Len(ws) + 1
  <2>1. PlanNext(pl, ws) = v
    BY <1>2 DEF PlanNext
  <2>2. ws \in Seq(Seq(Steps)) /\ Len(ws) \in Nat /\ done \subseteq Steps
    BY LenProperties, InWavesIs DEF PlannedTo
  <2>3. PassedTo(pl, done, w, N) /\ w # <<>>
    BY <1>2, <2>2, WaveIsPassed, SomeReady DEF PassedTo
  <2>4. w \in Seq(Steps) /\ Len(w) \in Nat
    BY <2>3, LenProperties DEF PassedTo
  <2>0. /\ \A u : u \in done <=> \E i \in 1..Len(ws) : \E j \in 1..Len(ws[i]) : ws[i][j] = u
        /\ \A i \in 1..Len(ws) : ws[i] \in Seq(Steps)
    BY <2>2, InWavesIs
  <2> HIDE DEF done, w
  <2>5. /\ v \in Seq(Seq(Steps)) /\ Len(v) = m /\ v[m] = w
        /\ \A i \in 1..Len(ws) : v[i] = ws[i]
    BY <2>2, <2>4, AppendProperties
  <2>6. \A i \in 1..m : i = m \/ i \in 1..Len(ws)
    BY <2>2
  <2>7. \A j \in 1..Len(w) : w[j] \notin done /\ pl[w[j]].deps \subseteq done
    BY <2>3 DEF PassedTo, Ready
  <2> HIDE DEF v, m
  <2>8. ASSUME NEW i \in 1..m
        PROVE  /\ v[i] # <<>>
               /\ \A j, l \in 1..Len(v[i]) :
                    j # l => /\ v[i][j] # v[i][l]
                             /\ "write" \notin {pl[v[i][j]].access, pl[v[i][l]].access}
    <3>1. CASE i = m
      BY <2>3, <2>5, <3>1 DEF PassedTo
    <3>2. CASE i \in 1..Len(ws)
      BY <2>5, <3>2, SMTT(40) DEF PlannedTo
    <3> QED
      BY <2>6, <3>1, <3>2
  <2>9. ASSUME NEW i \in 1..m, NEW k \in 1..m, i # k, NEW j \in 1..Len(v[i]), NEW l \in 1..Len(v[k])
        PROVE  v[i][j] # v[k][l]
    <3>1. CASE i \in 1..Len(ws) /\ k \in 1..Len(ws)
      <4>1. v[i] = ws[i] /\ v[k] = ws[k] /\ j \in 1..Len(ws[i]) /\ l \in 1..Len(ws[k])
        BY <2>5, <3>1
      <4>2. ws[i][j] # ws[k][l]
        BY <2>9, <3>1, <4>1 DEF PlannedTo
      <4> QED
        BY <4>1, <4>2
    <3>2. CASE i \in 1..Len(ws) /\ k = m
      <4>1. v[i][j] \in done /\ v[k][l] \notin done
        BY <2>0, <2>5, <2>7, <3>2
      <4> QED
        BY <4>1
    <3>3. CASE k \in 1..Len(ws) /\ i = m
      <4>1. v[k][l] \in done /\ v[i][j] \notin done
        BY <2>0, <2>5, <2>7, <3>3
      <4> QED
        BY <4>1
    <3> QED
      BY <2>6, <2>9, <3>1, <3>2, <3>3
  <2>10. ASSUME NEW i \in 1..m, NEW j \in 1..Len(v[i]), NEW u \in pl[v[i][j]].deps
         PROVE  \E k \in 1..m : k < i /\ \E l \in 1..Len(v[k]) : v[k][l] = u
    <3>0. \A k \in 1..Len(ws) : k \in 1..m /\ k < m
      BY <2>2 DEF m
    <3>1. CASE i = m
      <4>1. u \in done
        BY <2>5, <2>7, <3>1
      <4>2. PICK k \in 1..Len(ws) : \E l \in 1..Len(ws[k]) : ws[k][l] = u
        BY <2>0, <4>1
      <4> QED
        BY <2>5, <3>0, <3>1, <4>2
    <3>2. CASE i \in 1..Len(ws)
      <4>0. v[i] = ws[i] /\ j \in 1..Len(ws[i]) /\ u \in pl[ws[i][j]].deps
        BY <2>5, <3>2
      <4>1. \E k \in 1..Len(ws) : k < i /\ \E l \in 1..Len(ws[k]) : ws[k][l] = u
        <5>1. \A x \in pl[ws[i][j]].deps :
                \E k \in 1..Len(ws) : k < i /\ \E l \in 1..Len(ws[k]) : ws[k][l] = x
          BY <3>2, <4>0 DEF PlannedTo
        <5> QED
          BY <4>0, <5>1
      <4> QED
        BY <2>5, <3>0, <4>1
    <3> QED
      BY <2>6, <3>1, <3>2
  <2>11. InWaves(v) = Steps \/ n + 1 <= Cardinality(InWaves(v))
    <3>1. 1 \in 1..Len(w) /\ w[1] \in Steps /\ w[1] \notin done
      BY <2>3, <2>4, <2>7, EmptySeq, ElementOfSeq
    <3>2. w[1] \in InWaves(v)
      <4>1. m \in 1..Len(v) /\ v[m][1] = w[1] /\ 1 \in 1..Len(v[m])
        BY <2>2, <2>5, <3>1 DEF m
      <4> QED
        BY <2>5, <4>1, InWavesIs
    <3>3. done \cup {w[1]} \subseteq InWaves(v)
      <4> SUFFICES ASSUME NEW u \in done PROVE u \in InWaves(v)
        BY <3>2
      <4>1. PICK i \in 1..Len(ws) : \E j \in 1..Len(ws[i]) : ws[i][j] = u
        BY <2>0
      <4>2. i \in 1..Len(v) /\ v[i] = ws[i]
        BY <2>2, <2>5 DEF m
      <4> QED
        BY <2>5, <4>1, <4>2, InWavesIs
    <3>4. IsFiniteSet(Steps) /\ InWaves(v) \subseteq Steps
      BY <2>5, InWavesIs, FS_Interval, GroupAssumption DEF Steps, GroupAssumption
    <3>5. IsFiniteSet(InWaves(v)) /\ IsFiniteSet(done)
      BY <2>2, <3>4, FS_Subset
    <3>6. Cardinality(done \cup {w[1]}) = Cardinality(done) + 1
      BY <3>1, <3>5, FS_AddElement
    <3>7. Cardinality(done \cup {w[1]}) <= Cardinality(InWaves(v))
      BY <3>3, <3>5, FS_Subset
    <3>8. n <= Cardinality(done)
      BY <1>2 DEF PlannedTo, done
    <3>9. Cardinality(done) \in Nat /\ Cardinality(InWaves(v)) \in Nat
      BY <3>5, FS_CardinalityType
    <3> QED
      BY <3>6, <3>7, <3>8, <3>9
  <2> QED
    BY <2>1, <2>5, <2>8, <2>9, <2>10, <2>11 DEF PlannedTo
<1> QED
  BY <1>1, <1>2

\* This recursion has a solution too,
LEMMA PlanningExists ==
  ASSUME NEW pl
  PROVE  \E f : f = [n \in 0 .. N |-> IF n = 0 THEN <<>> ELSE PlanNext(pl, f[n - 1])]
<1> DEFINE Solves(f, n) == f = [s \in 0 .. n |-> IF s = 0 THEN <<>> ELSE PlanNext(pl, f[s - 1])]
<1> DEFINE T == {n \in 0..N : \E f : Solves(f, n)}
<1>0. N \in Nat
  BY GroupAssumption DEF GroupAssumption
<1>1. 0 \in T
  <2> DEFINE f == [s \in 0 .. 0 |-> <<>>]
  <2>1. Solves(f, 0)
    <3>1. \A s \in 0 .. 0 : s = 0
      OBVIOUS
    <3>2. f = [s \in 0 .. 0 |-> IF s = 0 THEN <<>> ELSE PlanNext(pl, f[s - 1])]
      BY <3>1, Zenon
    <3> QED
      BY <3>2
  <2>2. \E h : Solves(h, 0)
    BY <2>1, Zenon
  <2> HIDE DEF Solves
  <2> QED
    BY <1>0, <2>2
<1>2. ASSUME NEW k \in 0..N, k # N, k \in T PROVE k + 1 \in T
  <2>1. PICK f : Solves(f, k)
    BY <1>2
  <2> DEFINE g == [s \in 0 .. k + 1 |-> IF s = k + 1 THEN PlanNext(pl, f[k]) ELSE f[s]]
  <2>2. ASSUME NEW s \in 0 .. k + 1
        PROVE  g[s] = IF s = 0 THEN <<>> ELSE PlanNext(pl, g[s - 1])
    <3>1. CASE s = k + 1
      <4>1. s # 0 /\ s - 1 = k /\ k \in 0 .. k + 1 /\ k # k + 1
        BY <3>1, <1>0
      <4> QED
        BY <3>1, <4>1
    <3>2. CASE s \in 0 .. k /\ s # 0
      <4>1. s # k + 1 /\ s - 1 \in 0 .. k + 1 /\ s - 1 # k + 1 /\ s \in 0 .. k
        BY <3>2, <1>0
      <4>2. g[s] = f[s] /\ g[s - 1] = f[s - 1]
        BY <4>1
      <4>3. f[s] = PlanNext(pl, f[s - 1])
        BY <2>1, <3>2
      <4> QED
        BY <3>2, <4>2, <4>3
    <3>3. CASE s = 0
      <4>1. 0 # k + 1 /\ 0 \in 0 .. k + 1 /\ 0 \in 0 .. k
        BY <1>0
      <4>2. g[0] = f[0] /\ f[0] = <<>>
        BY <2>1, <4>1
      <4> QED
        BY <3>3, <4>2
    <3> QED
      BY <1>0, <3>1, <3>2, <3>3
  <2>3. Solves(g, k + 1)
    BY <2>2
  <2>4. k + 1 \in 0..N
    BY <1>0, <1>2
  <2> QED
    BY <2>3, <2>4
<1>3. N \in T
  <2> HIDE DEF T
  <2>1. 0..N \subseteq T
    BY <1>0, <1>1, <1>2, CountingUp
  <2> QED
    BY <1>0, <2>1
<1> QED
  BY <1>3

\* so PlanWaves ends with N steps in waves, which are all of them: for any plan whose steps
\* build on earlier ones, its waves are not empty, hold every step once, no writer beside
\* another step, and no step before one it builds on (task/plan.go).
THEOREM WavesArePlanned ==
  ASSUME NEW pl, Ordered(pl)
  PROVE  PlannedTo(pl, PlanWaves(pl), N) /\ InWaves(PlanWaves(pl)) = Steps
<1> DEFINE f == Planning(pl)
<1>0. N \in Nat /\ Steps = 1..N
  BY GroupAssumption DEF GroupAssumption, Steps
<1>1. PlanWaves(pl) = f[N]
  BY DEF PlanWaves, Planning, PlanNext
<1>2. f = [n \in 0 .. N |-> IF n = 0 THEN <<>> ELSE PlanNext(pl, f[n - 1])]
  <2> DEFINE IsPlan(h) == h = [n \in 0 .. N |-> IF n = 0 THEN <<>> ELSE PlanNext(pl, h[n - 1])]
  <2>1. \E h : IsPlan(h)
    BY PlanningExists
  <2>2. f = CHOOSE h : IsPlan(h)
    BY Zenon DEF Planning
  <2> HIDE DEF IsPlan, f
  <2>3. IsPlan(f)
    BY <2>1, <2>2, Zenon
  <2> QED
    BY <2>3 DEF IsPlan
<1> DEFINE T == {n \in 0..N : PlannedTo(pl, f[n], n)}
<1> HIDE DEF f
<1>3. 0 \in T
  <2>1. f[0] = <<>>
    BY <1>0, <1>2
  <2>2. InWaves(<<>>) = {}
    BY EmptySeq DEF InWaves
  <2>3. Cardinality({}) = 0
    BY FS_EmptySet
  <2>4. <<>> \in Seq(Seq(Steps)) /\ \A i \in 1..Len(<<>>) : FALSE
    BY EmptySeq
  <2>5. PlannedTo(pl, <<>>, 0)
    BY <2>2, <2>3, <2>4 DEF PlannedTo
  <2> QED
    BY <1>0, <2>1, <2>5
<1>4. ASSUME NEW k \in 0..N, k # N, k \in T PROVE k + 1 \in T
  <2>1. k \in Nat /\ k + 1 \in 0..N /\ k + 1 # 0 /\ (k + 1) - 1 = k
    BY <1>0, <1>4
  <2>2. f[k + 1] = PlanNext(pl, f[k])
    BY <1>2, <2>1
  <2>3. PlannedTo(pl, f[k + 1], k + 1)
    BY <1>4, <2>1, <2>2, PlanMoves
  <2> QED
    BY <2>1, <2>3
<1>5. N \in T
  <2> HIDE DEF T
  <2>1. 0..N \subseteq T
    BY <1>0, <1>3, <1>4, CountingUp
  <2> QED
    BY <1>0, <2>1
<1>6. PlannedTo(pl, PlanWaves(pl), N)
  BY <1>1, <1>5
<1>7. CASE N <= Cardinality(InWaves(PlanWaves(pl)))
  <2>1. IsFiniteSet(Steps) /\ Cardinality(Steps) = N
    BY <1>0, FS_Interval
  <2>2. InWaves(PlanWaves(pl)) \subseteq Steps
    BY <1>6, InWavesIs DEF PlannedTo
  <2>3. Cardinality(InWaves(PlanWaves(pl))) <= N
    BY <2>1, <2>2, FS_Subset
  <2>4. Cardinality(InWaves(PlanWaves(pl))) \in Nat
    BY <2>1, <2>2, FS_Subset, FS_CardinalityType
  <2> QED
    BY <1>0, <1>6, <1>7, <2>1, <2>2, <2>3, <2>4, FS_Subset
<1> QED
  BY <1>6, <1>7 DEF PlannedTo

-----------------------------------------------------------------------------
(* Groups of workers: the invariant *)

\* Where the loop over a wave is, and where a wave is on its way.
Looping == {"accept", "start", "accepted", "register", "update"}
Waving  == Looping \cup {"check", "wait", "drain", "look", "undo"}
Closing == {"apply", "cancel", "end", "over"}

Places   == {"off", "cancel", "steps", "kill", "stop", "retire", "finish", "forget", "erase",
             "interrupt", "halt", "unmark", "deliver"}
Requests == [pc : Places, snap : SUBSET (Steps \X (1..2)), deletes : BOOLEAN]
Stations == {"plan", "persist", "wave", "finish"} \cup Waving \cup Closing
Loops    == [pc : Stations, wave : Nat \ {0}, at : Nat \ {0}, refused : BOOLEAN]

GroupTypes ==
  /\ rowStatus \in {"running", "queued", "canceled", "ended", "deleted"}
  /\ activeRun \in {"group", "next", "none"} /\ canceled \in BOOLEAN /\ parked \in BOOLEAN
  /\ step \in [Steps -> Open \cup {"none", "failed", "succeeded", "canceled"}]
  /\ agents \in [Steps -> [try : 0..2, life : {"none", "live", "gone"}, told : BOOLEAN]]
  /\ worker \in [Steps -> [pc : {"off", "forward", "again", "start", "register", "done"},
                           failed : BOOLEAN]]
  /\ orch \in Loops
  /\ api \in Requests
  /\ group \subseteq Steps \X (1..2) /\ stopped \in BOOLEAN /\ raced \in BOOLEAN /\ ops \in 0..MaxOps

\* The wave of a step, and its place there.
WaveOf(s)  == CHOOSE i \in 1..Len(waves) : \E j \in 1..Len(waves[i]) : waves[i][j] = s
PlaceOf(s) == CHOOSE j \in 1..Len(waves[WaveOf(s)]) : waves[WaveOf(s)][j] = s

\* Every step is in one wave, once; who writes is alone in its wave; and what a step
\* builds on is in an earlier one.
WavesInv ==
  /\ plan \in [Steps -> [access : Accesses, deps : SUBSET Steps]]
  /\ waves \in Seq(Seq(Steps)) /\ \A i \in 1..Len(waves) : waves[i] # <<>>
  /\ \A s \in Steps : /\ WaveOf(s) \in 1..Len(waves)
                      /\ PlaceOf(s) \in 1..Len(waves[WaveOf(s)])
                      /\ waves[WaveOf(s)][PlaceOf(s)] = s
  /\ \A i \in 1..Len(waves) : \A j \in 1..Len(waves[i]) :
       WaveOf(waves[i][j]) = i /\ PlaceOf(waves[i][j]) = j
  /\ \A s, u \in Steps : s # u /\ WaveOf(s) = WaveOf(u) => "write" \notin {plan[s].access, plan[u].access}
  /\ \A s \in Steps : \A u \in plan[s].deps : WaveOf(u) < WaveOf(s)

OrchInv ==
  /\ orch.pc \in Waving => orch.wave <= Len(waves)
  /\ orch.pc \in Looping => orch.at <= Len(Wave)
  /\ orch.pc \in {"plan", "persist"} => orch.wave = 1
  /\ orch.refused => orch.pc \in {"drain", "finish"} \cup Closing

\* The loop has come to the start of this step's agent, or past it.
Reached(s) ==
  \/ WaveOf(s) < orch.wave
  \/ /\ WaveOf(s) = orch.wave /\ orch.pc \notin {"plan", "persist", "wave"}
     /\ orch.pc \in Looping => PlaceOf(s) <= orch.at
     /\ orch.pc \in {"accept", "start"} => PlaceOf(s) < orch.at

Current(s) == WaveOf(s) = orch.wave /\ PlaceOf(s) = orch.at

\* A worker works in the wave that is on its way; an agent that is not told to end
\* has a worker that forwards its events or registers it, or the loop has just
\* started it and is about to give it one.
WorkerInv(s) ==
  /\ worker[s].pc \notin {"off", "done"} =>
       WaveOf(s) = orch.wave /\ orch.pc \in Waving \ {"look", "undo"}
  /\ worker[s].pc # "off" => agents[s].life # "none"
  /\ agents[s].life # "none" => Reached(s)
  /\ orch.pc \in {"accepted", "register", "update"} /\ Current(s) =>
       worker[s].pc = "off" /\ agents[s].try = 1 /\ agents[s].life # "none"
  /\ agents[s].life = "live" /\ ~agents[s].told =>
       \/ worker[s].pc \in {"forward", "register"}
       \/ orch.pc \in {"accepted", "register", "update"} /\ Current(s)
  /\ worker[s].pc \in {"again", "start"} => agents[s].life = "gone"
  /\ worker[s].pc = "register" => agents[s].try = 2

\* A step is open only until the results of its wave are recorded, and in a wave only
\* until the loop comes to it, unless it has a worker.  A turn that ends leaves none
\* open, unless its group was refused.
StepInv(s) ==
  /\ step[s] \in Open => WaveOf(s) >= orch.wave /\ orch.pc \notin {"plan", "persist"}
  /\ step[s] \in Open /\ WaveOf(s) = orch.wave /\ worker[s].pc = "off" =>
       /\ orch.pc \in Looping => PlaceOf(s) >= orch.at
       /\ orch.pc \notin {"check", "wait", "look"}
  /\ step[s] \in Open /\ ~orch.refused =>
       orch.pc \notin Closing /\ (orch.pc = "finish" => activeRun # "group")

\* A cancel keeps its mark, or has retired the turn, until the turn comes to its end.
\* So a group is not refused behind a cancel that has closed the steps before they
\* were planned, and a turn that was stopped ends with all of them closed.
CancelInv ==
  /\ api.pc \in {"steps", "kill", "stop", "retire", "finish"} /\ orch.pc \notin Closing =>
       canceled \/ activeRun # "group"
  /\ stopped \/ api.pc = "erase" => activeRun # "group"
  /\ (\E s \in Steps : step[s] \in Open) =>
       /\ api.pc \in {"kill", "stop", "retire", "finish"} =>
            ~orch.refused /\ orch.pc \notin {"start", "accepted", "register", "update"}
       /\ stopped => orch.pc \notin Closing

GroupInv ==
  /\ GroupTypes /\ WavesInv /\ OrchInv /\ CancelInv
  /\ \A s \in Steps : WorkerInv(s) /\ StepInv(s)

\* The facts about the waves are facts of the initial state, and nothing changes them.
LEMMA WavesInit == GroupInit => WavesInv
<1> SUFFICES ASSUME GroupInit PROVE WavesInv
  OBVIOUS
<1> DEFINE In(s, i, j) == i \in 1..Len(waves) /\ j \in 1..Len(waves[i]) /\ waves[i][j] = s
<1>1. Ordered(plan) /\ waves = PlanWaves(plan)
  BY DEF GroupInit, Ordered
<1>2. PlannedTo(plan, waves, N) /\ InWaves(waves) = Steps
  BY <1>1, WavesArePlanned
<1>3. /\ waves \in Seq(Seq(Steps)) /\ Len(waves) \in Nat
      /\ \A i \in 1..Len(waves) : waves[i] \in Seq(Steps) /\ Len(waves[i]) \in Nat
                                  /\ \A j \in 1..Len(waves[i]) : waves[i][j] \in Steps
  BY <1>2, InWavesIs, LenProperties DEF PlannedTo
<1>4. ASSUME NEW s \in Steps PROVE \E i, j : In(s, i, j)
  <2>1. \E i \in 1..Len(waves) : \E j \in 1..Len(waves[i]) : waves[i][j] = s
    BY <1>2, <1>3, InWavesIs
  <2> QED
    BY <2>1
<1>5. ASSUME NEW s, NEW i, NEW j, NEW k, NEW l, In(s, i, j), In(s, k, l)
      PROVE  i = k /\ j = l
  <2>1. \A x, y \in 1..Len(waves) : x # y =>
          \A v \in 1..Len(waves[x]), w \in 1..Len(waves[y]) : waves[x][v] # waves[y][w]
    BY <1>2 DEF PlannedTo
  <2>2. \A x \in 1..Len(waves) : \A v, w \in 1..Len(waves[x]) : v # w => waves[x][v] # waves[x][w]
    BY <1>2 DEF PlannedTo
  <2>3. i = k
    BY <1>5, <2>1, Zenon
  <2> QED
    BY <1>5, <2>2, <2>3, Zenon
<1>6. ASSUME NEW s, NEW i, NEW j, In(s, i, j)
      PROVE  WaveOf(s) = i /\ PlaceOf(s) = j
  <2>1. /\ WaveOf(s) \in 1..Len(waves)
        /\ \E y \in 1..Len(waves[WaveOf(s)]) : waves[WaveOf(s)][y] = s
    BY <1>6, Zenon DEF WaveOf
  <2>2. /\ PlaceOf(s) \in 1..Len(waves[WaveOf(s)])
        /\ waves[WaveOf(s)][PlaceOf(s)] = s
    BY <2>1, Zenon DEF PlaceOf
  <2>3. In(s, WaveOf(s), PlaceOf(s))
    BY <2>1, <2>2
  <2> HIDE DEF In
  <2> QED
    BY <1>5, <1>6, <2>3
<1>7. \A s \in Steps : /\ WaveOf(s) \in 1..Len(waves)
                       /\ PlaceOf(s) \in 1..Len(waves[WaveOf(s)])
                       /\ waves[WaveOf(s)][PlaceOf(s)] = s
  BY <1>4, <1>6
<1>8. \A i \in 1..Len(waves) : \A j \in 1..Len(waves[i]) :
        WaveOf(waves[i][j]) = i /\ PlaceOf(waves[i][j]) = j
  BY <1>6
<1>9. ASSUME NEW s \in Steps, NEW u \in Steps, s # u, WaveOf(s) = WaveOf(u)
      PROVE  "write" \notin {plan[s].access, plan[u].access}
  <2> DEFINE i == WaveOf(s)
             j == PlaceOf(s)
             l == PlaceOf(u)
  <2>1. /\ i \in 1..Len(waves) /\ j \in 1..Len(waves[i]) /\ l \in 1..Len(waves[i])
        /\ waves[i][j] = s /\ waves[i][l] = u
    BY <1>7, <1>9
  <2> HIDE DEF i, j, l
  <2>2. j # l
    BY <1>9, <2>1
  <2> QED
    BY <1>2, <2>1, <2>2 DEF PlannedTo
<1>10. ASSUME NEW s \in Steps, NEW u \in plan[s].deps
       PROVE  WaveOf(u) < WaveOf(s)
  <2> DEFINE i == WaveOf(s)
             j == PlaceOf(s)
  <2>1. i \in 1..Len(waves) /\ j \in 1..Len(waves[i]) /\ waves[i][j] = s
    BY <1>7
  <2> HIDE DEF i, j
  <2>2. \A y \in plan[waves[i][j]].deps :
          \E k \in 1..Len(waves) : k < i /\ \E l \in 1..Len(waves[k]) : waves[k][l] = y
    BY <1>2, <2>1 DEF PlannedTo
  <2>3. PICK k \in 1..Len(waves) : k < i /\ \E l \in 1..Len(waves[k]) : waves[k][l] = u
    BY <2>1, <2>2
  <2>4. WaveOf(u) = k
    BY <1>8, <2>3
  <2> QED
    BY <2>3, <2>4 DEF i
<1>11. plan \in [Steps -> [access : Accesses, deps : SUBSET Steps]]
  BY DEF GroupInit
<1>12. \A i \in 1..Len(waves) : waves[i] # <<>>
  BY <1>2 DEF PlannedTo
<1> QED
  BY <1>3, <1>7, <1>8, <1>9, <1>10, <1>11, <1>12 DEF WavesInv

\* They speak of the plan and its waves only.
LEMMA WavesStay ==
  ASSUME plan' = plan, waves' = waves
  PROVE  /\ \A s : WaveOf(s)' = WaveOf(s) /\ PlaceOf(s)' = PlaceOf(s)
         /\ WavesInv => WavesInv'
<1>1. \A s : WaveOf(s)' = WaveOf(s)
  BY DEF WaveOf
<1>2. \A s : PlaceOf(s)' = PlaceOf(s)
  BY <1>1 DEF PlaceOf
<1> QED
  BY <1>1, <1>2 DEF WavesInv

\* The step the loop over a wave has come to.
LEMMA CurrentStep ==
  ASSUME GroupTypes, WavesInv, OrchInv, orch.pc \in Looping
  PROVE  /\ orch.wave \in 1..Len(waves) /\ Len(Wave) \in Nat /\ orch.at \in 1..Len(Wave)
         /\ Cur \in Steps /\ WaveOf(Cur) = orch.wave /\ PlaceOf(Cur) = orch.at
         /\ \A s \in Steps : Current(s) <=> s = Cur
<1>1. /\ orch.wave \in Nat \ {0} /\ orch.at \in Nat \ {0} /\ orch.wave <= Len(waves)
      /\ orch.at <= Len(Wave) /\ waves \in Seq(Seq(Steps)) /\ Len(waves) \in Nat
  BY LenProperties DEF GroupTypes, Loops, OrchInv, WavesInv, Waving
<1>2. orch.wave \in 1..Len(waves)
  BY <1>1
<1>3. Wave \in Seq(Steps) /\ Len(Wave) \in Nat
  BY <1>1, <1>2, ElementOfSeq, LenProperties DEF Wave
<1>4. orch.at \in 1..Len(Wave) /\ Cur \in Steps
  BY <1>1, <1>3, ElementOfSeq DEF Cur
<1>5. WaveOf(Cur) = orch.wave /\ PlaceOf(Cur) = orch.at
  BY <1>2, <1>4 DEF WavesInv, Cur, Wave
<1>6. ASSUME NEW s \in Steps, Current(s) PROVE s = Cur
  BY <1>6 DEF WavesInv, Current, Cur, Wave
<1> QED
  BY <1>2, <1>3, <1>4, <1>5, <1>6 DEF Current

\* The numbers of a step's wave and place.
LEMMA Numbers ==
  ASSUME GroupTypes, WavesInv, NEW s \in Steps
  PROVE  /\ WaveOf(s) \in Nat \ {0} /\ PlaceOf(s) \in Nat \ {0} /\ WaveOf(s) <= Len(waves)
         /\ Len(waves) \in Nat /\ orch.wave \in Nat \ {0} /\ orch.at \in Nat \ {0}
         /\ WaveOf(s) = orch.wave => PlaceOf(s) <= Len(Wave) /\ Len(Wave) \in Nat
<1>1. /\ waves \in Seq(Seq(Steps)) /\ Len(waves) \in Nat /\ WaveOf(s) \in 1..Len(waves)
      /\ PlaceOf(s) \in 1..Len(waves[WaveOf(s)])
  BY LenProperties DEF WavesInv
<1>2. waves[WaveOf(s)] \in Seq(Steps) /\ Len(waves[WaveOf(s)]) \in Nat
  BY <1>1, ElementOfSeq, LenProperties
<1> QED
  BY <1>1, <1>2 DEF GroupTypes, Loops, Wave

-----------------------------------------------------------------------------
(* Groups of workers: the steps *)

\* No step starts an agent, opens a step of the plan or moves the loop or a worker,
\* if it is one of a user, of the next turn or of an agent.
LEMMA OthersMove ==
  ASSUME GroupInv, plan' = plan, waves' = waves, orch' = orch, worker' = worker,
         \A s \in Steps :
           /\ agents'[s].try = agents[s].try /\ (agents'[s].life = "none" <=> agents[s].life = "none")
           /\ agents[s].life = "gone" => agents'[s].life = "gone"
           /\ agents'[s].life = "live" /\ ~agents'[s].told => agents[s].life = "live" /\ ~agents[s].told,
         \A s \in Steps : step'[s] \in Open => step[s] \in Open,
         activeRun # "group" => activeRun' # "group"
  PROVE  WavesInv' /\ OrchInv' /\ \A s \in Steps : WorkerInv(s)' /\ StepInv(s)'
<1>1. WavesInv' /\ \A s : WaveOf(s)' = WaveOf(s) /\ PlaceOf(s)' = PlaceOf(s)
  BY WavesStay DEF GroupInv
<1>2. OrchInv'
  BY DEF GroupInv, OrchInv, Wave
<1>3. ASSUME NEW s \in Steps PROVE WorkerInv(s)'
  <2>1. (Reached(s)' <=> Reached(s)) /\ (Current(s)' <=> Current(s))
    BY <1>1 DEF Reached, Current
  <2>2. WorkerInv(s)
    BY DEF GroupInv
  <2> QED
    BY <1>1, <2>1, <2>2 DEF WorkerInv
<1>4. ASSUME NEW s \in Steps PROVE StepInv(s)'
  <2>1. StepInv(s)
    BY DEF GroupInv
  <2> QED
    BY <1>1, <2>1 DEF StepInv
<1> QED
  BY <1>1, <1>2, <1>3, <1>4

\* What the cancel of handles does to the agents.
LEMMA HandlesCanceled ==
  ASSUME GroupTypes, NEW H, agents' = CancelHandles(H)
  PROVE  /\ agents' \in [Steps -> [try : 0..2, life : {"none", "live", "gone"}, told : BOOLEAN]]
         /\ \A s \in Steps :
              /\ agents'[s].try = agents[s].try /\ agents'[s].life = agents[s].life
              /\ agents[s].told => agents'[s].told
              /\ <<s, agents[s].try>> \in H => agents'[s].told
<1>1. \A s \in Steps :
        /\ agents'[s] \in [try : 0..2, life : {"none", "live", "gone"}, told : BOOLEAN]
        /\ agents'[s].try = agents[s].try /\ agents'[s].life = agents[s].life
        /\ agents[s].told => agents'[s].told
        /\ <<s, agents[s].try>> \in H => agents'[s].told
  <2> SUFFICES ASSUME NEW s \in Steps
               PROVE  /\ agents'[s] \in [try : 0..2, life : {"none", "live", "gone"}, told : BOOLEAN]
                      /\ agents'[s].try = agents[s].try /\ agents'[s].life = agents[s].life
                      /\ agents[s].told => agents'[s].told
                      /\ <<s, agents[s].try>> \in H => agents'[s].told
    OBVIOUS
  <2>1. agents[s] \in [try : 0..2, life : {"none", "live", "gone"}, told : BOOLEAN]
    BY DEF GroupTypes
  <2>2. agents'[s] = IF <<s, agents[s].try>> \in H THEN [agents[s] EXCEPT !.told = TRUE] ELSE agents[s]
    BY DEF CancelHandles
  <2> QED
    BY <2>1, <2>2
<1>2. agents' = [s \in Steps |-> agents'[s]]
  BY DEF CancelHandles
<1> QED
  BY <1>1, <1>2

\* What an update of the ledger does to the steps.
LEMMA StepsPatched ==
  ASSUME GroupTypes, NEW S, NEW st \in {"running", "failed", "canceled"}, step' = Patched(S, st)
  PROVE  /\ step' \in [Steps -> Open \cup {"none", "failed", "succeeded", "canceled"}]
         /\ \A s \in Steps : /\ step'[s] \in Open => step[s] \in Open
                             /\ st # "running" /\ s \in S => step'[s] \notin Open
                             /\ s \notin S => step'[s] = step[s]
BY DEF GroupTypes, Patched, Open

-----------------------------------------------------------------------------
(* Groups of workers: users and the next turn *)

\* The steps of a request.
ApiStep ==
  \/ NewRequest \/ CancelMark \/ CancelSteps \/ CancelKill \/ CancelStop \/ CancelRetire
  \/ CancelFinish \/ DeleteForget \/ DeleteErase \/ Interrupt \/ Halt \/ Unmark \/ Deliver

\* A request keeps its form.
LEMMA ApiRecords ==
  ASSUME NEW q \in Requests, NEW p \in Places, NEW H \in SUBSET (Steps \X (1..2)), NEW d \in BOOLEAN
  PROVE  /\ Off \in Requests /\ Off.pc = "off"
         /\ [q EXCEPT !.pc = p] \in Requests /\ [q EXCEPT !.pc = p].pc = p
         /\ [q EXCEPT !.pc = p, !.snap = H] \in Requests /\ [q EXCEPT !.pc = p, !.snap = H].pc = p
         /\ [Off EXCEPT !.pc = p, !.deletes = d] \in Requests
         /\ [Off EXCEPT !.pc = p, !.deletes = d].pc = p
BY DEF Requests, Places, Off

\* Where a request goes from where it is.
LEMMA ApiGoesOn ==
  ASSUME GroupTypes, ApiStep
  PROVE  /\ api' \in Requests
         /\ NewRequest => api'.pc \in {"cancel", "interrupt", "forget"}
         /\ CancelMark => api'.pc = IF Committing THEN "off" ELSE "steps"
         /\ CancelSteps => api'.pc = "kill"
         /\ CancelKill => api'.pc \in {"finish", "stop"}
         /\ CancelStop => api'.pc = "retire"
         /\ CancelRetire \/ CancelFinish =>
              api'.pc = (IF api.deletes THEN "forget" ELSE "off") /\ stopped' = (stopped \/ ~api.deletes)
         /\ DeleteForget => api'.pc = "erase"
         /\ DeleteErase \/ Deliver => api'.pc = "off"
         /\ Interrupt => api'.pc \in {"off", "halt"}
         /\ Halt => api'.pc \in {"off", "unmark"}
         /\ Unmark => api'.pc \in {"off", "deliver"}
<1>0. /\ api \in Requests /\ group \in SUBSET (Steps \X (1..2)) /\ {} \in SUBSET (Steps \X (1..2))
      /\ api.pc \in Places /\ api.deletes \in BOOLEAN /\ stopped \in BOOLEAN
      /\ Ops \subseteq {"cancel", "interrupt", "delete"}
  BY GroupAssumption DEF GroupAssumption, GroupTypes, Requests
<1>1. \A p \in Places : \A H \in SUBSET (Steps \X (1..2)) : \A d \in BOOLEAN :
        /\ Off \in Requests /\ Off.pc = "off"
        /\ [api EXCEPT !.pc = p] \in Requests /\ [api EXCEPT !.pc = p].pc = p
        /\ [api EXCEPT !.pc = p, !.snap = H] \in Requests /\ [api EXCEPT !.pc = p, !.snap = H].pc = p
        /\ [Off EXCEPT !.pc = p, !.deletes = d] \in Requests
        /\ [Off EXCEPT !.pc = p, !.deletes = d].pc = p
  BY <1>0, ApiRecords
<1>2. ASSUME NEW p \in Places
      PROVE  /\ Off \in Requests /\ Off.pc = "off"
             /\ [api EXCEPT !.pc = p] \in Requests /\ [api EXCEPT !.pc = p].pc = p
             /\ [api EXCEPT !.pc = p, !.snap = group] \in Requests
             /\ [api EXCEPT !.pc = p, !.snap = group].pc = p
             /\ [api EXCEPT !.pc = p, !.snap = {}] \in Requests
             /\ [api EXCEPT !.pc = p, !.snap = {}].pc = p
  BY <1>0, <1>1
<1>20. Off \in Requests /\ Off.pc = "off"
  BY <1>2 DEF Places
<1>3. CASE NewRequest
  <2>1. PICK p \in {"cancel", "interrupt", "forget"}, d \in BOOLEAN :
          api' = [Off EXCEPT !.pc = p, !.deletes = d]
    BY <1>0, <1>3 DEF NewRequest
  <2>2. p \in Places
    BY DEF Places
  <2>3. api.pc = "off"
    BY <1>3 DEF NewRequest, Api
  <2> QED
    BY <1>0, <1>1, <2>1, <2>2, <2>3, ZenonT(60)
       DEF CancelMark, CancelSteps, CancelKill, CancelStop, CancelRetire,
           CancelFinish, DeleteForget, DeleteErase, Interrupt, Halt, Unmark, Deliver, Api
<1>4. CASE CancelRetire \/ CancelFinish
  <2>1. api.pc \in {"retire", "finish"} /\ CancelReturns
    BY <1>4 DEF CancelRetire, CancelFinish, Api
  <2>2. CASE api.deletes
    <3>1. api' = [api EXCEPT !.pc = "forget", !.snap = {}] /\ stopped' = stopped
      BY <2>1, <2>2 DEF CancelReturns
    <3>2. "forget" \in Places
      BY DEF Places
    <3>3. api' \in Requests /\ api'.pc = "forget"
      BY <1>2, <3>1, <3>2
    <3> QED
      BY <1>0, <2>1, <2>2, <3>1, <3>3
         DEF NewRequest, CancelMark, CancelSteps, CancelKill, CancelStop, DeleteForget, DeleteErase,
             Interrupt, Halt, Unmark, Deliver, Api
  <2>3. CASE ~api.deletes
    <3>1. api' = Off /\ stopped' = TRUE
      BY <2>1, <2>3 DEF CancelReturns
    <3>2. api' \in Requests /\ api'.pc = "off"
      BY <1>0, <1>1, <3>1
    <3> QED
      BY <1>0, <2>1, <2>3, <3>1, <3>2
         DEF NewRequest, CancelMark, CancelSteps, CancelKill, CancelStop, DeleteForget, DeleteErase,
             Interrupt, Halt, Unmark, Deliver, Api
  <2> QED
    BY <2>2, <2>3
<1>5. /\ NewRequest => api.pc = "off"
      /\ CancelMark => api.pc = "cancel"
      /\ CancelSteps => api.pc = "steps"
      /\ CancelKill => api.pc = "kill"
      /\ CancelStop => api.pc = "stop"
      /\ CancelRetire => api.pc = "retire"
      /\ CancelFinish => api.pc = "finish"
      /\ DeleteForget => api.pc = "forget"
      /\ DeleteErase => api.pc = "erase"
      /\ Interrupt => api.pc = "interrupt"
      /\ Halt => api.pc = "halt"
      /\ Unmark => api.pc = "unmark"
      /\ Deliver => api.pc = "deliver"
  BY DEF NewRequest, CancelMark, CancelSteps, CancelKill, CancelStop, CancelRetire, CancelFinish,
         DeleteForget, DeleteErase, Interrupt, Halt, Unmark, Deliver, Api
<1>6. {"off", "steps", "kill", "finish", "stop", "retire", "erase", "halt", "unmark", "deliver"}
        \subseteq Places
  BY DEF Places
<1>7. CASE CancelMark
  <2>1. api' = (IF Committing THEN Off ELSE [api EXCEPT !.pc = "steps"])
    BY <1>7 DEF CancelMark, ApiGoes
  <2>2. api.pc = "cancel"
    BY <1>7 DEF CancelMark, Api
  <2> QED
    BY <1>2, <1>5, <1>6, <1>20, <2>1, <2>2
<1>8. CASE CancelSteps
  BY <1>1, <1>2, <1>5, <1>6, <1>8, <1>0 DEF CancelSteps, ApiGoes
<1>9. CASE CancelKill
  <2>1. \/ api' = [api EXCEPT !.pc = "finish"]
        \/ api' = [api EXCEPT !.pc = "finish", !.snap = group]
        \/ api' = [api EXCEPT !.pc = "stop", !.snap = group]
    BY <1>9 DEF CancelKill, ApiGoes
  <2>4. ASSUME NEW p \in {"finish", "stop"}, api' = [api EXCEPT !.pc = p, !.snap = group]
        PROVE  api' \in Requests /\ api'.pc = p
    BY <1>2, <1>6, <2>4
  <2>5. ASSUME api' = [api EXCEPT !.pc = "finish"]
        PROVE  api' \in Requests /\ api'.pc = "finish"
    BY <1>2, <1>6, <2>5
  <2>3. api' \in Requests /\ api'.pc \in {"finish", "stop"}
    BY <2>1, <2>4, <2>5
  <2>2. api.pc = "kill"
    BY <1>9 DEF CancelKill, Api
  <2> QED
    BY <1>5, <2>2, <2>3
<1>10. CASE CancelStop
  BY <1>1, <1>2, <1>5, <1>6, <1>10, <1>0 DEF CancelStop, ApiGoes
<1>11. CASE DeleteForget
  BY <1>1, <1>2, <1>5, <1>6, <1>11, <1>0 DEF DeleteForget, ApiGoes
<1>12. CASE DeleteErase
  BY <1>1, <1>2, <1>5, <1>6, <1>12, <1>0 DEF DeleteErase, ApiGoes
<1>13. CASE Interrupt
  <2>1. api' = Off \/ api' = [api EXCEPT !.pc = "halt", !.snap = group]
    BY <1>13 DEF Interrupt, ApiGoes
  <2>3. api' \in Requests /\ api'.pc \in {"off", "halt"}
    BY <1>2, <1>6, <1>20, <2>1, ZenonT(60)
  <2>2. api.pc = "interrupt"
    BY <1>13 DEF Interrupt, Api
  <2> QED
    BY <1>5, <2>2, <2>3
<1>14. CASE Halt
  <2>1. api' = Off \/ api' = [api EXCEPT !.pc = "unmark"]
    BY <1>14 DEF Halt, ApiGoes
  <2>3. api' \in Requests /\ api'.pc \in {"off", "unmark"}
    BY <1>2, <1>6, <1>20, <2>1
  <2>2. api.pc = "halt"
    BY <1>14 DEF Halt, Api
  <2> QED
    BY <1>5, <2>2, <2>3
<1>15. CASE Unmark
  <2>1. api' = Off \/ api' = [api EXCEPT !.pc = "deliver"]
    BY <1>15 DEF Unmark, ApiGoes
  <2>3. api' \in Requests /\ api'.pc \in {"off", "deliver"}
    BY <1>2, <1>6, <1>20, <2>1
  <2>2. api.pc = "unmark"
    BY <1>15 DEF Unmark, Api
  <2> QED
    BY <1>5, <2>2, <2>3
<1>16. CASE Deliver
  BY <1>1, <1>2, <1>5, <1>6, <1>16, <1>0 DEF Deliver, ApiGoes
<1> QED
  BY <1>3, <1>4, <1>7, <1>8, <1>9, <1>10, <1>11, <1>12, <1>13, <1>14, <1>15, <1>16 DEF ApiStep

\* The types after a step of a request.
LEMMA ApiTypes ==
  ASSUME GroupTypes, ApiStep
  PROVE  GroupTypes'
<1>0. /\ api' \in Requests /\ canceled \in BOOLEAN /\ parked \in BOOLEAN /\ stopped \in BOOLEAN
      /\ raced \in BOOLEAN
  BY ApiGoesOn DEF GroupTypes
<1>1. ops' \in 0..MaxOps
  <2>1. ops \in 0..MaxOps /\ MaxOps \in Nat
    BY GroupAssumption DEF GroupTypes, GroupAssumption
  <2>2. CASE NewRequest
    <3>1. ops < MaxOps /\ ops' = ops + 1
      BY <2>2 DEF NewRequest
    <3> QED
      BY <2>1, <3>1
  <2>3. CASE ~NewRequest
    <3>1. ops' = ops
      BY <2>3 DEF ApiStep, CancelMark, CancelSteps, CancelKill, CancelStop, CancelRetire, CancelFinish,
         DeleteForget, DeleteErase, Interrupt, Halt, Unmark, Deliver
    <3> QED
      BY <2>1, <3>1
  <2> QED
    BY <2>2, <2>3
<1>2. agents' \in [Steps -> [try : 0..2, life : {"none", "live", "gone"}, told : BOOLEAN]]
  <2>1. CASE agents' = agents
    BY <2>1 DEF GroupTypes
  <2>2. CASE CancelStop \/ Halt
    BY <2>2, HandlesCanceled DEF CancelStop, Halt
  <2> QED
    BY <2>1, <2>2
       DEF ApiStep, NewRequest, CancelMark, CancelSteps, CancelKill, CancelRetire,
           CancelFinish, DeleteForget, DeleteErase, Interrupt, Unmark, Deliver
<1>3. step' \in [Steps -> Open \cup {"none", "failed", "succeeded", "canceled"}]
  <2>1. CASE step' = step
    BY <2>1 DEF GroupTypes
  <2>2. CASE CancelSteps
    BY <2>2, StepsPatched DEF CancelSteps
  <2>3. CASE DeleteErase
    BY <2>3 DEF DeleteErase
  <2> QED
    BY <2>1, <2>2, <2>3
       DEF ApiStep, NewRequest, CancelMark, CancelKill, CancelStop, CancelRetire,
           CancelFinish, DeleteForget, Interrupt, Halt, Unmark, Deliver
<1>4. /\ canceled' \in BOOLEAN /\ parked' \in BOOLEAN /\ stopped' \in BOOLEAN /\ raced' \in BOOLEAN
  BY <1>0 DEF ApiStep, NewRequest, CancelMark, CancelSteps, CancelKill, CancelStop, CancelRetire,
     CancelReturns, CancelFinish, DeleteForget, DeleteErase, Interrupt, Halt, Unmark, Deliver, task
<1>5. /\ rowStatus' \in {"running", "queued", "canceled", "ended", "deleted"}
      /\ activeRun' \in {"group", "next", "none"} /\ group' \subseteq Steps \X (1..2)
      /\ orch' = orch /\ worker' = worker
  BY DEF GroupTypes, ApiStep, NewRequest, CancelMark, CancelSteps, CancelKill, CancelStop, CancelRetire,
     CancelFinish, DeleteForget, DeleteErase, Interrupt, Halt, Unmark, Deliver, Delivered, task
<1> QED
  BY <1>0, <1>1, <1>2, <1>3, <1>4, <1>5 DEF GroupTypes

\* A cancel marks the turn before it closes its steps, and retires it after.
LEMMA ApiCancels ==
  ASSUME GroupInv, ApiStep
  PROVE  CancelInv'
<1>0. /\ CancelInv /\ OrchInv /\ GroupTypes /\ canceled \in BOOLEAN /\ stopped \in BOOLEAN
      /\ api.deletes \in BOOLEAN /\ orch' = orch
  BY DEF GroupInv, GroupTypes, Requests, ApiStep, NewRequest, CancelMark, CancelSteps, CancelKill,
     CancelStop, CancelRetire, CancelFinish, DeleteForget, DeleteErase, Interrupt, Halt, Unmark, Deliver
<1>00. (\E s \in Steps : step[s] \in Open) /\ ~orch.refused => orch.pc \notin Closing
  BY DEF GroupInv, StepInv
<1> USE <1>0, ApiGoesOn DEF ApiStep, task, Api, CancelInv
<1>1. CASE NewRequest
  BY <1>1 DEF NewRequest
<1>2. CASE CancelMark
  BY <1>2 DEF CancelMark, Committing, Closing
<1>3. CASE CancelSteps
  <2>1. \A s \in Steps : step'[s] \notin Open
    BY <1>3, StepsPatched DEF CancelSteps
  <2> QED
    BY <1>3, <2>1 DEF CancelSteps
<1>4. CASE CancelKill
  BY <1>4 DEF CancelKill
<1>5. CASE CancelStop
  BY <1>5 DEF CancelStop
<1>6. CASE CancelRetire
  BY <1>00, <1>6 DEF CancelRetire
<1>7. CASE CancelFinish
  BY <1>00, <1>7 DEF CancelFinish
<1>8. CASE DeleteForget
  BY <1>8 DEF DeleteForget
<1>9. CASE DeleteErase
  BY <1>9 DEF DeleteErase, Open
<1>10. CASE Interrupt
  BY <1>10 DEF Interrupt
<1>11. CASE Halt
  BY <1>11 DEF Halt
<1>12. CASE Unmark
  BY <1>12 DEF Unmark
<1>13. CASE Deliver
  BY <1>13 DEF Deliver, Delivered
<1> QED
  BY <1>1, <1>2, <1>3, <1>4, <1>5, <1>6, <1>7, <1>8, <1>9, <1>10, <1>11, <1>12, <1>13

\* None of them moves the loop or a worker, or opens a step.
LEMMA ApiKeeps ==
  ASSUME GroupInv, ApiStep
  PROVE  GroupInv'
<1>0. GroupTypes /\ GroupTypes' /\ CancelInv'
  BY ApiTypes, ApiCancels DEF GroupInv
<1> DEFINE Frame ==
      /\ plan' = plan /\ waves' = waves /\ orch' = orch /\ worker' = worker
      /\ activeRun # "group" => activeRun' # "group"
    Same == agents' = agents
    Less == \A s \in Steps : step'[s] \in Open => step[s] \in Open
<1>1. Frame
  BY DEF ApiStep, NewRequest, CancelMark, CancelSteps, CancelKill, CancelStop, CancelRetire,
         CancelFinish, DeleteForget, DeleteErase, Interrupt, Halt, Unmark, Deliver, Delivered, task
<1>2. \A s \in Steps :
        /\ agents'[s].try = agents[s].try /\ agents'[s].life = agents[s].life
        /\ agents[s].told => agents'[s].told
  <2>1. CASE agents' = agents
    BY <2>1
  <2>2. CASE CancelStop \/ Halt
    BY <1>0, <2>2, HandlesCanceled DEF CancelStop, Halt
  <2> QED
    BY <2>1, <2>2
       DEF ApiStep, NewRequest, CancelMark, CancelSteps, CancelKill, CancelRetire,
           CancelFinish, DeleteForget, DeleteErase, Interrupt, Unmark, Deliver
<1>3. Less
  <2>1. CASE step' = step
    BY <2>1
  <2>2. CASE CancelSteps
    BY <1>0, <2>2, StepsPatched DEF CancelSteps
  <2>3. CASE DeleteErase
    BY <2>3 DEF DeleteErase, Open
  <2> QED
    BY <2>1, <2>2, <2>3
       DEF ApiStep, NewRequest, CancelMark, CancelKill, CancelStop, CancelRetire,
           CancelFinish, DeleteForget, Interrupt, Halt, Unmark, Deliver
<1>4. \A s \in Steps :
        /\ agents'[s].try = agents[s].try /\ (agents'[s].life = "none" <=> agents[s].life = "none")
        /\ agents[s].life = "gone" => agents'[s].life = "gone"
        /\ agents'[s].life = "live" /\ ~agents'[s].told => agents[s].life = "live" /\ ~agents[s].told
  BY <1>2
<1>5. WavesInv' /\ OrchInv' /\ \A s \in Steps : WorkerInv(s)' /\ StepInv(s)'
  BY <1>1, <1>3, <1>4, OthersMove
<1> QED
  BY <1>0, <1>5 DEF GroupInv

\* The next turn has an execution of its own.
LEMMA NextTurnKeeps ==
  ASSUME GroupInv, NextTurn
  PROVE  GroupInv'
<1>1. GroupTypes'
  BY DEF GroupInv, GroupTypes, NextTurn
<1>2. CancelInv'
  BY DEF GroupInv, CancelInv, NextTurn
<1>3. WavesInv' /\ OrchInv' /\ \A s \in Steps : WorkerInv(s)' /\ StepInv(s)'
  BY OthersMove DEF NextTurn
<1> QED
  BY <1>1, <1>2, <1>3 DEF GroupInv

\* An agent that ends is not started again by that.
LEMMA AgentEndsKeeps ==
  ASSUME GroupInv, NEW x \in Steps, AgentEnds(x)
  PROVE  GroupInv'
<1>0. GroupTypes /\ CancelInv
  BY DEF GroupInv
<1>1. agents' \in [Steps -> [try : 0..2, life : {"none", "live", "gone"}, told : BOOLEAN]]
  BY <1>0 DEF GroupTypes, AgentEnds
<1>2. GroupTypes'
  BY <1>0, <1>1 DEF GroupTypes, AgentEnds, task
<1>3. CancelInv'
  BY <1>0 DEF CancelInv, AgentEnds, task
<1>4. \A s \in Steps :
        /\ agents'[s].try = agents[s].try /\ (agents'[s].life = "none" <=> agents[s].life = "none")
        /\ agents[s].life = "gone" => agents'[s].life = "gone"
        /\ agents'[s].life = "live" /\ ~agents'[s].told => agents[s].life = "live" /\ ~agents[s].told
  BY <1>0 DEF GroupTypes, AgentEnds
<1>5. WavesInv' /\ OrchInv' /\ \A s \in Steps : WorkerInv(s)' /\ StepInv(s)'
  BY <1>4, OthersMove DEF AgentEnds, task
<1> QED
  BY <1>2, <1>3, <1>5 DEF GroupInv

-----------------------------------------------------------------------------
(* Groups of workers: the workers *)

\* One worker that works goes on, or is done.
LEMMA WorkerMoves ==
  ASSUME GroupInv, NEW x \in Steps, NEW p, NEW b \in BOOLEAN,
         worker[x].pc \notin {"off", "done"}, WorkerGoes(x, p, b),
         p \in {"forward", "again", "start", "register", "done"},
         plan' = plan, waves' = waves, orch' = orch, api' = api, step' = step, task' = task,
         stopped' = stopped, raced' = raced, ops' = ops, group' \subseteq Steps \X (1..2),
         agents' \in [Steps -> [try : 0..2, life : {"none", "live", "gone"}, told : BOOLEAN]],
         \A s \in Steps : s # x => agents'[s] = agents[s],
         agents'[x].life # "none",
         agents'[x].life = "live" /\ ~agents'[x].told => p \in {"forward", "register"},
         p \in {"again", "start"} => agents'[x].life = "gone",
         p = "register" => agents'[x].try = 2
  PROVE  GroupInv'
<1>0. /\ GroupTypes /\ WavesInv /\ OrchInv /\ CancelInv
      /\ \A s \in Steps : WorkerInv(s) /\ StepInv(s)
  BY DEF GroupInv
<1>1. WavesInv' /\ \A s : WaveOf(s)' = WaveOf(s) /\ PlaceOf(s)' = PlaceOf(s)
  BY <1>0, WavesStay
<1>2. OrchInv'
  BY <1>0 DEF OrchInv, Wave
<1>3. CancelInv'
  BY <1>0 DEF CancelInv, task
<1>4. /\ worker'[x].pc = p
      /\ \A s \in Steps : s # x => worker'[s] = worker[s]
      /\ worker' \in [Steps -> [pc : {"off", "forward", "again", "start", "register", "done"},
                                failed : BOOLEAN]]
  BY <1>0 DEF GroupTypes, WorkerGoes
<1>5. GroupTypes'
  BY <1>0, <1>4 DEF GroupTypes, task
<1>6. ASSUME NEW s \in Steps PROVE WorkerInv(s)'
  <2>1. (Reached(s)' <=> Reached(s)) /\ (Current(s)' <=> Current(s))
    BY <1>1 DEF Reached, Current
  <2>2. WorkerInv(s)
    BY <1>0
  <2>3. CASE s # x
    BY <1>1, <1>4, <2>1, <2>2, <2>3 DEF WorkerInv
  <2>4. CASE s = x
    BY <1>1, <1>4, <2>1, <2>2, <2>4 DEF WorkerInv
  <2> QED
    BY <2>3, <2>4
<1>7. ASSUME NEW s \in Steps PROVE StepInv(s)'
  <2>1. StepInv(s)
    BY <1>0
  <2>2. worker'[s].pc = "off" => worker[s].pc = "off"
    BY <1>4
  <2> QED
    BY <1>1, <2>1, <2>2 DEF StepInv, task
<1> QED
  BY <1>1, <1>2, <1>3, <1>5, <1>6, <1>7 DEF GroupInv

\* Every step of a worker is of this kind.
LEMMA WorkerKeeps ==
  ASSUME GroupInv, NEW x \in Steps, Worker(x)
  PROVE  GroupInv'
<1>0. GroupTypes /\ WorkerInv(x) /\ task' = task
  BY DEF GroupInv, Worker, Notice, EventsEnd, TryAgain, StartAgain, RegisterAgain, task
<1>1. /\ agents \in [Steps -> [try : 0..2, life : {"none", "live", "gone"}, told : BOOLEAN]]
      /\ agents[x] \in [try : 0..2, life : {"none", "live", "gone"}, told : BOOLEAN]
      /\ group \subseteq Steps \X (1..2) /\ <<x, 2>> \in Steps \X (1..2)
  BY <1>0 DEF GroupTypes
<1>2. CASE Notice(x)
  <2>1. agents' = CancelHandles({<<x, agents[x].try>>})
    BY <1>2 DEF Notice
  <2>2. /\ \A s \in Steps : s # x => agents'[s] = agents[s]
        /\ agents'[x].life = agents[x].life /\ agents'[x].told
        /\ agents' \in [Steps -> [try : 0..2, life : {"none", "live", "gone"}, told : BOOLEAN]]
    BY <1>0, <2>1, HandlesCanceled DEF CancelHandles
  <2> QED
    BY <1>0, <1>1, <1>2, <2>2, WorkerMoves DEF Notice, WorkerAt, WorkerInv
<1>3. CASE EventsEnd(x)
  <2>1. PICK p \in {"done", "again"}, b \in BOOLEAN : WorkerGoes(x, p, b)
    BY <1>3 DEF EventsEnd
  <2> QED
    BY <1>0, <1>1, <1>3, <2>1, WorkerMoves DEF EventsEnd, WorkerAt
<1>4. CASE TryAgain(x)
  <2>1. PICK p \in {"done", "start"}, b \in BOOLEAN : WorkerGoes(x, p, b)
    BY <1>4 DEF TryAgain
  <2> QED
    BY <1>0, <1>1, <1>4, <2>1, WorkerMoves DEF TryAgain, WorkerAt, WorkerInv
<1>5. CASE StartAgain(x)
  <2>1. CASE agents' = agents /\ WorkerGoes(x, "done", TRUE)
    BY <1>0, <1>1, <1>5, <2>1, WorkerMoves DEF StartAgain, WorkerAt, WorkerInv
  <2>2. CASE /\ agents' = [agents EXCEPT ![x] = [try |-> 2, life |-> "live", told |-> FALSE]]
             /\ WorkerGoes(x, "register", FALSE)
    <3>1. /\ agents' \in [Steps -> [try : 0..2, life : {"none", "live", "gone"}, told : BOOLEAN]]
          /\ \A s \in Steps : s # x => agents'[s] = agents[s]
          /\ agents'[x].try = 2 /\ agents'[x].life = "live"
      BY <1>1, <2>2
    <3> QED
      BY <1>0, <1>1, <1>5, <2>2, <3>1, WorkerMoves DEF StartAgain, WorkerAt
  <2> QED
    BY <1>5, <2>1, <2>2 DEF StartAgain
<1>6. CASE RegisterAgain(x)
  <2>1. CASE Accepts
    <3>1. WorkerGoes(x, "forward", FALSE) /\ agents' = agents /\ group' = group \cup {<<x, 2>>}
      BY <1>6, <2>1 DEF RegisterAgain
    <3>2. group' \subseteq Steps \X (1..2)
      BY <1>1, <3>1
    <3> QED
      BY <1>0, <1>1, <1>6, <3>1, <3>2, WorkerMoves DEF RegisterAgain, WorkerAt, WorkerInv
  <2>2. CASE ~Accepts
    <3>1. /\ WorkerGoes(x, "done", TRUE) /\ agents' = CancelHandles({<<x, 2>>})
          /\ group' = group /\ agents[x].try = 2
      BY <1>0, <1>6, <2>2 DEF RegisterAgain, WorkerAt, WorkerInv
    <3>2. /\ \A s \in Steps : s # x => agents'[s] = agents[s]
          /\ agents'[x].life = agents[x].life /\ agents'[x].told
          /\ agents' \in [Steps -> [try : 0..2, life : {"none", "live", "gone"}, told : BOOLEAN]]
      BY <1>0, <3>1, HandlesCanceled DEF CancelHandles
    <3> QED
      BY <1>0, <1>1, <1>6, <3>1, <3>2, WorkerMoves DEF RegisterAgain, WorkerAt, WorkerInv
  <2> QED
    BY <2>1, <2>2
<1> QED
  BY <1>2, <1>3, <1>4, <1>5, <1>6 DEF Worker

-----------------------------------------------------------------------------
(* Groups of workers: the loop over the waves *)

\* What the steps of the loop have in common.
LoopFrame ==
  /\ plan' = plan /\ waves' = waves /\ api' = api /\ stopped' = stopped /\ raced' = raced /\ ops' = ops

\* Goto, and the next of a wave's steps.
LEMMA Going ==
  ASSUME GroupTypes, NEW p \in Stations, Goto(p)
  PROVE  /\ orch' \in Loops /\ orch'.pc = p /\ orch'.wave = orch.wave /\ orch'.at = orch.at
         /\ orch'.refused = orch.refused
<1>1. orch \in Loops /\ orch' = [orch EXCEPT !.pc = p]
  BY DEF GroupTypes, Goto
<1> QED
  BY <1>1 DEF Loops

\* The loop is at the next step of the wave, or through with it.
LEMMA GoingOn ==
  ASSUME GroupTypes, NextStep
  PROVE  /\ orch' \in Loops /\ orch'.pc = (IF orch.at < Len(Wave) THEN "accept" ELSE "check")
         /\ orch'.wave = orch.wave /\ orch'.at = orch.at + 1 /\ orch'.refused = orch.refused
<1>1. {"accept", "check"} \subseteq Stations
  BY DEF Stations, Waving, Looping
<1> DEFINE p == IF orch.at < Len(Wave) THEN "accept" ELSE "check"
<1>2. orch \in Loops /\ p \in Stations /\ orch' = [orch EXCEPT !.at = @ + 1, !.pc = p]
  BY <1>1 DEF GroupTypes, NextStep
<1> HIDE DEF p
<1>4. orch.at + 1 \in Nat \ {0}
  BY <1>2 DEF Loops
<1>3. /\ orch' \in Loops /\ orch'.pc = p /\ orch'.wave = orch.wave /\ orch'.at = orch.at + 1
      /\ orch'.refused = orch.refused
  BY <1>2, <1>4 DEF Loops
<1> QED
  BY <1>3 DEF p

\* The loop goes to its next place, and that is all.
LEMMA GoesQuietly ==
  ASSUME GroupInv, LoopFrame, task' = task, group' = group, step' = step, agents' = agents,
         worker' = worker, orch' \in Loops, orch'.wave = orch.wave, orch'.refused = orch.refused,
         \/ orch.pc = "plan" /\ orch'.pc \in {"persist", "finish"} /\ orch'.at = orch.at
            /\ (orch'.pc = "finish" => activeRun # "group")
         \/ orch.pc = "persist" /\ orch'.pc = "finish" /\ orch'.at = orch.at
         \/ orch.pc = "wave" /\ orch'.pc = "finish" /\ orch'.at = orch.at
            /\ (activeRun # "group" \/ orch.wave > Len(waves))
         \/ orch.pc = "wave" /\ orch'.pc = "accept" /\ orch'.at = 1 /\ orch.wave <= Len(waves)
         \/ orch.pc = "accept" /\ orch'.pc = "start" /\ orch'.at = orch.at /\ Accepts
         \/ orch.pc = "accepted" /\ orch'.pc = "register" /\ orch'.at = orch.at /\ Accepts
         \/ orch.pc = "check" /\ orch'.pc = "wait" /\ orch'.at = orch.at
  PROVE  GroupInv'
<1>0. /\ GroupTypes /\ WavesInv /\ OrchInv /\ CancelInv
      /\ \A s \in Steps : WorkerInv(s) /\ StepInv(s)
      /\ orch.pc \in Stations /\ orch.wave \in Nat \ {0} /\ orch.at \in Nat \ {0}
      /\ orch'.pc \in Stations /\ orch'.at \in Nat \ {0}
  BY DEF GroupInv, GroupTypes, Loops
<1>1. WavesInv' /\ \A s : WaveOf(s)' = WaveOf(s) /\ PlaceOf(s)' = PlaceOf(s)
  BY <1>0, WavesStay DEF LoopFrame
<1>2. GroupTypes'
  BY <1>0 DEF GroupTypes, task, LoopFrame
<1>3. Wave' = Wave /\ (orch.wave \in 1..Len(waves) => Len(Wave) \in Nat /\ 1 <= Len(Wave))
  <2>1. ASSUME orch.wave \in 1..Len(waves) PROVE Len(Wave) \in Nat /\ 1 <= Len(Wave)
    <3>1. Wave \in Seq(Steps) /\ Wave # <<>>
      BY <1>0, <2>1, ElementOfSeq DEF WavesInv, Wave
    <3> QED
      BY <3>1, EmptySeq, LenProperties
  <2> QED
    BY <2>1 DEF LoopFrame, Wave
<1>4. OrchInv'
  BY <1>0, <1>3, LenProperties DEF OrchInv, Looping, Waving, Closing, LoopFrame, WavesInv
<1>5. CancelInv'
  BY <1>0 DEF CancelInv, Closing, LoopFrame, task, Accepts, StepInv
<1>6. ASSUME NEW s \in Steps PROVE WorkerInv(s)'
  <2>0. WorkerInv(s) /\ WaveOf(s) \in Nat \ {0} /\ PlaceOf(s) \in Nat \ {0} /\ (Current(s)' <=> WaveOf(s) = orch.wave /\ PlaceOf(s) = orch'.at)
    BY <1>0, <1>1, Numbers DEF Current
  <2>1. agents[s].life # "none" => Reached(s)'
    BY <1>0, <1>1, <2>0 DEF Reached, WorkerInv, Looping
  <2> QED
    BY <1>0, <1>1, <2>0, <2>1 DEF WorkerInv, Current, Waving, Looping
<1>7. ASSUME NEW s \in Steps PROVE StepInv(s)'
  BY <1>0, <1>1, <1>7, Numbers DEF StepInv, WorkerInv, Closing, Looping, task, LoopFrame
<1> QED
  BY <1>1, <1>2, <1>4, <1>5, <1>6, <1>7 DEF GroupInv

\* These steps change the place of the loop only.
LEMMA QuietSteps ==
  ASSUME GroupInv, \/ Plan \/ (Persist /\ Goto("finish")) \/ BeginWave \/ (Accept /\ Accepts)
                   \/ (Accepted /\ Accepts) \/ (Check /\ ~canceled)
  PROVE  GroupInv'
<1>0. GroupTypes /\ {"persist", "finish", "accept", "start", "register", "wait"} \subseteq Stations
      /\ orch.wave \in Nat /\ Len(waves) \in Nat /\ orch \in Loops
  BY LenProperties DEF GroupInv, GroupTypes, Stations, Waving, Looping, Loops, WavesInv
<1>1. CASE Plan
  <2>1. PICK p \in {"persist", "finish"} : Goto(p) /\ (p = "finish" => activeRun # "group")
    BY <1>1 DEF Plan
  <2> QED
    BY <1>0, <1>1, <2>1, Going, GoesQuietly DEF Plan, At, LoopFrame
<1>2. CASE Persist /\ Goto("finish")
  <2>1. step' = step
    <3>1. ~Goto("wave")
      <4>1. orch'.pc = "finish"
        BY <1>0, <1>2, Going
      <4>2. "wave" \in Stations
        BY DEF Stations
      <4> QED
        BY <1>0, <4>1, <4>2, Going
    <3> QED
      BY <1>2, <3>1 DEF Persist
  <2> QED
    BY <1>0, <1>2, <2>1, Going, GoesQuietly DEF Persist, At, LoopFrame
<1>3. CASE BeginWave
  <2>1. CASE Goto("finish") /\ (activeRun # "group" \/ orch.wave > Len(waves))
    BY <1>0, <1>3, <2>1, Going, GoesQuietly DEF BeginWave, At, LoopFrame
  <2>2. CASE orch' = [orch EXCEPT !.pc = "accept", !.at = 1] /\ orch.wave <= Len(waves)
    <3>1. /\ orch' \in Loops /\ orch'.pc = "accept" /\ orch'.wave = orch.wave /\ orch'.at = 1
          /\ orch'.refused = orch.refused
      <4>1. "accept" \in Stations /\ orch \in Loops /\ 1 \in Nat \ {0}
        BY <1>0
      <4> QED
        BY <4>1, <2>2 DEF Loops
    <3> QED
      BY <1>0, <1>3, <2>2, <3>1, GoesQuietly DEF BeginWave, At, LoopFrame
  <2> QED
    BY <1>0, <1>3, <2>1, <2>2 DEF BeginWave
<1>4. CASE Accept /\ Accepts
  <2>1. Goto("start") /\ step' = step
    BY <1>4 DEF Accept
  <2> QED
    BY <1>0, <1>4, <2>1, Going, GoesQuietly DEF Accept, At, LoopFrame
<1>5. CASE Accepted /\ Accepts
  <2>1. Goto("register") /\ step' = step /\ agents' = agents
    BY <1>5 DEF Accepted
  <2> QED
    BY <1>0, <1>5, <2>1, Going, GoesQuietly DEF Accepted, At, LoopFrame
<1>6. CASE Check /\ ~canceled
  <2>1. Goto("wait") /\ agents' = agents
    BY <1>6 DEF Check
  <2> QED
    BY <1>0, <1>6, <2>1, Going, GoesQuietly DEF Check, At, LoopFrame
<1> QED
  BY <1>1, <1>2, <1>3, <1>4, <1>5, <1>6

\* A step whose agent is not to be, or that has its worker now: the loop goes on to
\* the next, or the wave is complete.
LEMMA GoesOn ==
  ASSUME GroupInv, LoopFrame, task' = task, group' = group, NextStep,
         orch.pc \in {"accept", "start", "accepted", "update"},
         agents' \in [Steps -> [try : 0..2, life : {"none", "live", "gone"}, told : BOOLEAN]],
         \A s \in Steps : /\ agents'[s].try = agents[s].try /\ agents'[s].life = agents[s].life
                          /\ agents[s].told => agents'[s].told,
         \/ /\ worker' = worker /\ step' = Patched({Cur}, "failed")
            /\ orch.pc # "update" /\ (agents'[Cur].life = "live" => agents'[Cur].told)
         \/ /\ worker' = [worker EXCEPT ![Cur].pc = "forward"] /\ step' = Patched({Cur}, "running")
            /\ orch.pc = "update"
  PROVE  GroupInv'
<1>0. /\ GroupTypes /\ WavesInv /\ OrchInv /\ CancelInv /\ orch.pc \in Looping
      /\ \A s \in Steps : WorkerInv(s) /\ StepInv(s)
  BY DEF GroupInv, Looping
<1>1. WavesInv' /\ (\A s : WaveOf(s)' = WaveOf(s) /\ PlaceOf(s)' = PlaceOf(s))
  <2>1. plan' = plan /\ waves' = waves
    BY DEF LoopFrame
  <2> QED
    BY <1>0, <2>1, WavesStay
<1>2. /\ orch.wave \in 1..Len(waves) /\ Len(Wave) \in Nat /\ orch.at \in 1..Len(Wave)
      /\ Cur \in Steps /\ WaveOf(Cur) = orch.wave /\ PlaceOf(Cur) = orch.at
      /\ \A s \in Steps : Current(s) <=> s = Cur
  BY <1>0, CurrentStep
<1>3. /\ orch' \in Loops /\ orch'.pc = (IF orch.at < Len(Wave) THEN "accept" ELSE "check")
      /\ orch'.wave = orch.wave /\ orch'.at = orch.at + 1 /\ orch'.refused = orch.refused
  BY <1>0, GoingOn
<1>4. /\ step' \in [Steps -> Open \cup {"none", "failed", "succeeded", "canceled"}]
      /\ \A s \in Steps : step'[s] \in Open => step[s] \in Open
      /\ orch.pc # "update" => step'[Cur] \notin Open
  BY <1>0, <1>2, StepsPatched
<1>11. Wave' = Wave
  BY <1>3 DEF LoopFrame, Wave
<1>5. /\ worker' \in [Steps -> [pc : {"off", "forward", "again", "start", "register", "done"},
                                failed : BOOLEAN]]
      /\ \A s \in Steps : s # Cur => worker'[s] = worker[s]
      /\ worker'[Cur].pc = IF orch.pc = "update" THEN "forward" ELSE worker[Cur].pc
  <2>1. worker \in [Steps -> [pc : {"off", "forward", "again", "start", "register", "done"},
                              failed : BOOLEAN]]
    BY <1>0 DEF GroupTypes
  <2>2. CASE worker' = worker /\ orch.pc # "update"
    BY <2>1, <2>2
  <2>3. CASE worker' = [worker EXCEPT ![Cur].pc = "forward"] /\ orch.pc = "update"
    <3>1. worker' = [worker EXCEPT ![Cur] = [worker[Cur] EXCEPT !.pc = "forward"]]
      BY <2>3
    <3>2. /\ [worker[Cur] EXCEPT !.pc = "forward"]
                \in [pc : {"off", "forward", "again", "start", "register", "done"}, failed : BOOLEAN]
          /\ [worker[Cur] EXCEPT !.pc = "forward"].pc = "forward"
      BY <2>1, <1>2
    <3> QED
      BY <1>2, <2>1, <2>3, <3>1, <3>2
  <2> QED
    BY <2>2, <2>3
<1>6. GroupTypes'
  BY <1>0, <1>3, <1>4, <1>5 DEF GroupTypes, task, LoopFrame
<1>7. OrchInv'
  <2>1. /\ orch'.wave <= Len(waves) /\ waves' = waves
        /\ orch'.pc \in Looping => orch'.at <= Len(Wave)
        /\ orch'.pc \notin {"plan", "persist"}
        /\ ~orch'.refused
    BY <1>0, <1>2, <1>3 DEF OrchInv, Looping, Closing, LoopFrame
  <2> QED
    BY <2>1, <1>11 DEF OrchInv
<1>8. CancelInv'
  BY <1>0, <1>3, <1>4 DEF CancelInv, OrchInv, Closing, LoopFrame, task
<1>9. ASSUME NEW s \in Steps PROVE WorkerInv(s)'
  <2>0. WorkerInv(s) /\ WaveOf(s) \in Nat \ {0} /\ PlaceOf(s) \in Nat \ {0}
    BY <1>0, Numbers
  <2>1. Reached(s) => Reached(s)'
    BY <1>0, <1>1, <1>2, <1>3, <2>0 DEF Reached, Looping
  <2>2. s = Cur /\ orch.pc \in {"accept", "start"} => ~Reached(s)
    BY <1>2 DEF Reached, Looping
  <2>3. CASE s # Cur
    BY <1>0, <1>1, <1>2, <1>3, <1>5, <2>0, <2>1, <2>3 DEF WorkerInv, Waving, Looping
  <2>4. CASE s = Cur /\ orch.pc # "update"
    BY <1>0, <1>1, <1>2, <1>3, <1>5, <2>0, <2>1, <2>2, <2>4 DEF WorkerInv, Waving, Looping
  <2>5. CASE s = Cur /\ orch.pc = "update"
    <3>1. agents[s].try = 1 /\ worker'[s].pc = "forward" /\ worker[s].pc = "off"
      BY <1>2, <1>5, <2>0, <2>5 DEF WorkerInv
    <3>2. agents[s].life # "none"
      BY <2>0, <2>5, <1>2 DEF WorkerInv
    <3> QED
      BY <1>0, <1>1, <1>2, <1>3, <2>0, <2>1, <2>5, <3>1, <3>2 DEF WorkerInv, Waving, Looping
  <2> QED
    BY <2>3, <2>4, <2>5
<1>10. ASSUME NEW s \in Steps PROVE StepInv(s)'
  <2>0. /\ StepInv(s) /\ WaveOf(s) \in Nat \ {0} /\ PlaceOf(s) \in Nat \ {0}
        /\ WaveOf(s) = orch.wave => PlaceOf(s) <= Len(Wave)
    BY <1>0, Numbers
  <2>1. /\ worker'[s].pc = "off" => worker[s].pc = "off"
        /\ step'[s] \in Open /\ worker'[s].pc = "off" => s # Cur
    BY <1>4, <1>5, <1>0 DEF WorkerInv
  <2>2. step'[s] \in Open /\ worker'[s].pc = "off" /\ WaveOf(s) = orch.wave => PlaceOf(s) > orch.at
    BY <1>0, <1>2, <1>4, <2>0, <2>1 DEF StepInv, Current
  <2> QED
    BY <1>0, <1>1, <1>2, <1>3, <1>4, <2>0, <2>2 DEF StepInv, Closing, Looping, task
<1> QED
  BY <1>1, <1>6, <1>7, <1>8, <1>9, <1>10 DEF GroupInv

\* A step that is refused, one whose start fails, and one that has its worker.
LEMMA GoesOnSteps ==
  ASSUME GroupInv, \/ (Accept /\ ~Accepts) \/ (Start /\ NextStep /\ agents' = agents)
                   \/ (Accepted /\ ~Accepts) \/ Update
  PROVE  GroupInv'
<1>0. /\ GroupTypes /\ WavesInv /\ OrchInv
      /\ agents \in [Steps -> [try : 0..2, life : {"none", "live", "gone"}, told : BOOLEAN]]
  BY DEF GroupInv, GroupTypes
<1>1. ASSUME orch.pc \in {"accept", "start"} PROVE agents[Cur].life = "none"
  <2>1. Cur \in Steps /\ ~Reached(Cur)
    BY <1>0, <1>1, CurrentStep DEF Reached, Looping
  <2> QED
    BY <2>1 DEF GroupInv, WorkerInv
<1>2. CASE Accept /\ ~Accepts
  <2>1. /\ NextStep /\ step' = Patched({Cur}, "failed") /\ orch.pc = "accept" /\ agents' = agents
        /\ worker' = worker /\ LoopFrame /\ task' = task /\ group' = group
    BY <1>2 DEF Accept, At, LoopFrame
  <2> QED
    BY <1>0, <1>1, <2>1, GoesOn
<1>3. CASE Start /\ NextStep /\ agents' = agents
  <2>1. orch.pc = "start" /\ worker' = worker /\ LoopFrame /\ task' = task /\ group' = group
    BY <1>3 DEF Start, At, LoopFrame
  <2>2. step' = Patched({Cur}, "failed")
    <3>1. ~Goto("accepted")
      <4>1. orch'.pc \in {"accept", "check"}
        BY <1>0, <1>3, GoingOn
      <4>2. "accepted" \in Stations
        BY DEF Stations, Waving, Looping
      <4> QED
        BY <1>0, <4>1, <4>2, Going
    <3> QED
      BY <1>3, <3>1 DEF Start
  <2> QED
    BY <1>0, <1>1, <1>3, <2>1, <2>2, GoesOn
<1>4. CASE Accepted /\ ~Accepts
  <2>1. /\ NextStep /\ step' = Patched({Cur}, "failed") /\ orch.pc = "accepted"
        /\ agents' = CancelHandles({<<Cur, 1>>})
        /\ worker' = worker /\ LoopFrame /\ task' = task /\ group' = group
    BY <1>4 DEF Accepted, At, LoopFrame
  <2>2. Cur \in Steps /\ agents[Cur].try = 1
    <3>1. Cur \in Steps /\ Current(Cur)
      BY <1>0, <2>1, CurrentStep DEF Looping
    <3> QED
      BY <2>1, <3>1 DEF GroupInv, WorkerInv
  <2> QED
    BY <1>0, <2>1, <2>2, HandlesCanceled, GoesOn
<1>5. CASE Update
  <2>1. /\ NextStep /\ step' = Patched({Cur}, "running") /\ orch.pc = "update" /\ agents' = agents
        /\ worker' = [worker EXCEPT ![Cur].pc = "forward"] /\ LoopFrame /\ task' = task /\ group' = group
    BY <1>5 DEF Update, At, LoopFrame
  <2> QED
    BY <1>0, <2>1, GoesOn
<1> QED
  BY <1>2, <1>3, <1>4, <1>5

\* What holds before a step of the loop, with the waves after it.
LEMMA Before ==
  ASSUME GroupInv, LoopFrame
  PROVE  /\ GroupTypes /\ WavesInv /\ OrchInv /\ CancelInv
         /\ \A s \in Steps : WorkerInv(s) /\ StepInv(s)
         /\ WavesInv' /\ \A s : WaveOf(s)' = WaveOf(s) /\ PlaceOf(s)' = PlaceOf(s)
         /\ orch \in Loops /\ orch.wave \in Nat \ {0} /\ orch.at \in Nat \ {0}
<1>1. plan' = plan /\ waves' = waves
  BY DEF LoopFrame
<1> QED
  BY <1>1, WavesStay DEF GroupInv, GroupTypes, Loops

\* The plan is stored: every step is planned, and the loop begins.
LEMMA PersistKeeps ==
  ASSUME GroupInv, Persist, Goto("wave"), step' = [s \in Steps |-> "planned"]
  PROVE  GroupInv'
<1>1. LoopFrame /\ task' = task /\ group' = group /\ agents' = agents /\ worker' = worker
      /\ orch.pc = "persist"
  BY DEF Persist, LoopFrame, At
<1>2. /\ GroupTypes /\ WavesInv /\ OrchInv /\ CancelInv
      /\ \A s \in Steps : WorkerInv(s) /\ StepInv(s)
      /\ WavesInv' /\ \A s : WaveOf(s)' = WaveOf(s) /\ PlaceOf(s)' = PlaceOf(s)
  BY <1>1, Before
<1>3. orch' \in Loops /\ orch'.pc = "wave" /\ orch'.wave = orch.wave /\ orch'.refused = orch.refused
  BY <1>2, Going DEF Stations
<1>4. orch.wave = 1 /\ ~orch.refused
  BY <1>1, <1>2 DEF OrchInv, Closing
<1>5. step' \in [Steps -> Open \cup {"none", "failed", "succeeded", "canceled"}]
  BY DEF Open
<1>6. GroupTypes'
  BY <1>1, <1>2, <1>3, <1>5 DEF GroupTypes, task, LoopFrame
<1>7. OrchInv'
  BY <1>3, <1>4 DEF OrchInv, Waving, Looping
<1>8. CancelInv'
  BY <1>1, <1>2, <1>3, <1>4 DEF CancelInv, Closing, LoopFrame, task
<1>9. ASSUME NEW s \in Steps PROVE WorkerInv(s)' /\ StepInv(s)'
  <2>1. WorkerInv(s) /\ WaveOf(s) \in Nat \ {0}
    BY <1>2, Numbers
  <2>2. agents[s].life = "none" /\ worker[s].pc = "off"
    BY <1>1, <1>4, <2>1 DEF WorkerInv, Reached
  <2>3. WorkerInv(s)'
    BY <1>1, <1>3, <2>2 DEF WorkerInv
  <2>4. StepInv(s)'
    BY <1>2, <1>3, <1>4, <2>1 DEF StepInv, Closing, Looping
  <2> QED
    BY <2>3, <2>4
<1> QED
  BY <1>2, <1>6, <1>7, <1>8, <1>9 DEF GroupInv

\* The agent of the current step is started.
LEMMA StartKeeps ==
  ASSUME GroupInv, Start, Goto("accepted"), step' = step,
         agents' = [agents EXCEPT ![Cur] = [try |-> 1, life |-> "live", told |-> FALSE]]
  PROVE  GroupInv'
<1>1. LoopFrame /\ task' = task /\ group' = group /\ worker' = worker /\ orch.pc = "start"
  BY DEF Start, LoopFrame, At
<1>2. /\ GroupTypes /\ WavesInv /\ OrchInv /\ CancelInv
      /\ \A s \in Steps : WorkerInv(s) /\ StepInv(s)
      /\ WavesInv' /\ \A s : WaveOf(s)' = WaveOf(s) /\ PlaceOf(s)' = PlaceOf(s)
  BY <1>1, Before
<1>3. /\ orch' \in Loops /\ orch'.pc = "accepted" /\ orch'.wave = orch.wave /\ orch'.at = orch.at
      /\ orch'.refused = orch.refused
  BY <1>2, Going DEF Stations, Waving, Looping
<1>4. /\ Cur \in Steps /\ WaveOf(Cur) = orch.wave /\ PlaceOf(Cur) = orch.at
      /\ \A s \in Steps : Current(s) <=> s = Cur
  BY <1>1, <1>2, CurrentStep DEF Looping
<1>5. /\ agents' \in [Steps -> [try : 0..2, life : {"none", "live", "gone"}, told : BOOLEAN]]
      /\ agents'[Cur].try = 1 /\ agents'[Cur].life = "live"
      /\ \A s \in Steps : s # Cur => agents'[s] = agents[s]
  <2>1. agents \in [Steps -> [try : 0..2, life : {"none", "live", "gone"}, told : BOOLEAN]]
    BY <1>2 DEF GroupTypes
  <2> QED
    BY <1>4, <2>1
<1>6. GroupTypes'
  BY <1>1, <1>2, <1>3, <1>5 DEF GroupTypes, task, LoopFrame
<1>7. OrchInv'
  <2>1. Wave' = Wave /\ waves' = waves
    BY <1>1, <1>3 DEF Wave, LoopFrame
  <2> QED
    BY <1>1, <1>2, <1>3, <2>1 DEF OrchInv, Waving, Looping, Closing
<1>8. CancelInv'
  BY <1>1, <1>2, <1>3 DEF CancelInv, Closing, LoopFrame, task
<1>9. ASSUME NEW s \in Steps PROVE WorkerInv(s)'
  <2>1. WorkerInv(s) /\ WaveOf(s) \in Nat \ {0} /\ PlaceOf(s) \in Nat \ {0} /\ orch.at \in Nat
    BY <1>2, Numbers
  <2>2. Current(s)' <=> s = Cur
    BY <1>2, <1>3, <1>4 DEF Current
  <2>3. CASE s # Cur
    BY <1>1, <1>2, <1>3, <1>5, <2>1, <2>2, <2>3 DEF WorkerInv, Reached, Waving, Looping
  <2>4. CASE s = Cur
    <3>1. ~Reached(s)
      BY <1>1, <1>4, <2>1, <2>4 DEF Reached, Looping
    <3>2. worker[s].pc = "off"
      BY <2>1, <3>1 DEF WorkerInv
    <3>3. Reached(s)'
      BY <1>2, <1>3, <1>4, <2>1, <2>4 DEF Reached, Looping
    <3> QED
      BY <1>1, <1>3, <1>5, <2>2, <2>4, <3>2, <3>3 DEF WorkerInv
  <2> QED
    BY <2>3, <2>4
<1>10. ASSUME NEW s \in Steps PROVE StepInv(s)'
  <2>1. StepInv(s)
    BY <1>2
  <2> QED
    BY <1>1, <1>2, <1>3, <2>1 DEF StepInv, Closing, Looping, task
<1> QED
  BY <1>2, <1>6, <1>7, <1>8, <1>9, <1>10 DEF GroupInv

\* Its handle joins the group.
LEMMA RegisterKeeps ==
  ASSUME GroupInv, Register, Accepts
  PROVE  GroupInv'
<1>1. LoopFrame /\ task' = task /\ step' = step /\ agents' = agents /\ worker' = worker
      /\ orch.pc = "register" /\ group' = group \cup {<<Cur, 1>>} /\ Goto("update")
  BY DEF Register, LoopFrame, At
<1>2. /\ GroupTypes /\ WavesInv /\ OrchInv /\ CancelInv
      /\ \A s \in Steps : WorkerInv(s) /\ StepInv(s)
      /\ WavesInv' /\ \A s : WaveOf(s)' = WaveOf(s) /\ PlaceOf(s)' = PlaceOf(s)
  BY <1>1, Before
<1>3. /\ orch' \in Loops /\ orch'.pc = "update" /\ orch'.wave = orch.wave /\ orch'.at = orch.at
      /\ orch'.refused = orch.refused
  BY <1>1, <1>2, Going DEF Stations, Waving, Looping
<1>4. Cur \in Steps
  BY <1>1, <1>2, CurrentStep DEF Looping
<1>5. group' \subseteq Steps \X (1..2)
  BY <1>1, <1>2, <1>4 DEF GroupTypes
<1>6. GroupTypes'
  BY <1>1, <1>2, <1>3, <1>5 DEF GroupTypes, task, LoopFrame
<1>7. OrchInv'
  <2>1. Wave' = Wave /\ waves' = waves
    BY <1>1, <1>3 DEF Wave, LoopFrame
  <2> QED
    BY <1>1, <1>2, <1>3, <2>1 DEF OrchInv, Waving, Looping, Closing
<1>8. CancelInv'
  BY <1>1, <1>2, <1>3 DEF CancelInv, Closing, LoopFrame, task
<1>9. ASSUME NEW s \in Steps PROVE WorkerInv(s)' /\ StepInv(s)'
  <2>1. WorkerInv(s) /\ StepInv(s)
    BY <1>2
  <2>2. (Current(s)' <=> Current(s)) /\ (Reached(s) => Reached(s)')
    BY <1>1, <1>2, <1>3 DEF Current, Reached, Looping
  <2>3. WorkerInv(s)'
    BY <1>1, <1>2, <1>3, <2>1, <2>2 DEF WorkerInv, Waving, Looping
  <2>4. StepInv(s)'
    BY <1>1, <1>2, <1>3, <2>1 DEF StepInv, Closing, Looping, task
  <2> QED
    BY <2>3, <2>4
<1> QED
  BY <1>2, <1>6, <1>7, <1>8, <1>9 DEF GroupInv

\* The wave is cut short: its agents are told, that of the current step among them,
\* and the loop waits for the workers it has.
LEMMA Stopping ==
  ASSUME GroupInv, LoopFrame, NEW H, agents' = CancelHandles(H), NEW b \in BOOLEAN,
         task' = task, group' = group, step' = step, worker' = worker,
         orch' = [orch EXCEPT !.pc = "drain", !.refused = b],
         (orch.pc = "register" /\ <<Cur, 1>> \in H) \/ (orch.pc = "check" /\ ~b)
  PROVE  GroupInv'
<1>1. /\ GroupTypes /\ WavesInv /\ OrchInv /\ CancelInv
      /\ \A s \in Steps : WorkerInv(s) /\ StepInv(s)
      /\ WavesInv' /\ (\A s : WaveOf(s)' = WaveOf(s) /\ PlaceOf(s)' = PlaceOf(s))
      /\ orch \in Loops
  BY Before
<1>2. /\ orch' \in Loops /\ orch'.pc = "drain" /\ orch'.wave = orch.wave /\ orch'.at = orch.at
      /\ orch'.refused = b
  <2>1. "drain" \in Stations
    BY DEF Stations, Waving
  <2> QED
    BY <1>1, <2>1 DEF Loops
<1>3. /\ agents' \in [Steps -> [try : 0..2, life : {"none", "live", "gone"}, told : BOOLEAN]]
      /\ \A s \in Steps :
           /\ agents'[s].try = agents[s].try /\ agents'[s].life = agents[s].life
           /\ agents[s].told => agents'[s].told
           /\ <<s, agents[s].try>> \in H => agents'[s].told
  BY <1>1, HandlesCanceled
<1>4. GroupTypes'
  BY <1>1, <1>2, <1>3 DEF GroupTypes, task, LoopFrame
<1>5. OrchInv'
  <2>1. orch.wave <= Len(waves) /\ waves' = waves
    BY <1>1 DEF OrchInv, Waving, Looping, LoopFrame
  <2> QED
    BY <1>2, <2>1 DEF OrchInv, Looping
<1>6. CancelInv'
  <2>1. api.pc \in {"kill", "stop", "retire", "finish"} /\ (\E s \in Steps : step[s] \in Open) => ~b
    BY <1>1 DEF CancelInv
  <2> QED
    BY <1>1, <1>2, <2>1 DEF CancelInv, Closing, LoopFrame, task
<1>7. ASSUME NEW s \in Steps PROVE WorkerInv(s)'
  <2>1. WorkerInv(s)
    BY <1>1
  <2>2. Reached(s) => Reached(s)'
    BY <1>1, <1>2 DEF Reached, Looping
  <2>3. ASSUME agents'[s].life = "live", ~agents'[s].told PROVE worker[s].pc \in {"forward", "register"}
    <3>1. agents[s].life = "live" /\ ~agents[s].told /\ <<s, agents[s].try>> \notin H
      BY <1>3, <2>3
    <3>2. ~(orch.pc = "register" /\ Current(s))
      <4> SUFFICES ASSUME orch.pc = "register", Current(s) PROVE FALSE
        OBVIOUS
      <4>1. s = Cur
        BY <1>1, CurrentStep DEF Looping
      <4>2. agents[s].try = 1
        BY <2>1 DEF WorkerInv
      <4> QED
        BY <3>1, <4>1, <4>2
    <3> QED
      BY <2>1, <3>1, <3>2 DEF WorkerInv
  <2> QED
    BY <1>1, <1>2, <1>3, <2>1, <2>2, <2>3 DEF WorkerInv, Waving, Looping
<1>8. ASSUME NEW s \in Steps PROVE StepInv(s)'
  <2>1. StepInv(s)
    BY <1>1
  <2> QED
    BY <1>1, <1>2, <2>1 DEF StepInv, Closing, Looping, task
<1> QED
  BY <1>1, <1>4, <1>5, <1>6, <1>7, <1>8 DEF GroupInv

\* The group refuses the agent, or was canceled when all were started.
LEMMA StoppingSteps ==
  ASSUME GroupInv, (Register /\ ~Accepts) \/ (Check /\ canceled)
  PROVE  GroupInv'
<1>0. GroupTypes /\ WavesInv /\ OrchInv /\ orch \in Loops
  BY DEF GroupInv, GroupTypes
<1>1. CASE Register /\ ~Accepts
  <2> DEFINE H == {<<Wave[i], 1>> : i \in 1 .. orch.at}
  <2>1. /\ LoopFrame /\ task' = task /\ step' = step /\ group' = group /\ worker' = worker
        /\ agents' = CancelHandles(H)
        /\ orch' = [orch EXCEPT !.pc = "drain", !.refused = TRUE] /\ orch.pc = "register"
    BY <1>1 DEF Register, At, LoopFrame
  <2>2. <<Cur, 1>> \in H
    <3>1. orch.at \in 1..orch.at
      BY <1>0 DEF Loops
    <3> QED
      BY <3>1 DEF Cur
  <2>3. PICK b \in BOOLEAN : orch' = [orch EXCEPT !.pc = "drain", !.refused = b]
    BY <2>1
  <2> HIDE DEF H
  <2> QED
    BY <2>1, <2>2, <2>3, Stopping
<1>2. CASE Check /\ canceled
  <2>1. /\ LoopFrame /\ task' = task /\ step' = step /\ group' = group /\ worker' = worker
        /\ agents' = CancelHandles({<<Wave[i], 1>> : i \in 1 .. Len(Wave)})
        /\ orch' = [orch EXCEPT !.pc = "drain"] /\ orch.pc = "check"
    BY <1>2 DEF Check, Goto, At, LoopFrame
  <2>2. ~orch.refused /\ orch.refused \in BOOLEAN
    BY <1>0, <2>1 DEF OrchInv, Closing, Loops
  <2>3. orch' = [orch EXCEPT !.pc = "drain", !.refused = FALSE]
    BY <1>0, <2>1, <2>2 DEF Loops
  <2> QED
    BY <2>1, <2>3, Stopping
<1> QED
  BY <1>1, <1>2

\* With all workers of a wave done the loop looks at them.
LEMMA WaitKeeps ==
  ASSUME GroupInv, Wait
  PROVE  GroupInv'
<1>0. /\ LoopFrame /\ task' = task /\ step' = step /\ agents' = agents /\ worker' = worker
      /\ orch.pc \in {"drain", "wait"} /\ \A s \in Steps : worker[s].pc \in {"off", "done"}
      /\ group' \in {group, {}}
  BY DEF Wait, WaveDone, At, LoopFrame, Cleared
<1>1. /\ GroupTypes /\ WavesInv /\ OrchInv /\ CancelInv
      /\ \A s \in Steps : WorkerInv(s) /\ StepInv(s)
      /\ WavesInv' /\ (\A s : WaveOf(s)' = WaveOf(s) /\ PlaceOf(s)' = PlaceOf(s))
  BY <1>0, Before
<1> DEFINE p == IF At("wait") THEN "look" ELSE IF orch.refused THEN "finish" ELSE "undo"
<1>2. /\ orch' \in Loops /\ orch'.pc = p /\ orch'.wave = orch.wave /\ orch'.refused = orch.refused
  <2>1. p \in Stations /\ Goto(p)
    BY DEF Wait, Stations, Waving
  <2> HIDE DEF p
  <2> QED
    BY <1>1, <2>1, Going
<1>3. GroupTypes'
  BY <1>0, <1>1, <1>2 DEF GroupTypes, task, LoopFrame
<1>4. orch.refused \in BOOLEAN
  BY <1>1 DEF GroupTypes, Loops
<1>5. OrchInv'
  BY <1>0, <1>1, <1>2, <1>4 DEF OrchInv, Waving, Looping, Closing, LoopFrame, At
<1>6. CancelInv'
  BY <1>0, <1>1, <1>2 DEF CancelInv, Closing, LoopFrame, task
<1>7. ASSUME NEW s \in Steps PROVE WorkerInv(s)' /\ StepInv(s)'
  <2>1. WorkerInv(s) /\ StepInv(s) /\ worker[s].pc \in {"off", "done"}
    BY <1>0, <1>1
  <2>2. Reached(s) => Reached(s)'
    BY <1>0, <1>1, <1>2 DEF Reached, Looping
  <2>3. WorkerInv(s)'
    BY <1>0, <1>2, <2>1, <2>2 DEF WorkerInv
  <2>4. StepInv(s)'
    BY <1>0, <1>1, <1>2, <2>1 DEF StepInv, Closing, Looping, task, At
  <2> QED
    BY <2>3, <2>4
<1> QED
  BY <1>1, <1>3, <1>5, <1>6, <1>7 DEF GroupInv

\* No step is open after this, and no worker works: the turn comes to its end.
LEMMA Closes ==
  ASSUME GroupInv, LoopFrame, task' = task, group' = group, agents' = agents, worker' = worker,
         step' = Patched(Steps, "canceled"), NEW p \in {"finish", "over"}, Goto(p),
         orch.pc \in {"look", "undo", "finish"}
  PROVE  GroupInv'
<1>1. /\ GroupTypes /\ WavesInv /\ OrchInv /\ CancelInv
      /\ \A s \in Steps : WorkerInv(s) /\ StepInv(s)
      /\ WavesInv' /\ (\A s : WaveOf(s)' = WaveOf(s) /\ PlaceOf(s)' = PlaceOf(s))
  BY Before
<1>2. orch' \in Loops /\ orch'.pc = p /\ orch'.wave = orch.wave /\ orch'.refused = orch.refused
  BY <1>1, Going DEF Stations, Closing
<1>3. /\ step' \in [Steps -> Open \cup {"none", "failed", "succeeded", "canceled"}]
      /\ \A s \in Steps : step'[s] \notin Open
  BY <1>1, StepsPatched
<1>4. GroupTypes'
  BY <1>1, <1>2, <1>3 DEF GroupTypes, task, LoopFrame
<1>5. OrchInv'
  BY <1>1, <1>2 DEF OrchInv, Waving, Looping, Closing
<1>6. CancelInv'
  <2>1. orch.pc \notin Closing
    BY DEF Closing
  <2> QED
    BY <1>1, <1>2, <1>3, <2>1 DEF CancelInv, LoopFrame, task
<1>7. ASSUME NEW s \in Steps PROVE WorkerInv(s)' /\ StepInv(s)'
  <2>1. WorkerInv(s) /\ worker[s].pc \in {"off", "done"}
    BY <1>1 DEF WorkerInv, Waving, Looping
  <2>2. Reached(s) => Reached(s)'
    BY <1>1, <1>2 DEF Reached, Looping
  <2>3. WorkerInv(s)'
    BY <1>2, <2>1, <2>2 DEF WorkerInv
  <2>4. StepInv(s)'
    BY <1>3 DEF StepInv
  <2> QED
    BY <2>3, <2>4
<1> QED
  BY <1>1, <1>4, <1>5, <1>6, <1>7 DEF GroupInv

\* The results of the wave are recorded, and the next one is on.
LEMMA LookKeeps ==
  ASSUME GroupInv, Look
  PROVE  GroupInv'
<1>1. LoopFrame /\ task' = task /\ group' = group /\ agents' = agents /\ worker' = worker
      /\ orch.pc \in {"look", "undo"}
  BY DEF Look, At, LoopFrame
<1>2. CASE canceled \/ orch.pc = "undo"
  <2>1. step' = Patched(Steps, "canceled") /\ Goto("finish")
    BY <1>2 DEF Look, At
  <2> QED
    BY <1>1, <2>1, Closes
<1>3. CASE ~canceled /\ orch.pc = "look"
  <2>1. /\ step' = [s \in Steps |->
              IF worker[s].pc = "done" /\ step[s] \in Open
                THEN IF worker[s].failed THEN "failed" ELSE "succeeded"
                ELSE step[s]]
        /\ orch' = [orch EXCEPT !.pc = "wave", !.wave = @ + 1]
    BY <1>3 DEF Look, At
  <2>2. /\ GroupTypes /\ WavesInv /\ OrchInv /\ CancelInv
        /\ \A s \in Steps : WorkerInv(s) /\ StepInv(s)
        /\ WavesInv' /\ (\A s : WaveOf(s)' = WaveOf(s) /\ PlaceOf(s)' = PlaceOf(s))
        /\ orch \in Loops /\ orch.wave \in Nat \ {0}
    BY <1>1, Before
  <2>3. /\ orch' \in Loops /\ orch'.pc = "wave" /\ orch'.wave = orch.wave + 1
        /\ orch'.refused = orch.refused
    <3>1. "wave" \in Stations /\ orch.wave + 1 \in Nat \ {0}
      BY <2>2 DEF Stations
    <3> QED
      BY <2>1, <2>2, <3>1 DEF Loops
  <2>4. /\ step' \in [Steps -> Open \cup {"none", "failed", "succeeded", "canceled"}]
        /\ \A s \in Steps : step'[s] \in Open => step[s] \in Open /\ worker[s].pc # "done"
    BY <2>1, <2>2 DEF GroupTypes, Open
  <2>5. ~orch.refused
    BY <1>3, <2>2 DEF OrchInv, Closing
  <2>6. GroupTypes'
    BY <1>1, <2>2, <2>3, <2>4 DEF GroupTypes, task, LoopFrame
  <2>7. OrchInv'
    BY <2>3, <2>5 DEF OrchInv, Waving, Looping
  <2>8. CancelInv'
    BY <1>1, <1>3, <2>2, <2>3, <2>4, <2>5 DEF CancelInv, Closing, LoopFrame, task
  <2>9. ASSUME NEW s \in Steps PROVE WorkerInv(s)' /\ StepInv(s)'
    <3>1. /\ WorkerInv(s) /\ StepInv(s) /\ worker[s].pc \in {"off", "done"}
          /\ WaveOf(s) \in Nat \ {0}
      BY <1>3, <2>2, Numbers DEF WorkerInv, Waving, Looping
    <3>2. Reached(s) => Reached(s)'
      BY <2>2, <2>3, <3>1 DEF Reached
    <3>3. WorkerInv(s)'
      BY <1>1, <1>3, <2>3, <3>1, <3>2 DEF WorkerInv
    <3>4. step'[s] \in Open => WaveOf(s) >= orch.wave + 1
      BY <1>3, <2>2, <2>4, <3>1 DEF StepInv
    <3>5. StepInv(s)'
      BY <2>2, <2>3, <3>1, <3>4 DEF StepInv, Closing, Looping
    <3> QED
      BY <3>3, <3>5
  <2> QED
    BY <2>2, <2>6, <2>7, <2>8, <2>9 DEF GroupInv
<1> QED
  BY <1>1, <1>2, <1>3

\* The end of the turn takes what is there for it, or the turn was retired.
LEMMA FinishKeeps ==
  ASSUME GroupInv, Finish
  PROVE  GroupInv'
<1>1. LoopFrame /\ agents' = agents /\ worker' = worker /\ orch.pc = "finish"
  BY DEF Finish, At, LoopFrame
<1>2. CASE activeRun # "group"
  <2>1. /\ step' = Patched(Steps, "canceled") /\ Goto("over") /\ task' = task /\ group' = group
    BY <1>2 DEF Finish, task
  <2> QED
    BY <1>1, <2>1, Closes
<1>3. CASE activeRun = "group"
  <2>1. /\ step' = step /\ canceled' = FALSE /\ parked' = FALSE /\ group' = {}
        /\ rowStatus' = rowStatus /\ activeRun' = activeRun
    BY <1>3 DEF Finish
  <2>2. PICK p \in {"apply", "cancel", "end"} : Goto(p)
    BY <1>3 DEF Finish, Goto
  <2>3. /\ GroupTypes /\ WavesInv /\ OrchInv /\ CancelInv
        /\ \A s \in Steps : WorkerInv(s) /\ StepInv(s)
        /\ WavesInv' /\ (\A s : WaveOf(s)' = WaveOf(s) /\ PlaceOf(s)' = PlaceOf(s))
    BY <1>1, Before
  <2>4. orch' \in Loops /\ orch'.pc = p /\ orch'.wave = orch.wave /\ orch'.refused = orch.refused
    BY <2>2, <2>3, Going DEF Stations, Closing
  <2>5. GroupTypes'
    BY <1>1, <2>1, <2>3, <2>4 DEF GroupTypes, LoopFrame
  <2>6. OrchInv'
    BY <2>4 DEF OrchInv, Waving, Looping, Closing
  <2>7. ASSUME NEW s \in Steps, step[s] \in Open PROVE orch.refused
    BY <1>1, <1>3, <2>3, <2>7 DEF StepInv
  <2>8. CancelInv'
    BY <1>1, <1>3, <2>1, <2>3, <2>4, <2>7 DEF CancelInv, Closing, LoopFrame
  <2>9. ASSUME NEW s \in Steps PROVE WorkerInv(s)' /\ StepInv(s)'
    <3>1. WorkerInv(s) /\ StepInv(s) /\ worker[s].pc \in {"off", "done"}
      BY <1>1, <2>3 DEF WorkerInv, Waving, Looping
    <3>2. Reached(s) => Reached(s)'
      BY <1>1, <2>3, <2>4 DEF Reached, Looping
    <3>3. WorkerInv(s)'
      BY <1>1, <2>4, <3>1, <3>2 DEF WorkerInv
    <3>4. StepInv(s)'
      BY <1>1, <2>1, <2>3, <2>4, <2>7, <3>1 DEF StepInv, Closing, Looping
    <3> QED
      BY <3>3, <3>4
  <2> QED
    BY <2>3, <2>5, <2>6, <2>8, <2>9 DEF GroupInv
<1> QED
  BY <1>2, <1>3

\* The turn is over.
LEMMA EndsKeeps ==
  ASSUME GroupInv, Ends
  PROVE  GroupInv'
<1>1. /\ LoopFrame /\ agents' = agents /\ worker' = worker /\ step' = step /\ group' = group
      /\ canceled' = canceled /\ parked' = parked /\ orch.pc \in {"apply", "cancel", "end"}
      /\ Goto("over")
  BY DEF Ends, LoopFrame
<1>2. /\ GroupTypes /\ WavesInv /\ OrchInv /\ CancelInv
      /\ \A s \in Steps : WorkerInv(s) /\ StepInv(s)
      /\ WavesInv' /\ (\A s : WaveOf(s)' = WaveOf(s) /\ PlaceOf(s)' = PlaceOf(s))
  BY <1>1, Before
<1>3. orch' \in Loops /\ orch'.pc = "over" /\ orch'.wave = orch.wave /\ orch'.refused = orch.refused
  BY <1>1, <1>2, Going DEF Stations, Closing
<1>4. /\ rowStatus' \in {rowStatus, "queued", "canceled", "ended"}
      /\ activeRun' \in {activeRun, "none"}
  BY DEF Ends, Delivered
<1>5. GroupTypes'
  BY <1>1, <1>2, <1>3, <1>4 DEF GroupTypes, LoopFrame
<1>6. OrchInv'
  BY <1>3 DEF OrchInv, Waving, Looping, Closing
<1>7. CancelInv'
  BY <1>1, <1>2, <1>3, <1>4 DEF CancelInv, Closing, LoopFrame
<1>8. ASSUME NEW s \in Steps PROVE WorkerInv(s)' /\ StepInv(s)'
  <2>1. WorkerInv(s) /\ StepInv(s) /\ worker[s].pc \in {"off", "done"}
    BY <1>1, <1>2 DEF WorkerInv, Waving, Looping
  <2>2. Reached(s) => Reached(s)'
    BY <1>1, <1>2, <1>3 DEF Reached, Looping
  <2>3. WorkerInv(s)'
    BY <1>1, <1>3, <2>1, <2>2 DEF WorkerInv
  <2>4. StepInv(s)'
    BY <1>1, <1>2, <1>3, <2>1 DEF StepInv, Closing, Looping
  <2> QED
    BY <2>3, <2>4
<1> QED
  BY <1>2, <1>5, <1>6, <1>7, <1>8 DEF GroupInv

\* Every step of the loop keeps the invariant.
LEMMA OrchestratorKeeps ==
  ASSUME GroupInv, Orchestrator
  PROVE  GroupInv'
<1>1. CASE Plan
  BY <1>1, QuietSteps
<1>2. CASE Persist
  <2>1. CASE Goto("finish")
    BY <1>2, <2>1, QuietSteps
  <2>2. CASE step' = [s \in Steps |-> "planned"] /\ Goto("wave")
    BY <1>2, <2>2, PersistKeeps
  <2> QED
    BY <1>2, <2>1, <2>2 DEF Persist
<1>3. CASE BeginWave
  BY <1>3, QuietSteps
<1>4. CASE Accept
  BY <1>4, QuietSteps, GoesOnSteps
<1>5. CASE Start
  <2>1. CASE NextStep /\ agents' = agents
    BY <1>5, <2>1, GoesOnSteps
  <2>2. CASE /\ agents' = [agents EXCEPT ![Cur] = [try |-> 1, life |-> "live", told |-> FALSE]]
             /\ Goto("accepted") /\ step' = step
    BY <1>5, <2>2, StartKeeps
  <2> QED
    BY <1>5, <2>1, <2>2 DEF Start
<1>6. CASE Accepted
  BY <1>6, QuietSteps, GoesOnSteps
<1>7. CASE Register
  BY <1>7, RegisterKeeps, StoppingSteps
<1>8. CASE Update
  BY <1>8, GoesOnSteps
<1>9. CASE Check
  BY <1>9, QuietSteps, StoppingSteps
<1> QED
  BY <1>1, <1>2, <1>3, <1>4, <1>5, <1>6, <1>7, <1>8, <1>9, WaitKeeps, LookKeeps, FinishKeeps,
     EndsKeeps DEF Orchestrator

\* The first state.
LEMMA GroupStarts == GroupInit => GroupInv
<1> SUFFICES ASSUME GroupInit PROVE GroupInv
  OBVIOUS
<1>1. WavesInv
  BY WavesInit
<1>2. GroupTypes
  <2>1. agents \in [Steps -> [try : 0..2, life : {"none", "live", "gone"}, told : BOOLEAN]]
    BY DEF GroupInit, NoAgent
  <2>2. worker \in [Steps -> [pc : {"off", "forward", "again", "start", "register", "done"},
                             failed : BOOLEAN]]
    BY DEF GroupInit
  <2>3. orch \in Loops /\ api \in Requests
    BY DEF GroupInit, Loops, Requests, Stations, Places, Off
  <2>4. ops \in 0..MaxOps
    BY GroupAssumption DEF GroupInit, GroupAssumption
  <2> QED
    BY <2>1, <2>2, <2>3, <2>4 DEF GroupInit, GroupTypes
<1>3. orch.pc = "plan" /\ orch.wave = 1 /\ ~orch.refused /\ api.pc = "off" /\ ~stopped
  BY DEF GroupInit, Off
<1>4. OrchInv /\ CancelInv
  BY <1>3 DEF OrchInv, CancelInv, Waving, Looping
<1>5. ASSUME NEW s \in Steps PROVE WorkerInv(s) /\ StepInv(s)
  <2>1. worker[s].pc = "off" /\ agents[s].life = "none" /\ step[s] = "none"
    BY DEF GroupInit, NoAgent
  <2> QED
    BY <1>3, <2>1 DEF WorkerInv, StepInv, Open
<1> QED
  BY <1>1, <1>2, <1>4, <1>5 DEF GroupInv

-----------------------------------------------------------------------------
(* Groups of workers: the theorems *)

\* What a turn with a group of workers is at any time: its waves are those of the plan,
\* an agent that runs untold has somebody who reads it, a step that is open has somebody
\* who closes it, and a cancel keeps its mark until the turn ends.
THEOREM GroupsInductive == GroupSpec => []GroupInv
<1>1. ASSUME GroupInv, [GroupNext]_groupVars PROVE GroupInv'
  <2>1. CASE GroupNext
    <3>1. NewRequest \/ Requested => ApiStep
      BY DEF Requested, ApiStep
    <3> QED
      BY <1>1, <2>1, <3>1, OrchestratorKeeps, ApiKeeps, NextTurnKeeps, WorkerKeeps, AgentEndsKeeps
      DEF GroupNext
  <2>2. CASE UNCHANGED groupVars
    <3>1. LoopFrame /\ task' = task /\ group' = group /\ step' = step /\ agents' = agents
          /\ worker' = worker /\ orch' = orch /\ activeRun' = activeRun
      BY <2>2 DEF groupVars, LoopFrame, task
    <3>2. GroupTypes' /\ CancelInv'
      BY <1>1, <3>1 DEF GroupInv, GroupTypes, CancelInv, LoopFrame, task
    <3> QED
      BY <1>1, <3>1, <3>2, OthersMove DEF GroupInv, LoopFrame
  <2> QED
    BY <1>1, <2>1, <2>2
<1> QED
  BY <1>1, GroupStarts, PTL DEF GroupSpec

\* When the turn is over nothing of its group is left, also if a cancel, an interrupt or
\* a delete met any of its steps (runOrchestrated, registerWorkerHandles, finishOrchestrated,
\* CancelTask): for any plan and any number of requests.
THEOREM GroupsLeaveNothing == GroupSpec => []NothingLeft
<1>1. ASSUME GroupInv PROVE NothingLeft
  <2> SUFFICES ASSUME orch.pc = "over"
               PROVE  /\ \A s \in Steps : agents[s].life = "live" => agents[s].told
                      /\ Api("off") => \/ \A s \in Steps : step[s] \notin Open
                                       \/ orch.refused /\ ~stopped
    BY DEF NothingLeft
  <2>1. ASSUME NEW s \in Steps, agents[s].life = "live" PROVE agents[s].told
    <3>1. WorkerInv(s) /\ agents[s].told \in BOOLEAN
      BY <1>1 DEF GroupInv, GroupTypes
    <3>2. worker[s].pc \in {"off", "done"}
      BY <3>1 DEF WorkerInv, Waving, Looping
    <3> QED
      BY <2>1, <3>1, <3>2 DEF WorkerInv
  <2>2. ASSUME NEW s \in Steps, step[s] \in Open PROVE orch.refused /\ ~stopped
    BY <1>1, <2>2 DEF GroupInv, StepInv, CancelInv, Closing
  <2> QED
    BY <2>1, <2>2
<1> QED
  BY <1>1, GroupsInductive, PTL

\* Who writes works alone, and nobody works before what it builds on is there (PlanWaves,
\* waveWouldConflict, and the retries of runOrchestrated): for any plan, and also when
\* agents outlive the wave they were started in.
THEOREM WavesAreKept == GroupSpec => []WavesHold
<1>1. ASSUME GroupInv PROVE WavesHold
  <2> SUFFICES ASSUME NEW s \in Steps, NEW u \in Steps, s # u, agents[s].life = "live"
               PROVE  /\ agents[u].life = "live" /\ ~agents[s].told /\ ~agents[u].told =>
                           "write" \notin {plan[s].access, plan[u].access}
                      /\ u \in plan[s].deps =>
                           worker[u].pc \in {"off", "done"} /\ step[u] \notin Open
    BY DEF WavesHold
  <2>1. /\ GroupTypes /\ WavesInv /\ WorkerInv(s) /\ WorkerInv(u) /\ StepInv(u)
        /\ worker[s].pc \in {"off", "forward", "again", "start", "register", "done"}
        /\ worker[u].pc \in {"off", "forward", "again", "start", "register", "done"}
        /\ WaveOf(s) \in Nat /\ WaveOf(u) \in Nat /\ orch.wave \in Nat
    <3>1. GroupTypes /\ WavesInv
      BY <1>1 DEF GroupInv
    <3> QED
      BY <1>1, <3>1, Numbers DEF GroupInv, GroupTypes
  <2>2. ASSUME agents[u].life = "live", ~agents[s].told, ~agents[u].told
        PROVE  "write" \notin {plan[s].access, plan[u].access}
    <3>1. ASSUME NEW x \in {s, u} PROVE WaveOf(x) = orch.wave
      BY <2>1, <2>2, <3>1 DEF WorkerInv, Current
    <3> QED
      BY <2>1, <3>1 DEF WavesInv
  <2>3. ASSUME u \in plan[s].deps PROVE worker[u].pc \in {"off", "done"} /\ step[u] \notin Open
    <3>1. WaveOf(u) < WaveOf(s)
      BY <2>1, <2>3 DEF WavesInv
    <3>2. WaveOf(s) <= orch.wave
      BY <2>1 DEF WorkerInv, Reached
    <3> QED
      BY <2>1, <3>1, <3>2 DEF WorkerInv, StepInv
  <2> QED
    BY <2>2, <2>3
<1> QED
  BY <1>1, GroupsInductive, PTL
=============================================================================

----------------------------- MODULE LimitWaits -----------------------------
(***************************************************************************)
(* Quota waits of one task (internal/task/limit_continue.go,               *)
(* limit_policy.go, internal/store/limit_waits.go): the cards a rate limit *)
(* leaves in the transcript, the durable wait row, the timer goroutines    *)
(* that claim it and retry the turn, the end of a run that arms it, and    *)
(* what users do about it meanwhile.                                       *)
(*                                                                         *)
(* One step is one store statement, or the consecutive reads of one        *)
(* goroutine, or one hold of Engine.mu.  Retry is two steps, its intent    *)
(* and its outcome, under retryMu; that it may commit and still report an  *)
(* error is in module RetrySaga.                                           *)
(*                                                                         *)
(* The turn is "running" from the moment it is queued.  The policy is the  *)
(* default, wait.  Left out: the policy switch (it does what the user's    *)
(* switch does), notifications, follow-ups to a busy task, times of day:   *)
(* a reset time is known or not, and a deadline passes at some moment.     *)
(***************************************************************************)
EXTENDS Integers, Sequences, FiniteSets

CONSTANTS
  Workers,      \* goroutines in runLimitWait; an idle one is used again
  Finishers,    \* goroutines that have just ended a run, or Recover
  Api,          \* the request of a user
  None,
  Ops,          \* the requests users make, of AllOps
  MaxTurns,     \* bound: turns that may fail or hit a limit are those before it
  MaxOps,       \* bound: requests of users
  MaxErrors,    \* bound: retries that are refused or undone
  MaxRestarts   \* bound: how often the daemon dies

AllOps == {"wait", "continue", "switch", "dismiss", "followup", "cancel"}
Procs  == Workers \cup Finishers \cup {Api}

ASSUME LimitAssumption ==
  /\ Workers \cap Finishers = {} /\ Api \notin Workers \cup Finishers
  /\ None \notin Procs
  /\ Ops \subseteq AllOps
  /\ MaxTurns \in Nat \ {0} /\ MaxOps \in Nat /\ MaxErrors \in Nat /\ MaxRestarts \in Nat

VARIABLES
  status,   \* the task row's status
  epoch,    \* tasks.event_epoch
  cards,    \* per user message of the transcript, the newest limit_hit after it
  cause,    \* whether the running or ended turn hit a limit, its reset known or not
  row,      \* task_limit_waits
  timer,    \* Engine.limitWaitCancel: the worker whose context can be canceled
  retryMu,  \* who is inside Retry, FollowUpWith or Cancel
  proc,     \* where each goroutine stands and what it read
  stopped,  \* history: a cancel dropped the timer after it was last armed
  turns, ops, errors, restarts

task   == <<status, epoch, cause>>
bounds == <<turns, ops, errors, restarts>>
vars   == <<status, epoch, cards, cause, row, timer, retryMu, proc, stopped,
            turns, ops, errors, restarts>>

Terminal == {"succeeded", "failed", "canceled"}
Active   == {"waiting", "probing"}

SleepPcs == {"sleep", "fired", "look", "claim"}
ClaimPcs == {"check", "restamp", "drop", "backoff", "block", "open", "retry",
             "commit", "reread", "again", "continued", "complete"}
\* A worker that no longer holds its claim, about to arm the next timer.
RearmPcs == {"rewait", "rearm"}
ArmPcs   == {"policy", "armcheck", "mark", "persist", "arm"}
UserPcs  == {"mark", "persist", "arm", "stop", "stoprow", "retry", "commit", "continued",
             "switched", "dismissed", "follow", "cancel"}

Card == [status: {"none", "open", "waiting", "continued", "switched", "dismissed",
                  "blocked"}, known: BOOLEAN]
Turn == Nat \X (1..MaxTurns)
Row  == [state: {"none", "completed", "canceled", "blocked"} \cup Active, turn: Turn,
         known: BOOLEAN, claim: Workers \cup {None}, due: BOOLEAN, late: BOOLEAN,
         expired: BOOLEAN]
Proc == [pc: {"off", "blockcard"} \cup SleepPcs \cup ClaimPcs \cup RearmPcs \cup ArmPcs
               \cup UserPcs,
         op: AllOps \cup {"auto"}, turn: Turn, known: BOOLEAN, hit: BOOLEAN,
         expired: BOOLEAN, dead: BOOLEAN]

TypeOK ==
  /\ status \in {"running", "retrying"} \cup Terminal
  /\ epoch \in Nat
  /\ cards \in Seq(Card) /\ Len(cards) \in 1..MaxTurns
  /\ cause \in {"none", "known", "unknown"}
  /\ row \in Row
  /\ timer \in Workers \cup {None}
  /\ timer # None => proc[timer].pc \in {"sleep", "fired"}
  /\ retryMu \in Procs \cup {None}
  /\ proc \in [Procs -> Proc]
  /\ stopped \in BOOLEAN
  /\ turns \in 1..MaxTurns /\ ops \in 0..MaxOps
  /\ errors \in 0..MaxErrors /\ restarts \in 0..MaxRestarts

NoCard == [status |-> "none", known |-> FALSE]
Off    == [pc |-> "off", op |-> "auto", turn |-> <<0, 1>>, known |-> FALSE,
           hit |-> FALSE, expired |-> FALSE, dead |-> FALSE]
NoWait == [state |-> "none", turn |-> <<0, 1>>, known |-> FALSE, claim |-> None,
           due |-> FALSE, late |-> FALSE, expired |-> FALSE]

Init ==
  /\ status = "running" /\ epoch = 0 /\ cards = <<NoCard>> /\ cause = "none"
  /\ row = NoWait /\ timer = None /\ retryMu = None
  /\ proc = [p \in Procs |-> Off]
  /\ stopped = FALSE
  /\ turns = 1 /\ ops = 0 /\ errors = 0 /\ restarts = 0

-----------------------------------------------------------------------------
(* Helpers *)

NextTurn == IF turns < MaxTurns THEN turns + 1 ELSE turns

\* event_epoch and the sequence number of the latest user message.
ThisTurn == <<epoch, Len(cards)>>
Newer(a, b) == a[1] > b[1] \/ (a[1] = b[1] /\ a[2] > b[2])

\* latestOpenLimitHit: the newest card of the transcript, unless it is settled.
Hits == {i \in 1..Len(cards) : cards[i].status # "none"}
LatestHit == IF Hits = {} THEN NoCard
             ELSE cards[CHOOSE i \in Hits : \A j \in Hits : j <= i]
HasHit == LatestHit.status \in {"open", "waiting", "blocked"}

\* patchLimitHitStatus: a new limit_hit after the latest user message.
Put(s, known) == cards' = [cards EXCEPT ![Len(cards)] = [status |-> s, known |-> known]]

Become(p, v) == proc' = [proc EXCEPT ![p] = v]
Goto(p, l)   == Become(p, [proc[p] EXCEPT !.pc = l])

\* cancelLimitWait
Dropped == IF timer = None THEN proc ELSE [proc EXCEPT ![timer].dead = TRUE]

\* armLimitWaitTimer: p returns, and x sleeps until the wait may be due.
ArmTimer(p, x) ==
  /\ timer' = x
  /\ proc' = [Dropped EXCEPT ![p] = Off, ![x] = [Off EXCEPT !.pc = "sleep"]]
  /\ stopped' = FALSE

\* The condition of UpdateTaskLimitWait and SetTaskLimitWaitStateClaimed.
Holds(w) == row.state = "probing" /\ row.claim = w

Released(state) == [row EXCEPT !.state = state, !.claim = None, !.late = FALSE,
                      !.due = @ /\ state \in Active, !.known = @ /\ state \in Active]

-----------------------------------------------------------------------------
(* The turn *)

\* maybeEmitLimitHit: nothing if the turn has a card already.
HitsLimit ==
  /\ status = "running" /\ cause = "none" /\ turns < MaxTurns
  /\ \E known \in BOOLEAN :
       /\ cause' = IF known THEN "known" ELSE "unknown"
       /\ IF cards[Len(cards)].status = "none" THEN Put("open", known) ELSE UNCHANGED cards
  /\ UNCHANGED <<status, epoch, row, timer, retryMu, proc, stopped, bounds>>

\* finishRun.  A failed run goes on to the policy.
TurnEnds(f) ==
  /\ status = "running" /\ proc[f].pc = "off"
  /\ \/ /\ cause = "none"
        /\ status' = "succeeded" /\ UNCHANGED proc
     \/ /\ cause # "none" \/ turns < MaxTurns
        /\ status' = "failed" /\ Goto(f, "policy")
  /\ UNCHANGED <<epoch, cards, cause, row, timer, retryMu, stopped, bounds>>

\* The newest open card, of whatever turn, decides.
Policy(f) ==
  /\ proc[f].pc = "policy"
  /\ Become(f, IF HasHit THEN [Off EXCEPT !.pc = "armcheck", !.known = LatestHit.known]
               ELSE Off)
  /\ UNCHANGED <<task, cards, row, timer, retryMu, stopped, bounds>>

\* autoArmWait
ArmCheck(f) ==
  /\ proc[f].pc = "armcheck"
  /\ Goto(f, IF status = "failed" THEN "mark" ELSE "off")
  /\ UNCHANGED <<task, cards, row, timer, retryMu, stopped, bounds>>

\* The card says waiting; then the turn is read that the wait will be for.
Mark(p) ==
  /\ proc[p].pc = "mark"
  /\ Put("waiting", proc[p].known)
  /\ Become(p, [proc[p] EXCEPT !.pc = "persist", !.turn = ThisTurn])
  /\ UNCHANGED <<task, row, timer, retryMu, stopped, bounds>>

\* UpsertTaskLimitWaitMonotonic, or the user's UpsertTaskLimitWait.
Replaces(p) ==
  \/ proc[p].op = "wait"
  \/ row.state \notin Active
  \/ Newer(proc[p].turn, row.turn)
  \/ proc[p].turn = row.turn /\ (row.known => proc[p].known)

Persist(p) ==
  /\ proc[p].pc = "persist"
  /\ row' = IF Replaces(p)
              THEN [NoWait EXCEPT !.state = "waiting", !.turn = proc[p].turn,
                      !.known = proc[p].known,
                      !.expired = row.expired /\ row.turn = proc[p].turn]
              ELSE row
  /\ Goto(p, "arm")
  /\ UNCHANGED <<task, cards, timer, retryMu, stopped, bounds>>

Arm(p) ==
  /\ proc[p].pc = "arm"
  /\ \E x \in Workers : proc[x].pc = "off" /\ ArmTimer(p, x)
  /\ UNCHANGED <<task, cards, row, retryMu, bounds>>

-----------------------------------------------------------------------------
(* Time *)

\* The deadline of the wait passes, the wait has lasted too long, the lease of a
\* claim runs out.
Due     == row.state \in Active /\ ~row.due /\ row' = [row EXCEPT !.due = TRUE]
Expires == row.state \in Active /\ ~row.expired /\ row' = [row EXCEPT !.expired = TRUE]
Late    == row.state = "probing" /\ ~row.late /\ row' = [row EXCEPT !.late = TRUE]

TimePasses ==
  /\ Due \/ Expires \/ Late
  /\ UNCHANGED <<task, cards, timer, retryMu, proc, stopped, bounds>>

-----------------------------------------------------------------------------
(* runLimitWait *)

\* The timer, or the context, whichever select takes.
Wake(w) ==
  /\ proc[w].pc = "sleep"
  /\ \/ Goto(w, "fired")
     \/ proc[w].dead /\ Become(w, Off)
  /\ UNCHANGED <<task, cards, row, timer, retryMu, stopped, bounds>>

\* Mutant: the entry of a timer that has fired stays.
FiredKeepsEntry(w) ==
  /\ proc[w].pc = "fired"
  /\ Goto(w, "look")
  /\ UNCHANGED <<task, cards, row, timer, retryMu, stopped, bounds>>

\* The registry entry is deleted whosever it is.
Fired(w) ==
  /\ proc[w].pc = "fired"
  /\ timer' = None
  /\ Goto(w, "look")
  /\ UNCHANGED <<task, cards, row, retryMu, stopped, bounds>>

\* Mutant: a timer that fires too early is not armed again.
LookOnce(w) ==
  /\ proc[w].pc = "look"
  /\ Goto(w, IF proc[w].dead \/ row.state \notin Active \/ ~row.due THEN "off" ELSE "claim")
  /\ UNCHANGED <<task, cards, row, timer, retryMu, stopped, bounds>>

\* A canceled context fails the read.  Too early, the timer is armed again.
Look(w) ==
  /\ proc[w].pc = "look"
  /\ IF proc[w].dead \/ row.state \notin Active
       THEN Become(w, Off) /\ UNCHANGED <<timer, stopped>>
     ELSE IF row.due THEN Goto(w, "claim") /\ UNCHANGED <<timer, stopped>>
     ELSE ArmTimer(w, w)
  /\ UNCHANGED <<task, cards, row, retryMu, bounds>>

\* ClaimTaskLimitWait: waiting, or probing under a lease that has run out.
Claim(w) ==
  /\ proc[w].pc = "claim"
  /\ IF row.due /\ (row.state = "waiting" \/ (row.state = "probing" /\ row.late))
       THEN /\ row' = [row EXCEPT !.state = "probing", !.claim = w, !.late = FALSE]
            /\ Become(w, [Off EXCEPT !.pc = "check", !.turn = row.turn,
                                     !.known = row.known, !.expired = row.expired])
       ELSE Become(w, Off) /\ UNCHANGED row
  /\ UNCHANGED <<task, cards, timer, retryMu, stopped, bounds>>

\* The task still failed in the turn the wait is for?
Check(w) ==
  /\ proc[w].pc = "check"
  /\ Become(w, CASE status = "running" -> [Off EXCEPT !.pc = "restamp", !.turn = ThisTurn]
                 [] status = "failed" /\ proc[w].turn = ThisTurn ->
                      IF proc[w].known THEN [Off EXCEPT !.pc = "open"]
                      ELSE IF proc[w].expired THEN [Off EXCEPT !.pc = "block"]
                      ELSE [Off EXCEPT !.pc = "backoff", !.turn = ThisTurn]
                 [] OTHER -> [Off EXCEPT !.pc = "drop"])
  /\ UNCHANGED <<task, cards, row, timer, retryMu, stopped, bounds>>

\* UpdateTaskLimitWait: back to waiting, for the turn the worker has in hand.
WaitAgain(w, next) ==
  IF Holds(w)
    THEN /\ row' = [Released("waiting") EXCEPT !.turn = proc[w].turn, !.due = FALSE]
         /\ Goto(w, next)
    ELSE Become(w, Off) /\ UNCHANGED row

\* A run in progress keeps the wait, for its own turn; a reset nobody knows is
\* waited for with growing intervals.
Backoff(w) ==
  /\ proc[w].pc \in {"restamp", "backoff"}
  /\ WaitAgain(w, "rearm")
  /\ UNCHANGED <<task, cards, timer, retryMu, stopped, bounds>>

Rearm(w) ==
  /\ proc[w].pc = "rearm"
  /\ ArmTimer(w, w)
  /\ UNCHANGED <<task, cards, row, retryMu, bounds>>

\* SetTaskLimitWaitStateClaimed
Settle(w) ==
  /\ proc[w].pc \in {"drop", "block", "complete"}
  /\ row' = IF ~Holds(w) THEN row
            ELSE Released(CASE proc[w].pc = "drop"     -> "canceled"
                            [] proc[w].pc = "block"    -> "blocked"
                            [] proc[w].pc = "complete" -> "completed")
  /\ Goto(w, IF proc[w].pc = "block" THEN "blockcard" ELSE "off")
  /\ UNCHANGED <<task, cards, timer, retryMu, stopped, bounds>>

BlockCard(w) ==
  /\ proc[w].pc = "blockcard"
  /\ IF HasHit THEN Put("blocked", LatestHit.known) ELSE UNCHANGED cards
  /\ Become(w, Off)
  /\ UNCHANGED <<task, row, timer, retryMu, stopped, bounds>>

Open(w) ==
  /\ proc[w].pc = "open"
  /\ Become(w, [Off EXCEPT !.pc = IF HasHit THEN "retry" ELSE "drop",
                           !.known = HasHit /\ LatestHit.known])
  /\ UNCHANGED <<task, cards, row, timer, retryMu, stopped, bounds>>

\* After a retry that failed: the wait goes on, for the turn as it is now.
Reread(w) ==
  /\ proc[w].pc = "reread"
  /\ Become(w, [proc[w] EXCEPT !.pc = "again", !.turn = ThisTurn])
  /\ UNCHANGED <<task, cards, row, timer, retryMu, stopped, bounds>>

Again(w) ==
  /\ proc[w].pc = "again"
  /\ WaitAgain(w, "rewait")
  /\ UNCHANGED <<task, cards, timer, retryMu, stopped, bounds>>

Rewait(w) ==
  /\ proc[w].pc = "rewait"
  /\ Put("waiting", proc[w].known)
  /\ Goto(w, "rearm")
  /\ UNCHANGED <<task, row, timer, retryMu, stopped, bounds>>

-----------------------------------------------------------------------------
(* Retry, by a worker or by the user's continue *)

RetryFails(p) == Become(p, IF p = Api THEN Off ELSE [proc[p] EXCEPT !.pc = "reread"])

\* Only an ended task; then BeginRetryRestore reserves it, or fails.
RetryBegin(p) ==
  /\ proc[p].pc = "retry" /\ retryMu = None
  /\ \/ /\ status \in Terminal
        /\ status' = "retrying" /\ retryMu' = p
        /\ Goto(p, "commit")
        /\ UNCHANGED errors
     \/ /\ status \notin Terminal
        /\ RetryFails(p)
        /\ UNCHANGED <<status, retryMu, errors>>
     \/ /\ errors < MaxErrors /\ errors' = errors + 1
        /\ RetryFails(p)
        /\ UNCHANGED <<status, retryMu>>
  /\ UNCHANGED <<epoch, cards, cause, row, timer, stopped, turns, ops, restarts>>

\* CompleteRetryRestore: the latest user message is taken from the transcript
\* with all that follows it, and written anew.
RetryCommit(p) ==
  /\ proc[p].pc = "commit"
  /\ status' = "running" /\ epoch' = epoch + 1 /\ cause' = "none"
  /\ cards' = [cards EXCEPT ![Len(cards)] = NoCard]
  /\ retryMu' = None
  /\ turns' = NextTurn
  /\ Become(p, IF p = Api /\ ~proc[p].hit THEN Off ELSE [proc[p] EXCEPT !.pc = "continued"])
  /\ UNCHANGED <<row, timer, stopped, ops, errors, restarts>>

\* compensateRetryRestore gives the task its status back.
RetryUndone(p) ==
  /\ proc[p].pc = "commit" /\ errors < MaxErrors
  /\ errors' = errors + 1
  /\ status' = "failed" /\ retryMu' = None
  /\ RetryFails(p)
  /\ UNCHANGED <<epoch, cards, cause, row, timer, stopped, turns, ops, restarts>>

\* The card that was open before the retry is marked continued, after it.
Continued(p) ==
  /\ proc[p].pc = "continued"
  /\ Put("continued", proc[p].known)
  /\ Goto(p, IF p = Api THEN "off" ELSE "complete")
  /\ UNCHANGED <<task, row, timer, retryMu, stopped, bounds>>

-----------------------------------------------------------------------------
(* LimitContinue, FollowUpWith and Cancel *)

FirstPlace(op) ==
  CASE op = "wait"     -> "mark"
    [] op = "continue" -> "stop"
    [] op = "switch"   -> IF HasHit THEN "switched" ELSE "stop"
    [] op = "dismiss"  -> IF HasHit THEN "dismissed" ELSE "off"
    [] op = "followup" -> "follow"

\* The task and its card are read first.  A wait may bring its own reset time.
Begin(op) ==
  /\ proc[Api].pc = "off" /\ ops < MaxOps /\ op \in Ops \ {"cancel"}
  /\ status \in (IF op = "wait" THEN {"failed"} ELSE Terminal)
  /\ ops' = ops + 1
  /\ \E known \in {LatestHit.known} \cup (IF op = "wait" THEN {TRUE} ELSE {}) :
       Become(Api, [Off EXCEPT !.pc = FirstPlace(op), !.op = op, !.hit = HasHit,
                               !.known = known])
  /\ UNCHANGED <<task, cards, row, timer, retryMu, stopped, turns, errors, restarts>>

Patched ==
  /\ proc[Api].pc \in {"switched", "dismissed"}
  /\ Put(proc[Api].pc, proc[Api].known)
  /\ Goto(Api, IF proc[Api].pc = "switched" THEN "stop" ELSE "off")
  /\ UNCHANGED <<task, row, timer, retryMu, stopped, bounds>>

StopTimer ==
  /\ proc[Api].pc = "stop"
  /\ timer' = None
  /\ proc' = [Dropped EXCEPT ![Api].pc = "stoprow"]
  /\ UNCHANGED <<task, cards, row, retryMu, stopped, bounds>>

\* SetTaskLimitWaitState: no claim is asked for.
StopRow ==
  /\ proc[Api].pc = "stoprow"
  /\ row' = IF row.state = "none" THEN row ELSE Released("canceled")
  /\ Goto(Api, IF proc[Api].op = "continue" THEN "retry" ELSE "follow")
  /\ UNCHANGED <<task, cards, timer, retryMu, stopped, bounds>>

\* The message of a follow-up to an ended task starts its next turn.
Follow ==
  /\ proc[Api].pc = "follow" /\ retryMu = None
  /\ Become(Api, Off)
  /\ IF status \in Terminal /\ turns < MaxTurns
       THEN /\ status' = "running" /\ cause' = "none"
            /\ cards' = Append(cards, NoCard) /\ turns' = turns + 1
       ELSE UNCHANGED <<status, cause, cards, turns>>
  /\ UNCHANGED <<epoch, row, timer, retryMu, stopped, ops, errors, restarts>>

\* cancelTask drops the timer before it looks at the task.
CancelBegin ==
  /\ proc[Api].pc = "off" /\ ops < MaxOps /\ "cancel" \in Ops /\ retryMu = None
  /\ ops' = ops + 1
  /\ retryMu' = Api
  /\ timer' = None
  /\ stopped' = TRUE
  /\ proc' = [Dropped EXCEPT ![Api] = [Off EXCEPT !.pc = "cancel", !.op = "cancel"]]
  /\ UNCHANGED <<task, cards, row, turns, errors, restarts>>

CancelWrite ==
  /\ proc[Api].pc = "cancel"
  /\ status' = IF status = "running" THEN "canceled" ELSE status
  /\ retryMu' = None
  /\ Become(Api, Off)
  /\ UNCHANGED <<epoch, cards, cause, row, timer, stopped, bounds>>

-----------------------------------------------------------------------------
(* The daemon dies. *)

\* Mutant: claims of the dead process keep their lease.
ClaimsKept == row

\* RequeueTaskLimitWaitClaims
ClaimsReleased == IF row.state = "probing" THEN Released("waiting") ELSE row

\* A retry whose intent is stored is completed or undone; another turn that ran
\* is an orphan.  Then recoverLimitWaits: a live row gets a timer, and a card
\* without a row is armed as at the end of a run.
Restart ==
  /\ restarts < MaxRestarts
  /\ restarts' = restarts + 1
  /\ \/ /\ status = "retrying"
        /\ status' = "running" /\ epoch' = epoch + 1 /\ cause' = "none" /\ turns' = NextTurn
        /\ cards' = [cards EXCEPT ![Len(cards)] = NoCard]
     \/ /\ status' = IF status \in Terminal THEN status ELSE "failed"
        /\ UNCHANGED <<epoch, cards, cause, turns>>
  /\ row' = ClaimsReleased
  /\ retryMu' = None
  /\ LET off == [p \in Procs |-> Off] IN
     IF row'.state \in Active
       THEN \E x \in Workers :
              /\ timer' = x /\ stopped' = FALSE
              /\ proc' = [off EXCEPT ![x].pc = "sleep"]
     ELSE IF row.state = "none" /\ status' = "failed" /\ HasHit /\ LatestHit.status # "blocked"
             /\ (LatestHit.status = "waiting" \/ LatestHit.known)
       THEN \E f \in Finishers :
              /\ proc' = [off EXCEPT ![f].known = LatestHit.known, ![f].turn = <<epoch, Len(cards)>>,
                            ![f].pc = IF LatestHit.status = "waiting" THEN "persist" ELSE "armcheck"]
              /\ timer' = None /\ UNCHANGED stopped
     ELSE proc' = off /\ timer' = None /\ UNCHANGED stopped
  /\ UNCHANGED <<ops, errors>>

-----------------------------------------------------------------------------
Arming(p) == Policy(p) \/ ArmCheck(p) \/ Mark(p) \/ Persist(p) \/ Arm(p)

RetryBy(p) == RetryBegin(p) \/ RetryCommit(p) \/ RetryUndone(p) \/ Continued(p)

Working(w) ==
  \/ Wake(w) \/ Fired(w) \/ Look(w) \/ Claim(w) \/ Check(w) \/ Backoff(w) \/ Rearm(w)
  \/ Settle(w) \/ BlockCard(w) \/ Open(w) \/ RetryBy(w)
  \/ Reread(w) \/ Again(w) \/ Rewait(w)

Requested == \/ Patched \/ StopTimer \/ StopRow \/ Follow \/ CancelWrite \/ RetryBy(Api)
             \/ Mark(Api) \/ Persist(Api) \/ Arm(Api)

Next ==
  \/ HitsLimit \/ TimePasses \/ Requested \/ CancelBegin \/ Restart
  \/ \E op \in AllOps : Begin(op)
  \/ \E f \in Finishers : TurnEnds(f) \/ Arming(f)
  \/ \E w \in Workers : Working(w)

\* Deadlines pass, turns end, goroutines go on; users owe nothing.
Fairness ==
  /\ WF_vars(Due /\ TimePasses) /\ WF_vars(Expires /\ TimePasses)
  /\ WF_vars(\E f \in Finishers : TurnEnds(f))
  /\ \A f \in Finishers : WF_vars(Arming(f))
  /\ \A w \in Workers : WF_vars(Working(w))
  /\ WF_vars(Requested)

Spec == Init /\ [][Next]_vars
FairSpec == Spec /\ Fairness

-----------------------------------------------------------------------------
(* What quota waits promise *)

\* A wait that reads probing is in the hands of a worker that will write it
\* again: no early return of runLimitWait leaves a claim behind.
ClaimIsHeld ==
  row.state = "probing" => row.claim # None /\ proc[row.claim].pc \in ClaimPcs

\* A worker that will look at the row.
Wakes(w) == proc[w].pc \in SleepPcs \cup {"rewait", "rearm"} /\ ~proc[w].dead

\* The persisted deadline always has a wake-up, or somebody who is about to arm
\* or to end it, unless a cancel dropped the timer.
WaitHasWake ==
  row.state = "waiting" /\ ~stopped =>
    \/ \E w \in Workers : Wakes(w)
    \/ \E p \in Procs : proc[p].pc \in {"arm", "stoprow"}

\* A wait that has not ended is tended: somebody who holds it, or will wake up.
WaitIsTended == ClaimIsHeld /\ WaitHasWake

\* A wait comes to an end: it is continued, given up or blocked.
WaitEnds == row.state \in Active ~> (row.state \notin Active \/ stopped)

-----------------------------------------------------------------------------
(* What waits do not keep: each of these is refuted (see README.md). *)

\* With policy wait and a known reset, a turn that failed on its quota is waited
\* for (docs: quota waits needing manual continuation when reset is known: 0).
KnownResetContinues ==
  status = "failed" /\ cause = "known" /\ (\A f \in Finishers : proc[f].pc = "off")
    => row.state \in Active

\* What is retried without being asked for is a turn that failed on its quota.
OnlyLimitedTurnsRerun ==
  [][\A w \in Workers : proc[w].pc = "retry" /\ proc'[w].pc = "commit" =>
       cause # "none"]_vars

=============================================================================

--------------------------- MODULE RoutinesProofs ---------------------------
(***************************************************************************)
(* What the scheduler of routines keeps, for every number of routines, due *)
(* times, requests, edits, restarts, store errors and requests given up,   *)
(* and every limit of the lane: the types of its state, at most one run    *)
(* for an occurrence, no more runs that the scheduler knows of than the    *)
(* lane has room for, and no run for a routine that is gone.               *)
(***************************************************************************)
EXTENDS Routines, FiniteSetTheorems, TLAPS

\* Where the holder of tickMu can stand, by what it came for; and past the lists
\* it knows the routine it is busy with, and the ledger row.
HolderInv ==
  /\ sch.by = "recover" => sch.pc \in {"recover", "look", "create", "settle"}
  /\ sch.by \in Requests => sch.pc \in {"look", "create", "settle"}
  /\ sch.pc = "recover" => sch.by = "recover"
  /\ sch.by = "recover" => \A e \in sch.todo : e[1] \in DOMAIN log
  /\ sch.pc \in {"begin", "look", "create", "settle", "complete"} => sch.r \in Routines

\* The rows of the ledger are those of the occurrences, one for each.
OneRow ==
  \A d, e \in DOMAIN log :
    log[d].r = log[e].r /\ log[d].due = log[e].due /\ log[d].due > 0 => d = e

\* The room the holder has read of the lane is still there: nobody else makes a
\* task live.  A tick that has claimed a routine has taken its place out of the
\* room already; a request, and a recovered row about to run, have found one free.
LiveTasks == {d \in DOMAIN log : log[d].task = "live"}
Live == Cardinality(LiveTasks)

RoomInv ==
  /\ Live <= Limit
  /\ sch.pc # "idle" /\ sch.by \notin Requests => Live + sch.room <= Limit
  /\ sch.by = "tick" /\ sch.pc \in {"begin", "look", "create"} =>
       sch.room >= 0 /\ Live + sch.room < Limit
  /\ sch.by = "recover" /\ sch.pc = "create" => sch.room > 0
  /\ sch.by \in Requests /\ sch.pc \in {"look", "create"} => Live < Limit

\* A dispatch in progress keeps its routine; a row is settled as dispatched only
\* when it has its task, and a task is created only for a row that has none.
LedgerInv ==
  /\ \A d \in DOMAIN log : log[d].state \in Pending => Kept(d)
  /\ \A d \in DOMAIN log : log[d].state = "dispatched" => log[d].task # "none"
  /\ sch.pc = "settle" /\ sch.verdict = "dispatched" => log[sch.d].task # "none"
  /\ sch.pc = "create" => log[sch.d].task = "none"

IInv == TypeOK /\ HolderInv /\ OneRow /\ RoomInv /\ LedgerInv

-----------------------------------------------------------------------------
(* The ledger, and who is live in it *)

\* A sequence of entries is a function on its places,
LEMMA Places ==
  ASSUME log \in Seq(Entry)
  PROVE  /\ DOMAIN log = 1..Len(log) /\ Len(log) \in Nat
         /\ log \in [DOMAIN log -> Entry]
OBVIOUS

\* and stays one when entries are rewritten, which leave the occurrence alone,
LEMMA Rewritten ==
  ASSUME log \in Seq(Entry), OneRow, log' \in [DOMAIN log -> Entry],
         \A d \in DOMAIN log : log'[d].r = log[d].r /\ log'[d].due = log[d].due
  PROVE  log' \in Seq(Entry) /\ DOMAIN log' = DOMAIN log /\ OneRow'
<1>1. log' \in [1..Len(log) -> Entry] /\ Len(log) \in Nat
  BY Places
<1>2. log' \in Seq(Entry)
  BY <1>1
<1>3. DOMAIN log' = DOMAIN log
  OBVIOUS
<1> QED
  BY <1>2, <1>3 DEF OneRow

\* or when one is added, for an occurrence that has none.
LEMMA Added ==
  ASSUME log \in Seq(Entry), OneRow, NEW r \in Routines, NEW due \in 0..MaxArrivals,
         NEW state \in Pending, log' = Reserve(r, due, state), due = 0 \/ Reserved(r, due) = {}
  PROVE  /\ log' \in Seq(Entry) /\ OneRow'
         /\ DOMAIN log' = DOMAIN log \cup {Len(log) + 1} /\ Len(log) + 1 \notin DOMAIN log
         /\ \A d \in DOMAIN log : log'[d] = log[d]
         /\ LET e == log'[Len(log) + 1]
            IN  e.r = r /\ e.due = due /\ e.state = state /\ e.task = "none" /\ e.origin = FALSE
<1> DEFINE e == [r |-> r, due |-> due, state |-> state, task |-> "none", origin |-> FALSE]
<1>1. e \in Entry
  BY DEF Entry
<1>2. e.r = r /\ e.due = due /\ e.state = state /\ e.task = "none" /\ e.origin = FALSE
  OBVIOUS
<1>3. log' = Append(log, e)
  BY DEF Reserve
<1> HIDE DEF e
<1>4. /\ log' \in Seq(Entry) /\ Len(log) \in Nat
      /\ DOMAIN log = 1..Len(log) /\ DOMAIN log' = 1..(Len(log) + 1)
      /\ \A d \in 1..Len(log) : log'[d] = log[d]
      /\ log'[Len(log) + 1] = e
  BY <1>1, <1>3
<1>5. /\ DOMAIN log' = DOMAIN log \cup {Len(log) + 1} /\ Len(log) + 1 \notin DOMAIN log
      /\ \A d \in DOMAIN log : log'[d] = log[d]
  BY <1>4
<1>6. due = 0 \/ \A d \in DOMAIN log : ~(log[d].r = r /\ log[d].due = due)
  BY DEF Reserved
<1>7. OneRow'
  BY <1>2, <1>4, <1>5, <1>6 DEF OneRow
<1> QED
  BY <1>2, <1>4, <1>5, <1>7

\* The tasks that are live are finitely many, and no more than the lane counts;
LEMMA LiveCount ==
  ASSUME log \in Seq(Entry)
  PROVE  IsFiniteSet(LiveTasks) /\ Live \in Nat /\ InLane \in Nat /\ Live <= InLane
<1> DEFINE lane == {d \in DOMAIN log : log[d].task \in InFlight}
<1>1. IsFiniteSet(1..Len(log))
  <2>1. Len(log) \in Int
    BY Places
  <2> QED
    BY <2>1, FS_Interval
<1>2. LiveTasks \subseteq lane /\ lane \subseteq 1..Len(log)
  BY Places DEF LiveTasks, InFlight, Running
<1>3. IsFiniteSet(lane)
  BY <1>1, <1>2, FS_Subset
<1> QED
  BY <1>2, <1>3, FS_Subset, FS_CardinalityType DEF Live, InLane

\* a step that revives none of the ledger does not raise their number,
LEMMA LiveShrinks ==
  ASSUME log \in Seq(Entry), LiveTasks' \subseteq LiveTasks
  PROVE  Live' <= Live /\ Live' \in Nat
<1>1. IsFiniteSet(LiveTasks)
  BY LiveCount
<1>2. IsFiniteSet(LiveTasks') /\ Cardinality(LiveTasks') <= Cardinality(LiveTasks)
  BY <1>1, FS_Subset
<1> QED
  BY <1>2, FS_CardinalityType DEF Live

\* one that makes one task live raises it by one at most.
LEMMA LiveGrows ==
  ASSUME log \in Seq(Entry), NEW d, LiveTasks' \subseteq LiveTasks \cup {d}
  PROVE  Live' <= Live + 1 /\ Live' \in Nat
<1>1. IsFiniteSet(LiveTasks)
  BY LiveCount
<1>2. /\ IsFiniteSet(LiveTasks \cup {d})
      /\ Cardinality(LiveTasks \cup {d}) <= Cardinality(LiveTasks) + 1
  BY <1>1, FS_AddElement, FS_CardinalityType
<1>3. IsFiniteSet(LiveTasks') /\ Cardinality(LiveTasks') <= Cardinality(LiveTasks \cup {d})
  BY <1>2, FS_Subset
<1>4. /\ Cardinality(LiveTasks') \in Nat /\ Cardinality(LiveTasks) \in Nat
      /\ Cardinality(LiveTasks \cup {d}) \in Nat
  BY <1>1, <1>2, <1>3, FS_CardinalityType
<1> QED
  BY <1>2, <1>3, <1>4 DEF Live

-----------------------------------------------------------------------------
(* The holder of tickMu *)

\* Nobody holds it.
LEMMA IdleHolder ==
  /\ Idle \in Holder
  /\ Idle.pc = "idle" /\ Idle.by = "tick" /\ Idle.todo = {}
BY RoutinesAssumption DEF RoutinesAssumption, Idle, Holder

\* The steps below are those of the holder; what it has in hand then obeys its part
\* of the invariant.
SchFine ==
  /\ sch' \in Holder
  /\ sch'.pc \in {"look", "create", "settle"} => sch'.d \in DOMAIN log'
  /\ HolderInv'

\* When it gives the lock back
LEMMA GivesBack ==
  ASSUME sch' = Idle, Live' <= Limit
  PROVE  /\ SchFine /\ RoomInv'
         /\ sch'.pc = "idle"
BY IdleHolder DEF SchFine, HolderInv, RoomInv, Requests

\* or goes on with the next of its list.
LEMMA Proceeds ==
  ASSUME TypeOK, HolderInv, NEW s \in Holder, sch' = Proceed(s), DOMAIN log \subseteq DOMAIN log',
         s.by = sch.by, s.todo = sch.todo, Live' \in Nat, Live' <= Limit,
         s.by \notin Requests => Live' + s.room <= Limit
  PROVE  /\ SchFine /\ RoomInv'
         /\ sch'.pc \in {"idle", "recover", "claim"}
<1>1. CASE s.by \in Requests
  BY <1>1, GivesBack DEF Proceed
<1>2. CASE s.by \notin Requests
  <2>1. /\ sch' = [Idle EXCEPT !.pc = IF s.by = "recover" THEN "recover" ELSE "claim",
                               !.by = s.by, !.room = s.room, !.todo = s.todo]
        /\ s.by \in {"recover", "tick"}
    BY <1>2 DEF Proceed, Holder, Requests
  <2>2. /\ sch'.pc = IF s.by = "recover" THEN "recover" ELSE "claim"
        /\ sch'.by = s.by /\ sch'.room = s.room /\ sch'.todo = s.todo
    BY <2>1 DEF Idle
  <2>3. sch' \in Holder
    <3>1. s.room \in Int /\ s.todo \in SUBSET (Nat \X Routines)
      BY DEF Holder
    <3> DEFINE pc == IF s.by = "recover" THEN "recover" ELSE "claim"
    <3>2. pc \in {"idle"} \cup Steps
      BY DEF Steps
    <3> HIDE DEF pc
    <3>3. sch' = [Idle EXCEPT !.pc = pc, !.by = s.by, !.room = s.room, !.todo = s.todo]
      BY <2>1 DEF pc
    <3> QED
      BY <2>1, <3>1, <3>2, <3>3, IdleHolder DEF Holder
  <2>4. HolderInv'
    BY <2>1, <2>2 DEF HolderInv, Requests
  <2>5. RoomInv'
    BY <2>1, <2>2 DEF RoomInv, Requests
  <2> QED
    BY <2>1, <2>2, <2>3, <2>4, <2>5 DEF SchFine
<1> QED
  BY <1>1, <1>2

-----------------------------------------------------------------------------
(* Time, tasks, users and restarts, which take no lock *)

\* A step that leaves the holder alone takes no room from it,
LEMMA HolderUntouched ==
  ASSUME TypeOK, HolderInv, RoomInv, sch' = sch, DOMAIN log' = DOMAIN log,
         Live' <= Live, Live' \in Nat
  PROVE  SchFine /\ RoomInv'
<1>1. SchFine
  BY DEF SchFine, HolderInv, TypeOK
<1>2. Live \in Nat /\ Limit \in Nat /\ sch.room \in Int
  BY LiveCount, RoutinesAssumption DEF RoutinesAssumption, TypeOK, Holder
<1>3. RoomInv'
  BY <1>2 DEF RoomInv
<1> QED
  BY <1>1, <1>3

\* nor, when it settles no row and deletes no routine of a dispatch in progress,
\* from the ledger.
LEMMA LedgerUntouched ==
  ASSUME TypeOK, LedgerInv, sch' = sch \/ sch'.pc = "idle", DOMAIN log' = DOMAIN log,
         \A d \in DOMAIN log : /\ log'[d].state = log[d].state /\ log'[d].r = log[d].r
                               /\ log'[d].task = "none" <=> log[d].task = "none"
                               /\ log[d].state \in Pending /\ Kept(d) =>
                                    row'[log[d].r].state # "gone"
  PROVE  LedgerInv'
BY DEF LedgerInv, Kept, TypeOK

\* The routines table alone is written,
LEMMA RowWritten ==
  ASSUME IInv, row' \in [Routines -> Row], UNCHANGED <<log, sch>>,
         \A d \in DOMAIN log : log[d].state \in Pending => row'[log[d].r].state # "gone",
         arrivals' \in 0..MaxArrivals, manual' \in 0..MaxManual, edits' \in 0..MaxEdits,
         troubles' \in 0..MaxTroubles
  PROVE  IInv'
<1>1. log \in Seq(Entry)
  BY DEF IInv, TypeOK
<1>2. LiveTasks' = LiveTasks
  BY DEF LiveTasks
<1>3. Live' <= Live /\ Live' \in Nat
  BY <1>1, <1>2, LiveShrinks
<1>4. SchFine /\ RoomInv'
  BY <1>3, HolderUntouched DEF IInv
<1>5. LedgerInv'
  BY LedgerUntouched DEF IInv
<1>6. OneRow'
  BY DEF IInv, OneRow
<1>7. TypeOK'
  BY <1>1, <1>4 DEF TypeOK, SchFine
<1> QED
  BY <1>4, <1>5, <1>6, <1>7 DEF IInv, SchFine

\* when a due time passes, when a lease runs out, and when users edit a routine.
LEMMA RowSteps ==
  ASSUME IInv, NEW r \in Routines,
         Arrive(r) \/ LeaseEnds(r) \/ Toggle(r) \/ Reschedule(r) \/ Delete(r)
  PROVE  IInv'
<1> USE RoutinesAssumption DEF RoutinesAssumption
<1>1. row \in [Routines -> Row] /\ log \in [DOMAIN log -> Entry]
  BY Places DEF IInv, TypeOK
<1>2. \A d \in DOMAIN log : log[d].state \in Pending => row[log[d].r].state # "gone"
  BY DEF IInv, LedgerInv, Kept
<1>3. \A d \in DOMAIN log : log[d].r \in Routines
  BY <1>1 DEF Entry
<1>4. /\ arrivals \in 0..MaxArrivals /\ manual \in 0..MaxManual
      /\ edits \in 0..MaxEdits /\ troubles \in 0..MaxTroubles
  BY DEF IInv, TypeOK
<1>5. CASE Arrive(r)
  <2>1. arrivals' \in 0..MaxArrivals
    BY <1>4, <1>5 DEF Arrive
  <2>2. row' \in [Routines -> Row]
    BY <1>1, <1>5, <2>1 DEF Arrive, Row
  <2>3. \A q \in Routines : row'[q].state = row[q].state
    BY <1>1, <1>5 DEF Arrive, Row
  <2> QED
    BY <1>2, <1>3, <1>4, <1>5, <2>1, <2>2, <2>3, RowWritten DEF Arrive
<1>6. CASE LeaseEnds(r)
  <2>1. row' \in [Routines -> Row] /\ \A q \in Routines : row'[q].state = row[q].state
    BY <1>1, <1>6 DEF LeaseEnds, Row
  <2> QED
    BY <1>2, <1>3, <1>4, <1>6, <2>1, RowWritten DEF LeaseEnds, bounds
<1>7. CASE Toggle(r)
  <2>1. row' \in [Routines -> Row]
    BY <1>1, <1>7 DEF Toggle, Row
  <2>2. \A q \in Routines : row[q].state # "gone" => row'[q].state # "gone"
    BY <1>1, <1>7 DEF Toggle, Row
  <2> QED
    BY <1>2, <1>3, <1>4, <1>7, <2>1, <2>2, RowWritten DEF Toggle, Edit
<1>8. CASE Reschedule(r)
  <2>1. row' \in [Routines -> Row] /\ \A q \in Routines : row'[q].state = row[q].state
    BY <1>1, <1>8 DEF Reschedule, Row
  <2> QED
    BY <1>2, <1>3, <1>4, <1>8, <2>1, RowWritten DEF Reschedule, Edit
<1>9. CASE Delete(r)
  <2>1. row' \in [Routines -> Row] /\ \A q \in Routines \ {r} : row'[q] = row[q]
    BY <1>1, <1>9 DEF Delete, Row
  <2>2. \A d \in DOMAIN log : log[d].state \in Pending => log[d].r # r
    BY <1>9 DEF Delete, InDispatch
  <2> QED
    BY <1>2, <1>3, <1>4, <1>9, <2>1, <2>2, RowWritten DEF Delete, Edit
<1> QED
  BY <1>5, <1>6, <1>7, <1>8, <1>9

\* The tasks of the ledger's rows go on: they end, they are revived, or they die
\* with the process, which frees tickMu.
LEMMA TasksWritten ==
  ASSUME IInv, row' \in [Routines -> Row], log' \in [DOMAIN log -> Entry],
         sch' = sch \/ sch' = Idle,
         \A d \in DOMAIN log :
            /\ log'[d].r = log[d].r /\ log'[d].due = log[d].due /\ log'[d].state = log[d].state
            /\ log'[d].task = "none" <=> log[d].task = "none"
            /\ log'[d].task = "live" => log[d].task = "live",
         \A r \in Routines : row[r].state # "gone" => row'[r].state # "gone",
         arrivals' \in 0..MaxArrivals, manual' \in 0..MaxManual, edits' \in 0..MaxEdits,
         troubles' \in 0..MaxTroubles
  PROVE  IInv'
<1>1. log \in Seq(Entry)
  BY DEF IInv, TypeOK
<1>2. log' \in Seq(Entry) /\ DOMAIN log' = DOMAIN log /\ OneRow'
  BY <1>1, Rewritten DEF IInv
<1>3. Live' <= Live /\ Live' \in Nat /\ Live \in Nat
  <2>1. LiveTasks' \subseteq LiveTasks
    BY <1>2 DEF LiveTasks
  <2> QED
    BY <1>1, <2>1, LiveShrinks, LiveCount
<1>4. Live' <= Limit
  BY <1>3, RoutinesAssumption DEF RoutinesAssumption, IInv, RoomInv
<1>5. SchFine /\ RoomInv'
  BY <1>2, <1>3, <1>4, HolderUntouched, GivesBack DEF IInv
<1>6. LedgerInv'
  <2>1. sch' = sch \/ sch'.pc = "idle"
    BY IdleHolder
  <2>2. \A d \in DOMAIN log : log[d].r \in Routines
    BY <1>1, Places DEF Entry
  <2>3. \A d \in DOMAIN log : Kept(d) => row'[log[d].r].state # "gone"
    BY <2>2 DEF Kept
  <2> QED
    BY <1>2, <2>1, <2>3, LedgerUntouched DEF IInv
<1>7. TypeOK'
  BY <1>2, <1>5 DEF TypeOK, SchFine
<1> QED
  BY <1>2, <1>5, <1>6, <1>7 DEF IInv, SchFine

\* Which is what the end of a task, a follow-up, the cancel of a row that is stuck
\* and a restart do.
LEMMA TaskSteps ==
  ASSUME IInv, Restart \/ \E d \in DOMAIN log : TaskEnds(d) \/ FollowUp(d) \/ CancelStuck(d)
  PROVE  IInv'
<1> USE RoutinesAssumption DEF RoutinesAssumption
<1>1. row \in [Routines -> Row] /\ log \in [DOMAIN log -> Entry]
  BY Places DEF IInv, TypeOK
<1>2. /\ arrivals \in 0..MaxArrivals /\ manual \in 0..MaxManual
      /\ edits \in 0..MaxEdits /\ troubles \in 0..MaxTroubles
  BY DEF IInv, TypeOK
<1>3. ASSUME NEW d \in DOMAIN log, TaskEnds(d)
      PROVE  IInv'
  <2>1. PICK task \in {"ended", "failed"} : log' = [log EXCEPT ![d].task = task]
    BY <1>3 DEF TaskEnds
  <2>2. log' \in [DOMAIN log -> Entry]
    BY <1>1, <2>1 DEF Entry
  <2>3. \A i \in DOMAIN log :
            /\ log'[i].r = log[i].r /\ log'[i].due = log[i].due /\ log'[i].state = log[i].state
            /\ log'[i].task = IF i = d THEN task ELSE log[i].task
    BY <1>1, <2>1 DEF Entry
  <2>4. log[d].task \in Running /\ log[d].r \in Routines
    BY <1>1, <1>3 DEF TaskEnds, Entry
  <2>5. /\ row' \in [Routines -> Row]
        /\ \A r \in Routines : row[r].state # "gone" => row'[r].state # "gone"
    BY <1>1, <1>3, <2>4 DEF TaskEnds, Row
  <2> QED
    BY <1>2, <1>3, <2>2, <2>3, <2>4, <2>5, TasksWritten DEF TaskEnds, bounds, Running
<1>4. ASSUME NEW d \in DOMAIN log, FollowUp(d) \/ CancelStuck(d)
      PROVE  IInv'
  <2>1. PICK task \in {"again", "failed"} : log' = [log EXCEPT ![d].task = task]
    BY <1>4 DEF FollowUp, CancelStuck
  <2>2. log' \in [DOMAIN log -> Entry]
    BY <1>1, <2>1 DEF Entry, InFlight, Running
  <2>3. \A i \in DOMAIN log :
            /\ log'[i].r = log[i].r /\ log'[i].due = log[i].due /\ log'[i].state = log[i].state
            /\ log'[i].task = IF i = d THEN task ELSE log[i].task
    BY <1>1, <2>1 DEF Entry
  <2>4. log[d].task \in {"ended", "failed", "stuck"} /\ row' = row /\ sch' = sch
    BY <1>4 DEF FollowUp, CancelStuck
  <2>5. /\ arrivals' \in 0..MaxArrivals /\ manual' \in 0..MaxManual
        /\ edits' \in 0..MaxEdits /\ troubles' \in 0..MaxTroubles
    BY <1>2, <1>4 DEF FollowUp, CancelStuck, Edit
  <2> QED
    BY <1>1, <2>2, <2>3, <2>4, <2>5, TasksWritten
<1>5. CASE Restart
  <2>1. log' = [d \in DOMAIN log |-> IF log[d].task \in InFlight
                                     THEN [log[d] EXCEPT !.task = "failed"] ELSE log[d]]
    BY <1>5 DEF Restart
  <2>2. log' \in [DOMAIN log -> Entry]
    BY <1>1, <2>1 DEF Entry
  <2>3. \A i \in DOMAIN log :
            /\ log'[i].r = log[i].r /\ log'[i].due = log[i].due /\ log'[i].state = log[i].state
            /\ log'[i].task = IF log[i].task \in InFlight THEN "failed" ELSE log[i].task
    BY <1>1, <2>1 DEF Entry
  <2> QED
    BY <1>1, <1>2, <1>5, <2>2, <2>3, TasksWritten DEF Restart, InFlight, Running
<1> QED
  BY <1>3, <1>4, <1>5

-----------------------------------------------------------------------------
(* The steps of the holder that write no row of the ledger *)

\* Such a step keeps the invariant when the holder ends up where its room and the
\* row it is busy with allow.
LEMMA HolderMoves ==
  ASSUME IInv, row' \in [Routines -> Row], log' = log, SchFine, RoomInv',
         \A r \in Routines : row[r].state # "gone" => row'[r].state # "gone",
         sch'.pc = "settle" /\ sch'.verdict = "dispatched" => log[sch'.d].task # "none",
         sch'.pc = "create" => log[sch'.d].task = "none",
         arrivals' \in 0..MaxArrivals, manual' \in 0..MaxManual, edits' \in 0..MaxEdits,
         troubles' \in 0..MaxTroubles
  PROVE  IInv'
<1>1. log \in Seq(Entry)
  BY DEF IInv, TypeOK
<1>2. \A d \in DOMAIN log : log[d].r \in Routines
  BY <1>1, Places DEF Entry
<1>3. LedgerInv'
  BY <1>2 DEF IInv, LedgerInv, Kept
<1>4. OneRow'
  BY DEF IInv, OneRow
<1>5. TypeOK'
  BY <1>1 DEF SchFine, TypeOK
<1> QED
  BY <1>3, <1>4, <1>5 DEF IInv, SchFine

\* The tick: its two lists, and the claim of a routine, which takes its place in the
\* lane out of the room.
LEMMA TickSteps ==
  ASSUME IInv, TickBegin \/ RecoverNext \/ RecoverDone \/ TickEnd \/ ClaimNext \/ Skip
  PROVE  IInv'
<1>1. /\ sch \in Holder /\ log \in Seq(Entry) /\ log \in [DOMAIN log -> Entry]
      /\ row \in [Routines -> Row] /\ DOMAIN log = 1..Len(log) /\ Len(log) \in Nat
  BY Places DEF IInv, TypeOK
<1>2. /\ arrivals \in 0..MaxArrivals /\ manual \in 0..MaxManual
      /\ edits \in 0..MaxEdits /\ troubles \in 0..MaxTroubles
  BY DEF IInv, TypeOK
<1>3. Live \in Nat /\ InLane \in Nat /\ Live <= InLane /\ Limit \in Nat \ {0}
  BY <1>1, LiveCount, RoutinesAssumption DEF RoutinesAssumption
<1>4. ASSUME log' = log
      PROVE  Live' = Live /\ DOMAIN log' = DOMAIN log
  BY <1>4 DEF Live, LiveTasks
<1>5. /\ sch.pc \in {"idle"} \cup Steps /\ sch.by \in {"tick", "recover"} \cup Requests
      /\ sch.room \in Int /\ sch.todo \in SUBSET (Nat \X Routines) /\ sch.r \in Routines \cup {None}
      /\ sch.d \in Nat /\ sch.verdict \in {"dispatched", "failed"}
  BY <1>1 DEF Holder
<1>6. Live <= Limit
  BY DEF IInv, RoomInv
<1>7. CASE TickBegin
  <2>1. ManualPending \subseteq Nat \X Routines
    BY <1>1 DEF ManualPending, Entry
  <2>2. \A e \in ManualPending : e[1] \in DOMAIN log
    BY DEF ManualPending
  <2>3. /\ sch' = [Idle EXCEPT !.pc = "recover", !.by = "recover", !.room = Limit - InLane,
                               !.todo = ManualPending]
        /\ UNCHANGED <<row, log, bounds>>
    BY <1>7 DEF TickBegin
  <2>4. /\ sch' \in Holder /\ sch'.pc = "recover" /\ sch'.by = "recover"
        /\ sch'.room = Limit - InLane /\ sch'.todo = ManualPending
    <3> DEFINE room == Limit - InLane
    <3>1. room \in Int
      BY <1>3
    <3>2. sch' = [Idle EXCEPT !.pc = "recover", !.by = "recover", !.room = room,
                              !.todo = ManualPending]
      BY <2>3
    <3> HIDE DEF room
    <3>3. sch' \in Holder /\ sch'.pc = "recover" /\ sch'.by = "recover" /\ sch'.room = room
      BY <2>1, <3>1, <3>2, IdleHolder DEF Holder, Steps
    <3>4. sch'.todo = ManualPending
      BY <3>2, IdleHolder DEF Holder
    <3> QED
      BY <3>3, <3>4 DEF room
  <2>5. SchFine
    BY <2>2, <2>3, <2>4 DEF SchFine, HolderInv, Requests
  <2>6. RoomInv'
    BY <1>3, <1>4, <1>6, <2>3, <2>4 DEF RoomInv, Requests
  <2> QED
    BY <1>1, <1>2, <2>3, <2>4, <2>5, <2>6, HolderMoves DEF bounds
<1>8. CASE RecoverNext
  <2>1. PICK e \in sch.todo :
          sch' = IF Kept(e[1])
                   THEN [sch EXCEPT !.pc = "look", !.todo = @ \ {e}, !.r = e[2], !.d = e[1]]
                   ELSE [sch EXCEPT !.todo = @ \ {e}]
    BY <1>8 DEF RecoverNext
  <2>2. UNCHANGED <<row, log, bounds>> /\ sch.pc = "recover" /\ sch.by = "recover"
    BY <1>8 DEF RecoverNext, IInv, HolderInv
  <2>3. e[1] \in Nat /\ e[2] \in Routines /\ e[1] \in DOMAIN log
    BY <1>5, <2>2 DEF IInv, HolderInv
  <2>4. /\ sch' \in Holder /\ sch'.pc \in {"look", "recover"} /\ sch'.by = "recover"
        /\ sch'.room = sch.room /\ sch'.todo \subseteq sch.todo
        /\ sch'.pc = "look" => sch'.r = e[2] /\ sch'.d = e[1]
    BY <1>1, <2>1, <2>2, <2>3 DEF Holder, Steps
  <2>5. SchFine
    BY <2>2, <2>3, <2>4 DEF SchFine, HolderInv, Requests, IInv
  <2>6. RoomInv'
    BY <1>4, <2>2, <2>4 DEF RoomInv, Requests, IInv
  <2> QED
    BY <1>1, <1>2, <2>2, <2>4, <2>5, <2>6, HolderMoves DEF bounds
<1>9. CASE RecoverDone
  <2>1. UNCHANGED <<row, log, bounds>> /\ sch.pc = "recover" /\ sch.by = "recover"
    BY <1>9 DEF RecoverDone, IInv, HolderInv
  <2>2. CASE sch' = Idle
    BY <1>1, <1>2, <1>4, <1>6, <2>1, <2>2, GivesBack, HolderMoves DEF bounds
  <2>3. CASE sch' = [sch EXCEPT !.pc = "claim", !.by = "tick", !.todo = Due]
    <3>1. Due \subseteq Nat \X Routines
      BY <1>1, RoutinesAssumption DEF RoutinesAssumption, Due, Row
    <3>2. /\ sch' \in Holder /\ sch'.pc = "claim" /\ sch'.by = "tick" /\ sch'.room = sch.room
      BY <1>1, <2>3, <3>1 DEF Holder, Steps
    <3>3. SchFine
      BY <3>2 DEF SchFine, HolderInv, Requests
    <3>4. RoomInv'
      BY <1>4, <2>1, <3>2 DEF RoomInv, Requests, IInv
    <3> QED
      BY <1>1, <1>2, <2>1, <3>2, <3>3, <3>4, HolderMoves DEF bounds
  <2> QED
    BY <1>9, <2>2, <2>3 DEF RecoverDone
<1>10. CASE TickEnd
  BY <1>1, <1>2, <1>4, <1>6, <1>10, GivesBack, HolderMoves DEF TickEnd, bounds
<1>11. CASE ClaimNext
  <2>1. PICK e \in sch.todo, late \in BOOLEAN :
          \/ /\ row' = [row EXCEPT ![e[2]].claim = "leased"]
             /\ sch' = [sch EXCEPT !.pc = "begin", !.todo = @ \ {e}, !.r = e[2],
                                   !.room = RoomAfterClaim, !.due = row[e[2]].due,
                                   !.late = late /\ e[2] \in Skips]
          \/ sch' = [sch EXCEPT !.todo = @ \ {e}] /\ UNCHANGED row
    BY <1>11 DEF ClaimNext
  <2>2. UNCHANGED <<log, bounds>> /\ sch.pc = "claim" /\ sch.by = "tick" /\ sch.room > 0
    BY <1>5, <1>11 DEF ClaimNext, IInv, HolderInv
  <2>3. e[2] \in Routines
    BY <1>5
  <2>4. CASE sch' = [sch EXCEPT !.todo = @ \ {e}] /\ UNCHANGED row
    <3>1. /\ sch' \in Holder /\ sch'.pc = "claim" /\ sch'.by = "tick" /\ sch'.room = sch.room
      BY <1>1, <2>2, <2>4 DEF Holder
    <3>2. SchFine
      BY <3>1 DEF SchFine, HolderInv, Requests
    <3>3. RoomInv'
      BY <1>4, <2>2, <3>1 DEF RoomInv, Requests, IInv
    <3> QED
      BY <1>1, <1>2, <2>2, <2>4, <3>1, <3>2, <3>3, HolderMoves DEF bounds
  <2>5. CASE /\ row' = [row EXCEPT ![e[2]].claim = "leased"]
             /\ sch' = [sch EXCEPT !.pc = "begin", !.todo = @ \ {e}, !.r = e[2],
                                   !.room = RoomAfterClaim, !.due = row[e[2]].due,
                                   !.late = late /\ e[2] \in Skips]
    <3>1. row' \in [Routines -> Row] /\ \A r \in Routines : row'[r].state = row[r].state
      BY <1>1, <2>3, <2>5 DEF Row
    <3>2. row[e[2]].due \in 0..MaxArrivals /\ (late /\ e[2] \in Skips) \in BOOLEAN
      BY <1>1, <2>3 DEF Row
    <3> DEFINE due == row[e[2]].due
               late2 == late /\ e[2] \in Skips
    <3>3. sch' = [sch EXCEPT !.pc = "begin", !.todo = @ \ {e}, !.r = e[2],
                             !.room = sch.room - 1, !.due = due, !.late = late2]
      BY <2>5 DEF RoomAfterClaim
    <3> HIDE DEF due, late2
    <3>4. due \in 0..MaxArrivals /\ late2 \in BOOLEAN
      BY <3>2 DEF due, late2
    <3>5. /\ sch' \in Holder /\ sch'.pc = "begin" /\ sch'.by = "tick" /\ sch'.r = e[2]
          /\ sch'.room = sch.room - 1
      <4>1. sch.todo \ {e} \in SUBSET (Nat \X Routines) /\ sch.room - 1 \in Int
        BY <1>5
      <4>2. [sch EXCEPT !.pc = "begin", !.todo = @ \ {e}, !.r = e[2], !.room = sch.room - 1,
                        !.due = due] \in Holder
        BY <1>1, <2>3, <3>4, <4>1 DEF Holder, Steps
      <4>3. sch' = [[sch EXCEPT !.pc = "begin", !.todo = @ \ {e}, !.r = e[2], !.room = sch.room - 1,
                                !.due = due] EXCEPT !.late = late2]
        BY <1>1, <3>3 DEF Holder
      <4>4. sch' \in Holder
        BY <3>4, <4>2, <4>3 DEF Holder
      <4>5. /\ sch'.pc = "begin" /\ sch'.r = e[2] /\ sch'.room = sch.room - 1
            /\ sch'.by = sch.by
        BY <1>1, <3>3 DEF Holder
      <4> QED
        BY <2>2, <4>4, <4>5
    <3>6. SchFine
      BY <2>3, <3>5 DEF SchFine, HolderInv, Requests
    <3>7. RoomInv'
      BY <1>3, <1>4, <1>5, <2>2, <3>5 DEF RoomInv, Requests, IInv
    <3> QED
      BY <1>2, <2>2, <3>1, <3>5, <3>6, <3>7, HolderMoves DEF bounds
  <2> QED
    BY <2>1, <2>4, <2>5
<1>12. CASE Skip
  <2>1. /\ UNCHANGED <<row, log, bounds>> /\ sch.pc = "begin" /\ sch.by = "tick"
        /\ sch' = [sch EXCEPT !.pc = "complete"]
    BY <1>5, <1>12 DEF Skip, IInv, HolderInv
  <2>2. /\ sch' \in Holder /\ sch'.pc = "complete" /\ sch'.by = "tick" /\ sch'.r = sch.r
        /\ sch'.room = sch.room
    BY <1>1, <2>1 DEF Holder, Steps
  <2>3. SchFine
    BY <2>1, <2>2 DEF SchFine, HolderInv, Requests, IInv
  <2>4. RoomInv'
    BY <1>4, <2>1, <2>2 DEF RoomInv, Requests, IInv
  <2> QED
    BY <1>1, <1>2, <2>1, <2>2, <2>3, <2>4, HolderMoves DEF bounds
<1> QED
  BY <1>7, <1>8, <1>9, <1>10, <1>11, <1>12

\* The look for the task of the row, which decides between settling it, creating
\* its task, and waiting for the next tick.
LEMMA LookKeeps ==
  ASSUME IInv, Look
  PROVE  IInv'
<1>1. /\ sch \in Holder /\ log \in Seq(Entry) /\ log \in [DOMAIN log -> Entry]
      /\ row \in [Routines -> Row] /\ sch.d \in DOMAIN log
  BY Places DEF IInv, TypeOK, Look
<1>2. /\ arrivals \in 0..MaxArrivals /\ manual \in 0..MaxManual
      /\ edits \in 0..MaxEdits /\ troubles \in 0..MaxTroubles
      /\ UNCHANGED <<row, log, bounds>> /\ sch.pc = "look"
  BY DEF IInv, TypeOK, Look
<1>3. Live' = Live /\ Live <= Limit
  BY <1>2 DEF IInv, RoomInv, Live, LiveTasks
<1>4. Live \in Nat /\ sch.room \in Int /\ Limit \in Nat
  BY <1>1, LiveCount, RoutinesAssumption DEF RoutinesAssumption, Holder
<1>5. CASE sch' = Idle
  BY <1>1, <1>2, <1>3, <1>5, GivesBack, HolderMoves DEF bounds
<1>6. ASSUME NEW verdict \in {"dispatched", "failed"},
             sch' = [sch EXCEPT !.pc = "settle", !.verdict = verdict],
             verdict = "dispatched" => log[sch.d].task # "none"
      PROVE  IInv'
  <2>1. /\ sch' \in Holder /\ sch'.pc = "settle" /\ sch'.by = sch.by /\ sch'.room = sch.room
        /\ sch'.todo = sch.todo /\ sch'.d = sch.d /\ sch'.r = sch.r /\ sch'.verdict = verdict
    BY <1>1, <1>6 DEF Holder, Steps
  <2>2. SchFine
    BY <1>1, <1>2, <2>1 DEF SchFine, HolderInv, IInv
  <2>3. RoomInv'
    BY <1>2, <1>3, <2>1 DEF RoomInv, IInv
  <2> QED
    BY <1>1, <1>2, <1>6, <2>1, <2>2, <2>3, HolderMoves DEF bounds
<1>7. ASSUME sch' = [sch EXCEPT !.pc = "create"], log[sch.d].task = "none",
             ~(sch.by = "recover" /\ sch.room <= 0)
      PROVE  IInv'
  <2>1. /\ sch' \in Holder /\ sch'.pc = "create" /\ sch'.by = sch.by /\ sch'.room = sch.room
        /\ sch'.todo = sch.todo /\ sch'.d = sch.d /\ sch'.r = sch.r
    BY <1>1, <1>7 DEF Holder, Steps
  <2>2. SchFine
    BY <1>1, <1>2, <2>1 DEF SchFine, HolderInv, IInv
  <2>3. RoomInv'
    BY <1>2, <1>3, <1>4, <1>7, <2>1 DEF RoomInv, IInv
  <2> QED
    BY <1>1, <1>2, <1>7, <2>1, <2>2, <2>3, HolderMoves DEF bounds
<1> DEFINE e == log[sch.d]
           orphan == sch.by = "recover" /\ e.state = "mcp" /\ ~e.origin
<1>8. CASE orphan
  <2>1. sch' = [sch EXCEPT !.pc = "settle", !.verdict = "failed"]
    BY <1>8 DEF Look
  <2> QED
    BY <1>6, <2>1
<1>9. CASE ~orphan /\ e.task # "none"
  <2> DEFINE verdict == IF e.state = "failed" THEN "failed" ELSE Verdict(e.task)
  <2>1. sch' = [sch EXCEPT !.pc = "settle", !.verdict = verdict]
    BY <1>9 DEF Look
  <2>2. verdict \in {"dispatched", "failed"}
    BY DEF Verdict
  <2> QED
    BY <1>6, <1>9, <2>1, <2>2
<1>10. CASE ~orphan /\ e.task = "none" /\ sch.by = "recover" /\ sch.room <= 0
  BY <1>5, <1>10 DEF Look
<1>11. CASE ~orphan /\ e.task = "none" /\ ~(sch.by = "recover" /\ sch.room <= 0)
  <2>1. sch' = [sch EXCEPT !.pc = "create"]
    BY <1>11 DEF Look
  <2> QED
    BY <1>7, <1>11, <2>1
<1> QED
  BY <1>8, <1>9, <1>10, <1>11

\* A claim completed, and a step given up.
LEMMA CompleteKeeps ==
  ASSUME IInv, Complete \/ GiveUp
  PROVE  IInv'
<1>1. /\ sch \in Holder /\ log \in Seq(Entry) /\ row \in [Routines -> Row]
      /\ troubles \in 0..MaxTroubles /\ MaxTroubles \in Nat
  BY RoutinesAssumption DEF RoutinesAssumption, IInv, TypeOK
<1>2. /\ arrivals \in 0..MaxArrivals /\ manual \in 0..MaxManual
      /\ edits \in 0..MaxEdits /\ troubles' \in 0..MaxTroubles
      /\ UNCHANGED <<log, arrivals, manual, edits>>
  BY <1>1 DEF IInv, TypeOK, Complete, GiveUp, Trouble, bounds
<1>3. Live' = Live /\ Live <= Limit /\ Live \in Nat
  BY <1>1, <1>2, LiveCount DEF IInv, RoomInv, Live, LiveTasks
<1>4. /\ row' \in [Routines -> Row]
      /\ \A r \in Routines : row[r].state # "gone" => row'[r].state # "gone"
  <2>1. CASE Complete
    <3>1. sch.r \in Routines
      BY <2>1 DEF Complete, IInv, HolderInv
    <3> QED
      BY <1>1, <2>1, <3>1, RoutinesAssumption, SMTT(30) DEF RoutinesAssumption, Complete, Row
  <2>2. CASE GiveUp
    BY <1>1, <2>2 DEF GiveUp, Trouble
  <2> QED
    BY <2>1, <2>2
<1>5. sch.pc # "idle"
  BY DEF Complete, GiveUp, Steps
<1>6. CASE sch' = Idle
  BY <1>2, <1>3, <1>4, <1>6, GivesBack, HolderMoves
<1>7. CASE sch' = Proceed(sch)
  <2>1. SchFine /\ RoomInv' /\ sch'.pc \in {"idle", "recover", "claim"}
    <3>1. sch.by \notin Requests => Live' + sch.room <= Limit
      BY <1>3, <1>5 DEF IInv, RoomInv
    <3> QED
      BY <1>1, <1>2, <1>3, <1>7, <3>1, Proceeds DEF IInv
  <2> QED
    BY <1>2, <1>4, <2>1, HolderMoves
<1> QED
  BY <1>6, <1>7 DEF Complete, GiveUp

\* A trouble takes one from the budget and leaves the routines alone.
LEMMA TroubleBounds ==
  ASSUME IInv, Trouble
  PROVE  /\ arrivals' \in 0..MaxArrivals /\ manual' \in 0..MaxManual
         /\ edits' \in 0..MaxEdits /\ troubles' \in 0..MaxTroubles /\ row' = row
BY RoutinesAssumption DEF RoutinesAssumption, IInv, TypeOK, Trouble

\* A run that is refused, or whose origin cannot be read, is settled as failed.
LEMMA FailKeeps ==
  ASSUME IInv, OriginUnread \/ Refuse
  PROVE  IInv'
<1>1. /\ sch.pc \in {"look", "create"} /\ log' = log /\ Trouble
      /\ sch' = [sch EXCEPT !.pc = "settle", !.verdict = "failed"]
  BY DEF OriginUnread, Refuse, Fail
<1>2. /\ sch \in Holder /\ row \in [Routines -> Row] /\ sch.d \in DOMAIN log
  BY <1>1 DEF IInv, TypeOK
<1>3. /\ sch' \in Holder /\ sch'.pc = "settle" /\ sch'.by = sch.by /\ sch'.room = sch.room
      /\ sch'.todo = sch.todo /\ sch'.d = sch.d /\ sch'.r = sch.r /\ sch'.verdict = "failed"
  BY <1>1, <1>2 DEF Holder, Steps
<1>4. SchFine
  BY <1>1, <1>2, <1>3 DEF SchFine, HolderInv, IInv
<1>5. Live' = Live
  BY <1>1 DEF Live, LiveTasks
<1>6. RoomInv'
  BY <1>1, <1>3, <1>5 DEF RoomInv, IInv
<1> QED
  BY <1>1, <1>2, <1>3, <1>4, <1>6, TroubleBounds, HolderMoves

\* A row that cannot be settled stays as it is.
LEMMA SettleFailsKeeps ==
  ASSUME IInv, SettleFails
  PROVE  IInv'
<1>1. sch.pc = "settle" /\ sch.by \in {"tick", "recover"} /\ log' = log /\ Trouble
  BY DEF SettleFails, IInv, TypeOK, Holder
<1>2. /\ sch \in Holder /\ log \in Seq(Entry) /\ row \in [Routines -> Row]
      /\ sch.r \in Routines
  BY <1>1 DEF IInv, TypeOK, HolderInv
<1>3. Live' = Live /\ Live <= Limit /\ Live \in Nat
  BY <1>1, <1>2, LiveCount DEF IInv, RoomInv, Live, LiveTasks
<1>4. Live' + sch.room <= Limit
  BY <1>1, <1>3 DEF IInv, RoomInv, Requests
<1>5. sch' \in {[sch EXCEPT !.pc = "complete"], Proceed(sch), Idle}
      /\ (sch' = [sch EXCEPT !.pc = "complete"] => sch.by = "tick" \/ sch' \in {Proceed(sch), Idle})
  BY <1>1 DEF SettleFails
<1>6. CASE sch' = Idle
  BY <1>1, <1>2, <1>3, <1>6, TroubleBounds, GivesBack, HolderMoves
<1>7. CASE sch' = Proceed(sch)
  <2>1. SchFine /\ RoomInv' /\ sch'.pc \in {"idle", "recover", "claim"}
    BY <1>1, <1>2, <1>3, <1>4, <1>7, Proceeds DEF IInv
  <2> QED
    BY <1>1, <1>2, <2>1, TroubleBounds, HolderMoves
<1>8. CASE sch' = [sch EXCEPT !.pc = "complete"] /\ sch.by = "tick"
  <2>1. /\ sch' \in Holder /\ sch'.pc = "complete" /\ sch'.by = "tick" /\ sch'.r = sch.r
        /\ sch'.room = sch.room
    BY <1>2, <1>8 DEF Holder, Steps
  <2>2. SchFine
    BY <1>2, <2>1 DEF SchFine, HolderInv, Requests
  <2>3. RoomInv'
    BY <1>3, <1>4, <2>1 DEF RoomInv, Requests
  <2> QED
    BY <1>1, <1>2, <2>1, <2>2, <2>3, TroubleBounds, HolderMoves
<1> QED
  BY <1>5, <1>6, <1>7, <1>8

-----------------------------------------------------------------------------
(* The steps of the holder that write the ledger *)

\* A row reserved for an occurrence, or for a request, has no task yet.
LEMMA ReserveKeeps ==
  ASSUME IInv, NEW r \in Routines, NEW due \in 0..MaxArrivals, NEW state \in Pending,
         log' = Reserve(r, due, state), due = 0 \/ Reserved(r, due) = {},
         row[r].state # "gone", row' = row, sch' \in Holder,
         sch'.pc = "look", sch'.d = Len(log) + 1, sch'.r = r,
         \/ /\ sch'.by = "tick" /\ sch.by = "tick" /\ sch.pc = "begin" /\ sch'.room = sch.room
         \/ sch'.by \in Requests /\ Live < Limit,
         arrivals' \in 0..MaxArrivals, manual' \in 0..MaxManual, edits' \in 0..MaxEdits,
         troubles' \in 0..MaxTroubles
  PROVE  IInv'
<1>1. log \in Seq(Entry) /\ sch \in Holder /\ row \in [Routines -> Row]
  BY DEF IInv, TypeOK
<1> DEFINE n == Len(log) + 1
<1>2. /\ log' \in Seq(Entry) /\ OneRow'
      /\ DOMAIN log' = DOMAIN log \cup {n} /\ n \notin DOMAIN log
      /\ \A d \in DOMAIN log : log'[d] = log[d]
      /\ log'[n].r = r /\ log'[n].state = state /\ log'[n].task = "none"
  BY <1>1, Added DEF IInv
<1> HIDE DEF n
<1>3. Live' <= Live /\ Live' \in Nat /\ Live \in Nat
  <2>1. LiveTasks' \subseteq LiveTasks
    BY <1>2 DEF LiveTasks
  <2> QED
    BY <1>1, <2>1, LiveShrinks, LiveCount
<1>4. SchFine
  BY <1>2 DEF SchFine, HolderInv, Requests, n
<1>5. RoomInv'
  <2>1. Limit \in Nat /\ sch.room \in Int
    BY <1>1, RoutinesAssumption DEF RoutinesAssumption, Holder
  <2> QED
    BY <1>3, <2>1, SMTT(30) DEF IInv, RoomInv, Requests
<1>6. LedgerInv'
  <2>1. state # "dispatched"
    BY DEF Pending, Requests
  <2> QED
    BY <1>2, <2>1 DEF IInv, LedgerInv, Kept
<1>7. TypeOK'
  BY <1>1, <1>2, <1>4 DEF TypeOK, SchFine
<1> QED
  BY <1>2, <1>4, <1>5, <1>6, <1>7 DEF IInv, SchFine

\* The dispatch of an occurrence finds the row of the tick that died, or reserves
\* the only one.
LEMMA BeginKeeps ==
  ASSUME IInv, Begin
  PROVE  IInv'
<1>1. /\ sch \in Holder /\ log \in Seq(Entry) /\ row \in [Routines -> Row]
      /\ DOMAIN log = 1..Len(log) /\ Len(log) \in Nat
  BY Places DEF IInv, TypeOK
<1>2. /\ arrivals \in 0..MaxArrivals /\ manual \in 0..MaxManual
      /\ edits \in 0..MaxEdits /\ troubles \in 0..MaxTroubles
      /\ UNCHANGED <<row, bounds>> /\ sch.pc = "begin" /\ sch.by = "tick" /\ sch.r \in Routines
  BY <1>1 DEF IInv, TypeOK, Begin, HolderInv, Holder
<1>3. CASE row[sch.r].state = "gone"
  <2>1. sch' = Proceed(sch) /\ log' = log
    BY <1>3 DEF Begin
  <2>2. Live' = Live /\ Live <= Limit /\ Live \in Nat /\ Live + sch.room <= Limit
    BY <1>1, <1>2, <2>1, LiveCount DEF IInv, RoomInv, Live, LiveTasks, Requests
  <2>3. SchFine /\ RoomInv' /\ sch'.pc \in {"idle", "recover", "claim"}
    BY <1>1, <2>1, <2>2, Proceeds DEF IInv
  <2> QED
    BY <1>1, <1>2, <2>1, <2>3, HolderMoves DEF bounds
<1> DEFINE old == Reserved(sch.r, sch.due)
           d == IF old = {} THEN Len(log) + 1 ELSE CHOOSE d \in old : TRUE
<1>4. ASSUME row[sch.r].state # "gone"
      PROVE  /\ log' = IF old = {} THEN Reserve(sch.r, sch.due, "pending") ELSE log
             /\ sch' = [sch EXCEPT !.pc = "look", !.d = d]
  BY <1>4 DEF Begin
<1>5. d \in Nat /\ (old # {} => d \in DOMAIN log)
  BY <1>1 DEF Reserved
<1> HIDE DEF d
<1>6. ASSUME row[sch.r].state # "gone"
      PROVE  /\ sch' \in Holder /\ sch'.pc = "look" /\ sch'.by = sch.by /\ sch'.r = sch.r
             /\ sch'.room = sch.room /\ sch'.d = d
  BY <1>1, <1>4, <1>5, <1>6 DEF Holder, Steps
<1>7. CASE row[sch.r].state # "gone" /\ old = {}
  <2>1. log' = Reserve(sch.r, sch.due, "pending") /\ d = Len(log) + 1
    BY <1>4, <1>7 DEF d
  <2>2. sch.due \in 0..MaxArrivals /\ "pending" \in Pending
    BY <1>1 DEF Holder, Pending
  <2> QED
    BY <1>2, <1>6, <1>7, <2>1, <2>2, ReserveKeeps DEF bounds
<1>8. CASE row[sch.r].state # "gone" /\ old # {}
  <2>1. log' = log
    BY <1>4, <1>8
  <2>2. Live' = Live
    BY <2>1 DEF Live, LiveTasks
  <2>3. SchFine
    BY <1>2, <1>5, <1>6, <1>8, <2>1 DEF SchFine, HolderInv, Requests
  <2>4. RoomInv'
    BY <1>2, <1>6, <1>8, <2>2 DEF IInv, RoomInv, Requests
  <2> QED
    BY <1>1, <1>2, <1>6, <1>8, <2>1, <2>3, <2>4, HolderMoves DEF bounds
<1> QED
  BY <1>3, <1>7, <1>8

\* A request reserves a row of its own, when the lane has room for it.
LEMMA RunNowKeeps ==
  ASSUME IInv, NEW r \in Routines, NEW kind \in Kinds, RunNow(r, kind)
  PROVE  IInv'
<1> USE RoutinesAssumption DEF RoutinesAssumption
<1>1. log \in Seq(Entry) /\ Len(log) + 1 \in Nat
  BY Places DEF IInv, TypeOK
<1>2. /\ arrivals' \in 0..MaxArrivals /\ manual' \in 0..MaxManual
      /\ edits' \in 0..MaxEdits /\ troubles' \in 0..MaxTroubles
  BY DEF IInv, TypeOK, RunNow
<1>3. kind \in Requests /\ kind \in Pending
  BY DEF Requests, Pending
<1>4. Live < Limit
  BY <1>1, LiveCount DEF RunNow
<1>5. sch' = [Idle EXCEPT !.pc = "look", !.by = kind, !.r = r, !.d = Len(log) + 1]
  BY DEF RunNow
<1>6. /\ sch' \in Holder /\ sch'.pc = "look" /\ sch'.by = kind /\ sch'.r = r
      /\ sch'.d = Len(log) + 1
  BY <1>1, <1>3, <1>5, IdleHolder DEF Holder, Steps
<1>7. log' = Reserve(r, 0, kind) /\ row[r].state # "gone" /\ row' = row
  BY DEF RunNow
<1> QED
  BY <1>2, <1>3, <1>4, <1>6, <1>7, ReserveKeeps

\* The origin of an MCP request is recorded.
LEMMA OriginKeeps ==
  ASSUME IInv, RecordOrigin
  PROVE  IInv'
<1>1. /\ log \in [DOMAIN log -> Entry] /\ row \in [Routines -> Row] /\ sch.d \in DOMAIN log
  BY Places DEF IInv, TypeOK, RecordOrigin
<1>2. /\ arrivals' \in 0..MaxArrivals /\ manual' \in 0..MaxManual
      /\ edits' \in 0..MaxEdits /\ troubles' \in 0..MaxTroubles /\ row' = row /\ sch' = sch
      /\ log' = [log EXCEPT ![sch.d].origin = TRUE]
  BY DEF IInv, TypeOK, RecordOrigin, bounds
<1>3. log' \in [DOMAIN log -> Entry]
  BY <1>1, <1>2, ZenonT(40) DEF Entry
<1>4. \A d \in DOMAIN log :
          /\ log'[d].r = log[d].r /\ log'[d].due = log[d].due /\ log'[d].state = log[d].state
          /\ log'[d].task = log[d].task
  BY <1>1, <1>2 DEF Entry
<1> QED
  BY <1>1, <1>2, <1>3, <1>4, TasksWritten

\* A row that had no task gets one, live only in the room that was found for it;
LEMMA TaskGiven ==
  ASSUME IInv, sch.pc = "create", row' = row, NEW origin \in BOOLEAN,
         NEW task \in {"none", "failed", "live", "loose", "stuck"},
         log' = [log EXCEPT ![sch.d].task = task, ![sch.d].origin = origin]
  PROVE  /\ log' \in Seq(Entry) /\ DOMAIN log' = DOMAIN log /\ OneRow' /\ sch.d \in DOMAIN log
         /\ log'[sch.d].task = task
         /\ Live' \in Nat /\ Live \in Nat /\ Live' <= Live + 1
         /\ task # "live" => Live' <= Live
         /\ \A d \in DOMAIN log : log'[d].state \in Pending => Kept(d)'
         /\ \A d \in DOMAIN log : log'[d].state = "dispatched" => log'[d].task # "none"
<1>1. /\ log \in Seq(Entry) /\ log \in [DOMAIN log -> Entry] /\ sch.d \in DOMAIN log
  BY Places DEF IInv, TypeOK
<1>2. log' \in [DOMAIN log -> Entry]
  <2>1. log' = [log EXCEPT ![sch.d] = [log[sch.d] EXCEPT !.task = task, !.origin = origin]]
    BY <1>1
  <2>2. [log[sch.d] EXCEPT !.task = task, !.origin = origin] \in Entry
    BY <1>1, ZenonT(40) DEF Entry, InFlight, Running
  <2> QED
    BY <1>1, <2>1, <2>2
<1>3. \A d \in DOMAIN log :
         /\ log'[d].r = log[d].r /\ log'[d].due = log[d].due /\ log'[d].state = log[d].state
         /\ log'[d].task = IF d = sch.d THEN task ELSE log[d].task
  BY <1>1 DEF Entry
<1>4. log' \in Seq(Entry) /\ DOMAIN log' = DOMAIN log /\ OneRow'
  BY <1>1, <1>2, <1>3, Rewritten DEF IInv
<1>5. /\ Live \in Nat /\ Live' \in Nat /\ Live' <= Live + 1
      /\ task # "live" => Live' <= Live
  <2>1. LiveTasks' \subseteq LiveTasks \cup {sch.d}
    BY <1>3, <1>4 DEF LiveTasks
  <2>2. task # "live" => LiveTasks' \subseteq LiveTasks
    BY <1>3, <1>4 DEF LiveTasks
  <2> QED
    BY <1>1, <2>1, <2>2, LiveCount, LiveGrows, LiveShrinks
<1>6. log[sch.d].task = "none" /\ \A d \in DOMAIN log : log[d].r \in Routines
  BY <1>1 DEF IInv, LedgerInv, Entry
<1>7. \A d \in DOMAIN log : log'[d].state \in Pending => Kept(d)'
  BY <1>3 DEF IInv, LedgerInv, Kept
<1>8. \A d \in DOMAIN log : log'[d].state = "dispatched" => log'[d].task # "none"
  BY <1>3, <1>6 DEF IInv, LedgerInv
<1> QED
  BY <1>1, <1>3, <1>4, <1>5, <1>7, <1>8

\* whoever has created it settles the row next. Only recovery, which has not claimed
\* anything, takes a task that it knows to be live off the room, and the others that
\* it leaves are not live.
LEMMA GivenKeeps ==
  ASSUME IInv, sch.pc = "create", row' = row, NEW origin \in BOOLEAN,
         NEW task \in {"none", "failed", "live", "loose", "stuck"},
         log' = [log EXCEPT ![sch.d].task = task, ![sch.d].origin = origin],
         NEW verdict \in {"dispatched", "failed"}, verdict = "dispatched" => task # "none",
         NEW room \in Int, room <= sch.room,
         sch.by = "recover" /\ task = "live" => room <= sch.room - 1,
         sch' = [sch EXCEPT !.pc = "settle", !.verdict = verdict, !.room = room],
         arrivals' \in 0..MaxArrivals, manual' \in 0..MaxManual, edits' \in 0..MaxEdits,
         troubles' \in 0..MaxTroubles
  PROVE  IInv'
<1>1. sch \in Holder /\ row \in [Routines -> Row]
  BY DEF IInv, TypeOK
<1>2. /\ sch' \in Holder /\ sch'.pc = "settle" /\ sch'.by = sch.by /\ sch'.d = sch.d
      /\ sch'.r = sch.r /\ sch'.todo = sch.todo /\ sch'.room = room /\ sch'.verdict = verdict
  BY <1>1 DEF Holder, Steps
<1>3. /\ log' \in Seq(Entry) /\ DOMAIN log' = DOMAIN log /\ OneRow' /\ sch.d \in DOMAIN log
      /\ log'[sch.d].task = task
      /\ Live' \in Nat /\ Live \in Nat /\ Live' <= Live + 1
      /\ task # "live" => Live' <= Live
      /\ \A d \in DOMAIN log : log'[d].state \in Pending => Kept(d)'
      /\ \A d \in DOMAIN log : log'[d].state = "dispatched" => log'[d].task # "none"
  BY TaskGiven
<1>4. SchFine
  BY <1>2, <1>3 DEF SchFine, HolderInv, IInv
<1>5. RoomInv'
  <2>1. sch.room \in Int /\ Limit \in Nat /\ sch.by \in {"tick", "recover"} \cup Requests
    BY <1>1, RoutinesAssumption DEF RoutinesAssumption, Holder
  <2>2. CASE sch.by \in Requests
    BY <1>2, <1>3, <2>1, <2>2 DEF IInv, RoomInv, Requests
  <2>3. CASE sch.by = "tick"
    BY <1>2, <1>3, <2>1, <2>3, SMTT(40) DEF IInv, RoomInv, Requests
  <2>4. CASE sch.by = "recover"
    BY <1>2, <1>3, <2>1, <2>4, SMTT(40) DEF IInv, RoomInv, Requests
  <2> QED
    BY <2>1, <2>2, <2>3, <2>4
<1>6. LedgerInv'
  BY <1>2, <1>3 DEF LedgerInv
<1>7. TypeOK'
  BY <1>1, <1>3, <1>4 DEF TypeOK, SchFine
<1> QED
  BY <1>3, <1>4, <1>5, <1>6, <1>7 DEF IInv, SchFine

\* So Create, whether it reports an error or not;
LEMMA CreateKeeps ==
  ASSUME IInv, Create \/ CreateFails
  PROVE  IInv'
<1>1. sch \in Holder /\ log \in [DOMAIN log -> Entry] /\ sch.d \in DOMAIN log /\ sch.pc = "create"
  BY Places DEF IInv, TypeOK, Create, CreateFails, AtCreate
<1>2. sch.room \in Int /\ log[sch.d].origin \in BOOLEAN
  BY <1>1 DEF Holder, Entry
<1>3. CASE Create
  <2> DEFINE room == IF sch.by = "recover" THEN sch.room - 1 ELSE sch.room
             origin == log[sch.d].origin
  <2>1. /\ room \in Int /\ room <= sch.room
        /\ sch.by = "recover" => room <= sch.room - 1
    BY <1>2
  <2>2. /\ log' = [log EXCEPT ![sch.d].task = "live", ![sch.d].origin = origin]
    BY <1>1, <1>3, ZenonT(40) DEF Create, Entry
  <2>3. sch' = [sch EXCEPT !.pc = "settle", !.verdict = "dispatched", !.room = room]
    BY <1>3 DEF Create
  <2>4. /\ arrivals' \in 0..MaxArrivals /\ manual' \in 0..MaxManual
        /\ edits' \in 0..MaxEdits /\ troubles' \in 0..MaxTroubles /\ row' = row
    BY <1>3 DEF IInv, TypeOK, Create, bounds
  <2>5. origin \in BOOLEAN
    BY <1>2
  <2> HIDE DEF room, origin
  <2> QED
    BY <1>1, <2>1, <2>2, <2>3, <2>4, <2>5, GivenKeeps
<1>4. CASE CreateFails
  <2>1. PICK task \in Left : log' = [log EXCEPT ![sch.d].task = task, ![sch.d].origin = FALSE]
    BY <1>4 DEF CreateFails
  <2>2. /\ task \in {"none", "failed", "live", "loose", "stuck"}
        /\ sch.by = "recover" => task # "live"
    BY <2>1 DEF Left
  <2>3. sch' = [sch EXCEPT !.pc = "settle", !.verdict = "failed", !.room = sch.room]
    BY <1>1, <1>4 DEF CreateFails, Fail, Holder
  <2>4. /\ arrivals' \in 0..MaxArrivals /\ manual' \in 0..MaxManual
        /\ edits' \in 0..MaxEdits /\ troubles' \in 0..MaxTroubles /\ row' = row
    BY <1>4, TroubleBounds DEF CreateFails
  <2> DEFINE room == sch.room
             origin == FALSE
             verdict == "failed"
  <2>5. /\ room \in Int /\ room <= sch.room /\ origin \in BOOLEAN
        /\ verdict \in {"dispatched", "failed"} /\ verdict # "dispatched"
    BY <1>2
  <2>6. /\ log' = [log EXCEPT ![sch.d].task = task, ![sch.d].origin = origin]
        /\ sch' = [sch EXCEPT !.pc = "settle", !.verdict = verdict, !.room = room]
    BY <2>1, <2>3
  <2> HIDE DEF room, origin, verdict
  <2> QED
    BY <1>1, <2>2, <2>4, <2>5, <2>6, GivenKeeps
<1> QED
  BY <1>3, <1>4

\* and a request given up inside it, which leaves its ledger row as it was.
LEMMA AbandonKeeps ==
  ASSUME IInv, CreateAbandoned
  PROVE  IInv'
<1>1. /\ log \in [DOMAIN log -> Entry] /\ sch.d \in DOMAIN log /\ sch.pc = "create"
      /\ row \in [Routines -> Row] /\ Trouble /\ sch' = Idle
      /\ log' = [log EXCEPT ![sch.d].task = "stuck"]
  BY Places DEF IInv, TypeOK, CreateAbandoned, AtCreate
<1> DEFINE origin == log[sch.d].origin
<1>2. origin \in BOOLEAN /\ log' = [log EXCEPT ![sch.d].task = "stuck", ![sch.d].origin = origin]
  BY <1>1, ZenonT(40) DEF Entry
<1> HIDE DEF origin
<1>3. row' = row
  BY <1>1, TroubleBounds
<1>4. /\ log' \in Seq(Entry) /\ DOMAIN log' = DOMAIN log /\ OneRow'
      /\ Live' \in Nat /\ Live \in Nat /\ Live' <= Live
      /\ \A d \in DOMAIN log : log'[d].state \in Pending => Kept(d)'
      /\ \A d \in DOMAIN log : log'[d].state = "dispatched" => log'[d].task # "none"
  BY <1>1, <1>2, <1>3, TaskGiven
<1>5. Live' <= Limit
  BY <1>4, RoutinesAssumption DEF RoutinesAssumption, IInv, RoomInv
<1>6. SchFine /\ RoomInv' /\ sch'.pc = "idle"
  BY <1>1, <1>5, GivesBack
<1>7. LedgerInv'
  BY <1>4, <1>6 DEF LedgerInv
<1>8. TypeOK'
  BY <1>1, <1>3, <1>4, <1>6, TroubleBounds DEF TypeOK, SchFine
<1> QED
  BY <1>4, <1>6, <1>7, <1>8 DEF IInv, SchFine

\* The row is settled as what became of its task, unless it went with its routine.
LEMMA SettleKeeps ==
  ASSUME IInv, Settle
  PROVE  IInv'
<1>1. /\ sch \in Holder /\ log \in Seq(Entry) /\ log \in [DOMAIN log -> Entry]
      /\ row \in [Routines -> Row] /\ sch.d \in DOMAIN log /\ sch.r \in Routines
  BY Places DEF IInv, TypeOK, Settle, HolderInv
<1>2. /\ arrivals' \in 0..MaxArrivals /\ manual' \in 0..MaxManual
      /\ edits' \in 0..MaxEdits /\ troubles' \in 0..MaxTroubles
      /\ row' = row /\ sch.pc = "settle"
  BY DEF IInv, TypeOK, Settle, bounds
<1>3. log' = log \/ log' = [log EXCEPT ![sch.d].state = sch.verdict]
  BY DEF Settle, Settled
<1>4. sch.verdict \in {"dispatched", "failed"}
  BY <1>1 DEF Holder
<1>5. log' \in [DOMAIN log -> Entry]
  <2> DEFINE e == [log[sch.d] EXCEPT !.state = sch.verdict]
  <2>1. log[sch.d] \in Entry
    BY <1>1
  <2>2. e \in Entry
    BY <1>4, <2>1 DEF Entry
  <2>3. log' = log \/ log' = [log EXCEPT ![sch.d] = e]
    BY <1>3
  <2> HIDE DEF e
  <2> QED
    BY <1>1, <2>2, <2>3
<1>6. \A d \in DOMAIN log :
         /\ log'[d].r = log[d].r /\ log'[d].due = log[d].due /\ log'[d].task = log[d].task
         /\ \/ log'[d].state = log[d].state
            \/ d = sch.d /\ log'[d].state = sch.verdict
  <2>1. CASE log' = log
    BY <2>1
  <2>2. CASE log' = [log EXCEPT ![sch.d].state = sch.verdict]
    BY <1>1, <2>2 DEF Entry
  <2> QED
    BY <1>3, <2>1, <2>2
<1>7. log' \in Seq(Entry) /\ DOMAIN log' = DOMAIN log /\ OneRow'
  BY <1>1, <1>5, <1>6, Rewritten DEF IInv
<1>8. Live' = Live /\ Live \in Nat /\ Live <= Limit
  <2>1. LiveTasks' = LiveTasks
    BY <1>6, <1>7 DEF LiveTasks
  <2> QED
    BY <1>1, <2>1, LiveCount DEF Live, IInv, RoomInv
<1>9. sch.by \notin Requests => Live' + sch.room <= Limit
  BY <1>2, <1>8 DEF IInv, RoomInv
<1>10. SchFine /\ RoomInv' /\ sch'.pc \notin {"settle", "create"}
  <2>1. CASE sch.by = "tick"
    <3>1. /\ sch' \in Holder /\ sch'.pc = "complete" /\ sch'.by = "tick" /\ sch'.r = sch.r
          /\ sch'.room = sch.room
      BY <1>1, <2>1 DEF Settle, Holder, Steps
    <3>2. SchFine
      BY <1>1, <3>1 DEF SchFine, HolderInv, Requests
    <3>3. RoomInv'
      BY <1>8, <1>9, <2>1, <3>1 DEF RoomInv, Requests
    <3> QED
      BY <3>1, <3>2, <3>3
  <2>2. CASE sch.by # "tick"
    <3>1. sch' = Proceed(sch)
      BY <2>2 DEF Settle
    <3> QED
      BY <1>1, <1>7, <1>8, <1>9, <3>1, Proceeds DEF IInv
  <2> QED
    BY <2>1, <2>2
<1>11. LedgerInv'
  <2>1. \A d \in DOMAIN log : log'[d].state \in Pending => Kept(d)'
    BY <1>2, <1>4, <1>6 DEF IInv, LedgerInv, Kept, Pending, Requests
  <2>2. \A d \in DOMAIN log : log'[d].state = "dispatched" => log'[d].task # "none"
    BY <1>2, <1>6 DEF IInv, LedgerInv
  <2> QED
    BY <1>7, <1>10, <2>1, <2>2 DEF LedgerInv
<1>12. TypeOK'
  BY <1>1, <1>2, <1>7, <1>10 DEF TypeOK, SchFine
<1> QED
  BY <1>7, <1>10, <1>11, <1>12 DEF IInv, SchFine

-----------------------------------------------------------------------------
(* The theorems *)

\* Nothing is due or held at first, and what is reserved has no task.
LEMMA InitHolds == Init => IInv
<1> SUFFICES ASSUME Init PROVE IInv
  OBVIOUS
<1> USE RoutinesAssumption DEF RoutinesAssumption, Init
<1>1. row \in [Routines -> Row]
  BY DEF Row
<1>2. /\ log \in Seq(Entry) /\ Len(log) \in 0..MaxManual
      /\ DOMAIN log \subseteq {1}
      /\ \A d \in DOMAIN log : log[d].r \in Routines /\ log[d].task = "none" /\ log[d].state \in Kinds
  <2>1. CASE log = <<>>
    BY <2>1
  <2>2. ASSUME NEW e \in Before, log = <<e>>, MaxManual > 0
        PROVE  /\ log \in Seq(Entry) /\ Len(log) \in 0..MaxManual /\ DOMAIN log \subseteq {1}
               /\ \A d \in DOMAIN log :
                     log[d].r \in Routines /\ log[d].task = "none" /\ log[d].state \in Kinds
    <3>1. /\ e \in [r: Routines, due: {0}, state: Kinds, task: {"none"}, origin: BOOLEAN]
      BY DEF Before
    <3>2. e.r \in Routines /\ e.task = "none" /\ e.state \in Kinds
      BY <3>1
    <3>3. 0 \in 0..MaxArrivals /\ Kinds \subseteq Pending
      BY DEF Pending, Requests
    <3>4. e \in Entry
      BY <3>1, <3>3, ZenonT(40) DEF Entry
    <3> HIDE DEF Entry
    <3> QED
      BY <2>2, <3>2, <3>4
  <2> QED
    BY <2>1, <2>2
<1>3. TypeOK
  BY <1>1, <1>2, IdleHolder DEF TypeOK
<1>4. HolderInv /\ OneRow
  BY <1>2, IdleHolder DEF HolderInv, OneRow, Requests
<1>5. RoomInv
  <2>1. LiveTasks = {}
    BY <1>2 DEF LiveTasks
  <2>2. Live = 0
    BY <2>1, FS_EmptySet DEF Live
  <2> QED
    BY <2>2, IdleHolder DEF RoomInv, Requests
<1>6. LedgerInv
  <2>1. \A d \in DOMAIN log : Kept(d) /\ log[d].state # "dispatched"
    BY <1>2 DEF Kept
  <2> QED
    BY <2>1, IdleHolder DEF LedgerInv
<1> QED
  BY <1>3, <1>4, <1>5, <1>6 DEF IInv

\* One step of whatever kind.
LEMMA StepHolds == IInv /\ [Next]_vars => IInv'
<1> SUFFICES ASSUME IInv, [Next]_vars PROVE IInv'
  OBVIOUS
<1>1. CASE UNCHANGED vars
  <2>1. row \in [Routines -> Row] /\ \A d \in DOMAIN log : log[d].r \in Routines
    BY Places DEF IInv, TypeOK, Entry
  <2> QED
    BY <1>1, <2>1, RowWritten DEF vars, IInv, TypeOK, LedgerInv, Kept
<1>2. CASE Scheduler \/ Troubles
  BY <1>2, TickSteps, BeginKeeps, LookKeeps, OriginKeeps, CreateKeeps, SettleKeeps, CompleteKeeps,
     FailKeeps, AbandonKeeps, SettleFailsKeeps
     DEF Scheduler, Troubles
<1>3. CASE Restart \/ \E d \in DOMAIN log : TaskEnds(d) \/ FollowUp(d) \/ CancelStuck(d)
  BY <1>3, TaskSteps
<1>4. ASSUME NEW r \in Routines,
             \/ \E kind \in Kinds : RunNow(r, kind)
             \/ Arrive(r) \/ LeaseEnds(r) \/ Toggle(r) \/ Reschedule(r) \/ Delete(r)
      PROVE  IInv'
  BY <1>4, RunNowKeeps, RowSteps
<1> QED
  BY <1>1, <1>2, <1>3, <1>4 DEF Next

\* The inductive invariant holds in every behaviour of the model.
THEOREM RoutinesInductive == Spec => []IInv
BY InitHolds, StepHolds, PTL DEF Spec

\* The routines table, the ledger and the record of the holder stay within their
\* types (TypeOK).
THEOREM RoutinesTypes == Spec => []TypeOK
<1>1. IInv => TypeOK
  BY DEF IInv
<1> QED
  BY <1>1, RoutinesInductive, PTL

\* A due time becomes one task at most (OneRunPerOccurrence), wherever the process
\* dies between the claim, the ledger row, the task, the settled row and the completed
\* claim, and however often another tick takes the lease over.
THEOREM OccurrenceRunsOnce == Spec => []OneRunPerOccurrence
<1>1. IInv => OneRunPerOccurrence
  BY DEF IInv, OneRow, OneRunPerOccurrence
<1> QED
  BY <1>1, RoutinesInductive, PTL

\* The scheduler never has more tasks in flight than the lane allows, of those whose
\* Create did not report an error to the recovery of requests (LaneLeavesRoom): the
\* room a tick computed once is still there when it creates.
THEOREM LaneNeverOverfull == Spec => []LaneLeavesRoom
<1>1. IInv => LaneLeavesRoom
  BY DEF IInv, RoomInv, Live, LiveTasks, LaneLeavesRoom
<1> QED
  BY <1>1, RoutinesInductive, PTL

\* No run is started for a routine that is gone (RunsOfExistingOnly), unless the row
\* had been written off as failed by a tick that died: DeleteRoutine looks at the rows
\* in progress, and the one a task is created for is one of them or failed.
THEOREM NoRunOfTheGone == Spec => RunsOfExistingOnly
<1> DEFINE Fine == \A d \in DOMAIN log : log[d].task = "none" /\ log'[d].task # "none"
                     => Kept(d) \/ log[d].state = "failed"
<1>1. ASSUME IInv
      PROVE  Fine
  <2> SUFFICES ASSUME NEW d \in DOMAIN log, log[d].task = "none", log'[d].task # "none"
               PROVE  Kept(d) \/ log[d].state = "failed"
    OBVIOUS
  <2>1. log[d].state \in Pending \cup {"dispatched", "failed"}
    BY <1>1, Places DEF IInv, TypeOK, Entry
  <2>2. log[d].state # "dispatched"
    BY <1>1 DEF IInv, LedgerInv
  <2> QED
    BY <1>1, <2>1, <2>2 DEF IInv, LedgerInv
<1>2. IInv => [Fine]_vars
  BY <1>1
<1> QED
  BY <1>2, RoutinesInductive, PTL DEF Spec, RunsOfExistingOnly
=============================================================================

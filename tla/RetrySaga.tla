----------------------------- MODULE RetrySaga ------------------------------
(***************************************************************************)
(* Retry (internal/task/approvals.go, engine.go, internal/store/retry.go): *)
(* a turn is taken out of the history and run again, on files that are put *)
(* back to a checkpoint.  History is cut in one transaction, files in many *)
(* steps of git, so an intent is stored first; whoever finds it completes  *)
(* the retry or undoes it, after a failure at once and after a crash when  *)
(* the daemon starts.                                                      *)
(*                                                                         *)
(* One step is one transaction or one git command.  Retry, Cancel and      *)
(* Recover hold retryMu, so at most one saga is at work.  Every task runs  *)
(* in a worktree; a generation is gone when its changes were integrated.   *)
(* Left out: the contents of the transcript, queued prompts (deleted by    *)
(* the same transaction), checkpoints' own rows, follow-ups.               *)
(***************************************************************************)
EXTENDS Naturals

CONSTANTS
  Tasks,
  None,
  MaxRetries,   \* bound: retries a user asks for, of all tasks
  MaxFaults,    \* bound: steps that fail
  MaxCrashes    \* bound: how often the daemon dies

Terminal == {"succeeded", "failed", "canceled"}
Steps    == {"idle", "prepare", "branch", "mark", "restore", "restoring", "complete", "cleanup",
             "unbranch", "rollback", "rollingback", "abort", "publish"}
Intents  == [files : BOOLEAN, isNew : BOOLEAN, prepared : BOOLEAN, epoch : Nat, prev : Terminal]

ASSUME RetryAssumption ==
  /\ None \notin Tasks \cup Intents
  /\ MaxRetries \in Nat /\ MaxFaults \in Nat /\ MaxCrashes \in Nat

VARIABLES
  status,    \* tasks.status
  epoch,     \* tasks.event_epoch: retries that cut the history
  ws,        \* the row of the current or planned generation
  intent,    \* retry_restore_intents
  tree,      \* the directory of that generation
  branch,    \* whether its branch exists
  session,   \* the agent's session: does it still hold the turns cut off
  queue,     \* Engine.queue
  live,      \* tasks with a run
  mode,      \* of the daemon
  saga,      \* the saga at work
  todo,      \* intents recoverRetryRestores has listed and not yet looked at
  before,    \* history: status, row and files when the last retry was begun
  cut,       \* history: tasks whose undoing was cut off after the removal
  faulted,   \* history: something has failed in this start
  retries, faults, crashes

rows   == <<status, epoch, ws, intent>>
disk   == <<tree, branch>>
memory == <<queue, live>>
ghosts == <<before, cut>>
bounds == <<retries, faults, crashes>>
vars   == <<status, epoch, ws, intent, tree, branch, session, queue, live, mode, saga, todo,
            before, cut, faulted, retries, faults, crashes>>

TypeOK ==
  /\ status \in [Tasks -> Terminal \cup {"retrying", "queued", "running"}]
  /\ epoch \in [Tasks -> Nat]
  /\ ws \in [Tasks -> {"none", "provisioning", "current"}]
  /\ intent \in [Tasks -> Intents \cup {None}]
  /\ tree \in [Tasks -> {"absent", "detached", "base", "work", "torn", "checkpoint"}]
  /\ branch \in [Tasks -> BOOLEAN]
  /\ session \in [Tasks -> {"stale", "fresh"}]
  /\ queue \subseteq Tasks /\ live \subseteq Tasks
  /\ mode \in {"up", "down", "starting"}
  /\ saga \in [pc : Steps, task : Tasks \cup {None}, removed : BOOLEAN]
  /\ saga.pc # "idle" <=> saga.task # None
  /\ saga.pc \notin {"idle", "publish"} => status[saga.task] = "retrying"
  /\ todo \subseteq Tasks /\ cut \subseteq Tasks
  /\ before \in [Tasks -> [status : Terminal, ws : {"none", "current"}, tree : {"absent", "work"}]]
  /\ faulted \in BOOLEAN
  /\ retries \in 0..MaxRetries /\ faults \in 0..MaxFaults /\ crashes \in 0..MaxCrashes

Idle == [pc |-> "idle", task |-> None, removed |-> FALSE]

Init ==
  /\ \E held \in [Tasks -> BOOLEAN] :
       /\ ws = [t \in Tasks |-> IF held[t] THEN "current" ELSE "none"]
       /\ tree = [t \in Tasks |-> IF held[t] THEN "work" ELSE "absent"]
       /\ branch = held
       /\ before = [t \in Tasks |-> [status |-> "failed", ws |-> ws[t], tree |-> tree[t]]]
  /\ status = [t \in Tasks |-> "failed"]
  /\ epoch = [t \in Tasks |-> 0]
  /\ intent = [t \in Tasks |-> None]
  /\ session = [t \in Tasks |-> "stale"]
  /\ queue = {} /\ live = {} /\ mode = "up" /\ saga = Idle /\ todo = {}
  /\ cut = {} /\ faulted = FALSE
  /\ retries = 0 /\ faults = 0 /\ crashes = 0

-----------------------------------------------------------------------------
(* Steps of a saga *)

\* Mutant: a target that was prepared is taken for restored.
FirstStepTrusts(in) == IF in.isNew /\ ~in.prepared THEN "prepare"
                       ELSE IF in.files /\ ~in.isNew THEN "restore" ELSE "complete"

\* resolveRetryRestoreIntent starts here: a new target is prepared unless the
\* intent says where it is, then files are restored, then the history is cut.
FirstStep(in) == IF in.isNew /\ ~in.prepared THEN "prepare"
                 ELSE IF in.files THEN "restore" ELSE "complete"

\* compensateRetryRestore: a new target is removed, an existing one gets its
\* files back, then the task is released.
Compensation(in) == IF in.isNew THEN "cleanup" ELSE IF in.files THEN "rollback" ELSE "abort"

At(pc, t) == saga.pc = pc /\ saga.task = t
Goto(pc)  == saga' = [saga EXCEPT !.pc = pc]

Fault == faults < MaxFaults /\ faults' = faults + 1 /\ faulted' = TRUE
NoFault == UNCHANGED <<faults, faulted>>

\* An error nobody can undo: the caller of Retry is told that the intent is left
\* to the next start; in a start, the start itself fails.
GiveUp ==
  /\ saga' = Idle
  /\ IF mode = "starting" THEN mode' = "down" /\ todo' = {} /\ queue' = {} /\ live' = {}
                          ELSE UNCHANGED <<mode, todo, queue, live>>

\* Files are just files again.
Used(files) == IF files = "absent" THEN "absent" ELSE "work"

\* BeginRetryRestore.  The current generation is restored; a task without one
\* gets the next, planned before anything is done on disk.
BeginRetry(t, files) ==
  /\ mode = "up" /\ saga = Idle /\ retries < MaxRetries
  /\ status[t] \in Terminal /\ intent[t] = None
  /\ ws[t] = "current" => tree[t] # "absent"
  /\ LET in == [files |-> files, isNew |-> ws[t] = "none", prepared |-> FALSE,
                epoch |-> epoch[t], prev |-> status[t]]
     IN /\ intent' = [intent EXCEPT ![t] = in]
        /\ saga' = [pc |-> FirstStep(in), task |-> t, removed |-> FALSE]
  /\ status' = [status EXCEPT ![t] = "retrying"]
  /\ ws' = [ws EXCEPT ![t] = IF @ = "none" THEN "provisioning" ELSE @]
  /\ before' = [before EXCEPT ![t] = [status |-> status[t], ws |-> ws[t], tree |-> tree[t]]]
  /\ retries' = retries + 1
  /\ UNCHANGED <<epoch, disk, session, memory, mode, todo, cut, faulted, faults, crashes>>

\* PrepareGeneration: a directory that is there is adopted, else git adds a
\* worktree.
Prepare(t) ==
  /\ At("prepare", t)
  /\ \/ /\ tree' = [tree EXCEPT ![t] = IF @ = "absent" THEN "detached" ELSE @]
        /\ Goto("branch") /\ NoFault
     \/ /\ Fault /\ Goto("cleanup") /\ UNCHANGED tree
  /\ UNCHANGED <<rows, branch, session, memory, mode, todo, ghosts, retries, crashes>>

\* git checkout -b; if it fails, a worktree that was just added is removed.
Branch(t) ==
  /\ At("branch", t)
  /\ \/ /\ tree[t] = "base" \/ ~branch[t]
        /\ tree' = [tree EXCEPT ![t] = "base"]
        /\ branch' = [branch EXCEPT ![t] = TRUE]
        /\ Goto("mark") /\ NoFault
     \/ /\ tree[t] = "detached"
        /\ IF branch[t] THEN NoFault ELSE Fault
        /\ \E left \in {"absent", "detached"} : tree' = [tree EXCEPT ![t] = left]
        /\ Goto("cleanup")
        /\ UNCHANGED branch
  /\ UNCHANGED <<rows, session, memory, mode, todo, ghosts, retries, crashes>>

\* MarkRetryRestoreTargetPrepared
Mark(t) ==
  /\ At("mark", t)
  /\ \/ /\ intent' = [intent EXCEPT ![t].prepared = TRUE]
        /\ Goto(FirstStep(intent'[t])) /\ NoFault
     \/ /\ Fault /\ Goto("cleanup") /\ UNCHANGED intent
  /\ UNCHANGED <<status, epoch, ws, disk, session, memory, mode, todo, ghosts, retries, crashes>>

\* Manager.Restore resets the tree and fills it again; nothing can be restored
\* into a directory that is gone.
Restore(t) ==
  /\ \/ /\ At("restore", t) /\ tree[t] # "absent"
        /\ tree' = [tree EXCEPT ![t] = "torn"]
        /\ Goto("restoring") /\ NoFault
     \/ /\ At("restoring", t)
        /\ tree' = [tree EXCEPT ![t] = "checkpoint"]
        /\ Goto("complete") /\ NoFault
     \/ /\ At("restore", t) \/ At("restoring", t)
        /\ IF tree[t] = "absent" THEN NoFault ELSE Fault
        /\ Goto(Compensation(intent[t]))
        /\ UNCHANGED tree
  /\ UNCHANGED <<rows, branch, session, memory, mode, todo, ghosts, retries, crashes>>

\* CompleteRetryRestore: one transaction cuts the history, binds the target and
\* queues the task.  The intent stays until the task is claimed.
Complete(t) ==
  /\ At("complete", t)
  /\ \/ /\ status' = [status EXCEPT ![t] = "queued"]
        /\ epoch' = [epoch EXCEPT ![t] = @ + 1]
        /\ ws' = [ws EXCEPT ![t] = "current"]
        /\ session' = [session EXCEPT ![t] = "stale"]
        /\ Goto("publish") /\ NoFault
     \/ /\ Fault /\ Goto(Compensation(intent[t]))
        /\ UNCHANGED <<status, epoch, ws, session>>
  /\ UNCHANGED <<intent, disk, memory, mode, todo, ghosts, retries, crashes>>

\* publishCompletedRetry: the agent forgets, then the task is queued.
Publish(t) ==
  /\ At("publish", t)
  /\ \/ /\ session' = [session EXCEPT ![t] = "fresh"]
        /\ queue' = queue \cup {t}
        /\ saga' = Idle /\ NoFault
        /\ UNCHANGED <<live, mode, todo>>
     \/ /\ Fault /\ GiveUp /\ UNCHANGED session
  /\ UNCHANGED <<rows, disk, ghosts, retries, crashes>>

\* CleanupPrepared: git worktree remove; what is left of the directory is removed
\* in any case, but its branch cannot be deleted then.
Cleanup(t) ==
  /\ At("cleanup", t)
  /\ tree' = [tree EXCEPT ![t] = "absent"]
  /\ \/ /\ saga' = [saga EXCEPT !.pc = "unbranch", !.removed = tree[t] # "absent"]
        /\ NoFault /\ UNCHANGED <<mode, todo, memory>>
     \/ /\ tree[t] # "absent" /\ Fault /\ GiveUp
  /\ UNCHANGED <<rows, branch, session, ghosts, retries, crashes>>

\* git branch -D: an error only if there was no worktree to remove either.
Unbranch(t) ==
  /\ At("unbranch", t)
  /\ \/ /\ branch[t]
        /\ branch' = [branch EXCEPT ![t] = FALSE]
        /\ Goto("abort") /\ NoFault
        /\ UNCHANGED <<mode, todo, memory>>
     \/ /\ IF branch[t] THEN Fault ELSE NoFault
        /\ IF saga.removed THEN Goto("abort") /\ UNCHANGED <<mode, todo, memory>> ELSE GiveUp
        /\ UNCHANGED branch
  /\ UNCHANGED <<rows, tree, session, ghosts, retries, crashes>>

\* Manager.Restore of the rollback checkpoint
Rollback(t) ==
  /\ \/ /\ At("rollback", t)
        /\ tree' = [tree EXCEPT ![t] = "torn"]
        /\ Goto("rollingback") /\ NoFault
        /\ UNCHANGED <<mode, todo, memory>>
     \/ /\ At("rollingback", t)
        /\ tree' = [tree EXCEPT ![t] = "work"]
        /\ Goto("abort") /\ NoFault
        /\ UNCHANGED <<mode, todo, memory>>
     \/ /\ At("rollback", t) \/ At("rollingback", t)
        /\ Fault /\ GiveUp /\ UNCHANGED tree
  /\ UNCHANGED <<rows, branch, session, ghosts, retries, crashes>>

\* Mutant: a planned generation is not taken back.
AbortKeepsPlan(t) ==
  /\ At("abort", t)
  /\ status' = [status EXCEPT ![t] = intent[t].prev]
  /\ intent' = [intent EXCEPT ![t] = None]
  /\ saga' = Idle
  /\ UNCHANGED <<ws, epoch, disk, session, memory, mode, todo, ghosts, bounds, faulted>>

\* Mutant: the intent outlives the retry it was for.
AbortKeepsIntent(t) ==
  /\ At("abort", t)
  /\ status' = [status EXCEPT ![t] = intent[t].prev]
  /\ ws' = [ws EXCEPT ![t] = IF intent[t].isNew THEN "none" ELSE @]
  /\ saga' = Idle
  /\ UNCHANGED <<intent, epoch, disk, session, memory, mode, todo, ghosts, bounds, faulted>>

\* AbortRetryRestore
Abort(t) ==
  /\ At("abort", t)
  /\ \/ /\ status' = [status EXCEPT ![t] = intent[t].prev]
        /\ ws' = [ws EXCEPT ![t] = IF intent[t].isNew THEN "none" ELSE @]
        /\ intent' = [intent EXCEPT ![t] = None]
        /\ saga' = Idle /\ NoFault
        /\ UNCHANGED <<mode, todo, memory>>
     \/ /\ Fault /\ GiveUp /\ UNCHANGED <<status, ws, intent>>
  /\ UNCHANGED <<epoch, disk, session, ghosts, retries, crashes>>

-----------------------------------------------------------------------------
(* The turn that is run again *)

\* pump, startOne, StartQueuedTask: the claim consumes the intent.
Start(t) ==
  /\ mode = "up" /\ t \in queue /\ status[t] = "queued"
  /\ status' = [status EXCEPT ![t] = "running"]
  /\ intent' = [intent EXCEPT ![t] = None]
  /\ queue' = queue \ {t} /\ live' = live \cup {t}
  /\ UNCHANGED <<epoch, ws, disk, session, mode, saga, todo, ghosts, faulted, bounds>>

\* The run ends; its generation is integrated and released, or kept.
Finish(t) ==
  /\ mode = "up" /\ t \in live
  /\ \E s \in {"succeeded", "failed"}, keep \in BOOLEAN :
       /\ status' = [status EXCEPT ![t] = s]
       /\ ws' = [ws EXCEPT ![t] = IF keep THEN @ ELSE "none"]
       /\ tree' = [tree EXCEPT ![t] = IF keep THEN Used(@) ELSE "absent"]
       /\ branch' = [branch EXCEPT ![t] = keep]
  /\ live' = live \ {t}
  /\ UNCHANGED <<epoch, intent, session, queue, mode, saga, todo, ghosts, faulted, bounds>>

\* Cancel of a queued task; FinishTask takes the intent with it.
Cancel(t) ==
  /\ mode = "up" /\ saga = Idle /\ status[t] = "queued"
  /\ status' = [status EXCEPT ![t] = "canceled"]
  /\ intent' = [intent EXCEPT ![t] = None]
  /\ queue' = queue \ {t}
  /\ tree' = [tree EXCEPT ![t] = Used(@)]
  /\ UNCHANGED <<epoch, ws, branch, session, live, mode, saga, todo, ghosts, faulted, bounds>>

-----------------------------------------------------------------------------
(* Crash and start *)

Crash ==
  /\ mode # "down" /\ crashes < MaxCrashes
  /\ mode' = "down" /\ crashes' = crashes + 1
  /\ saga' = Idle /\ todo' = {} /\ queue' = {} /\ live' = {}
  /\ UNCHANGED <<rows, disk, session, ghosts, faulted, retries, faults>>

\* FailOrphaned spares the tasks with an intent; their intents are listed.
Boot ==
  /\ mode = "down"
  /\ mode' = "starting" /\ faulted' = FALSE
  /\ status' = [t \in Tasks |-> IF status[t] \in {"queued", "running"} /\ intent[t] = None
                                  THEN "failed" ELSE status[t]]
  /\ tree' = [t \in Tasks |-> IF status[t] = "running" THEN Used(tree[t]) ELSE tree[t]]
  /\ todo' = {t \in Tasks : intent[t] # None}
  /\ UNCHANGED <<epoch, ws, intent, branch, session, memory, saga, ghosts, bounds>>

\* Mutant: a completed retry is queued again as it is.
RequeueAtOnce(t) ==
  /\ queue' = queue \cup {t} /\ todo' = todo \ {t}
  /\ NoFault /\ UNCHANGED <<live, session, mode, saga>>

\* A completed retry that was not claimed is queued again, after the agent's
\* session was reset.
Requeue(t) ==
  \/ /\ session' = [session EXCEPT ![t] = "fresh"]
     /\ queue' = queue \cup {t}
     /\ NoFault /\ UNCHANGED <<live, mode, saga>>
     /\ todo' = todo \ {t}
  \/ /\ Fault /\ GiveUp /\ UNCHANGED session

\* recoverRetryRestores, one intent
Recover(t) ==
  /\ mode = "starting" /\ saga = Idle /\ t \in todo
  /\ \/ /\ epoch[t] = intent[t].epoch + 1 /\ status[t] = "queued"
        /\ Requeue(t)
        /\ UNCHANGED <<intent, cut>>
     \/ /\ epoch[t] = intent[t].epoch + 1 /\ status[t] # "queued"
        /\ intent' = [intent EXCEPT ![t] = None]
        /\ todo' = todo \ {t}
        /\ NoFault /\ UNCHANGED <<session, memory, mode, saga, cut>>
     \/ /\ epoch[t] # intent[t].epoch + 1
        /\ epoch[t] # intent[t].epoch \/ status[t] # "retrying"
        /\ NoFault /\ GiveUp
        /\ UNCHANGED <<intent, session, cut>>
     \/ /\ epoch[t] = intent[t].epoch /\ status[t] = "retrying"
        /\ saga' = [pc |-> FirstStep(intent[t]), task |-> t, removed |-> FALSE]
        /\ todo' = todo \ {t}
        /\ cut' = IF intent[t].prepared /\ tree[t] = "absent" THEN cut \cup {t} ELSE cut
        /\ NoFault /\ UNCHANGED <<intent, session, memory, mode>>
  /\ UNCHANGED <<status, epoch, ws, disk, before, retries, crashes>>

Started ==
  /\ mode = "starting" /\ saga = Idle /\ todo = {}
  /\ mode' = "up"
  /\ UNCHANGED <<rows, disk, session, memory, saga, todo, ghosts, faulted, bounds>>

-----------------------------------------------------------------------------
Saga(t) ==
  \/ Prepare(t) \/ Branch(t) \/ Mark(t) \/ Restore(t) \/ Complete(t) \/ Publish(t)
  \/ Cleanup(t) \/ Unbranch(t) \/ Rollback(t) \/ Abort(t)

Next ==
  \/ \E t \in Tasks : \/ \E files \in BOOLEAN : BeginRetry(t, files)
                      \/ Saga(t) \/ Start(t) \/ Finish(t) \/ Cancel(t) \/ Recover(t)
  \/ Crash \/ Boot \/ Started

\* A saga goes on, and somebody starts the daemon again.
Fairness ==
  /\ \A t \in Tasks : WF_vars(Saga(t)) /\ WF_vars(Recover(t))
  /\ WF_vars(Boot) /\ WF_vars(Started)

Spec == Init /\ [][Next]_vars
FairSpec == Spec /\ Fairness

-----------------------------------------------------------------------------
(* What a retry promises *)

\* A retry that is undone leaves the task, its generation and its files as they
\* were, whatever has failed and however often the daemon died on the way.
Undone ==
  [][\A t \in Tasks : status[t] = "retrying" /\ status'[t] \in Terminal =>
       before[t] = [status |-> status'[t], ws |-> ws'[t], tree |-> tree'[t]]]_vars

\* Files and history go together: a task whose history was cut is queued on a
\* generation that is there, with the files of its checkpoint if they were asked
\* for.  (Not a task whose new generation an interrupted undoing had removed.)
FilesFollowHistory ==
  \A t \in Tasks \ cut : status[t] = "queued" =>
    /\ ws[t] = "current" /\ tree[t] # "absent"
    /\ intent[t] # None /\ intent[t].files => tree[t] = "checkpoint"

\* Recovery can tell what an intent is about: reserved and not cut, or cut once
\* and not claimed.  Its refusal of any other task never happens.
IntentMatches ==
  \A t \in Tasks :
    /\ status[t] = "retrying" => intent[t] # None
    /\ intent[t] # None => \/ status[t] = "retrying" /\ epoch[t] = intent[t].epoch
                           \/ status[t] = "queued" /\ epoch[t] = intent[t].epoch + 1

\* While the daemon is up, a retried turn is run or will be: what is running has a
\* run, and what is queued is in the queue or has an intent for the next start.
NothingStranded ==
  mode = "up" => \A t \in Tasks : /\ status[t] = "running" => t \in live
                                  /\ status[t] = "queued" => t \in queue \/ intent[t] # None

\* At every moment, between any two steps of a retry and after any crash, the
\* three agree: the history, the files and the intent that would finish or undo
\* the retry; and a retried turn is not forgotten.
HistoryHolds == FilesFollowHistory /\ IntentMatches /\ NothingStranded

\* A retried turn never starts in an agent session that remembers the turns it
\* has cut off.
StartsFresh ==
  [][\A t \in Tasks : t \in live' \ live => session[t] = "fresh"]_vars

\* A daemon that died comes up again, in spite of half-done retries and of
\* failures while it recovers them, if no undoing was cut off after its removal.
ComesUp == mode = "down" ~> mode = "up" \/ cut # {}

-----------------------------------------------------------------------------
(* What recovery does not keep: refuted (see README.md). *)

\* A start in which nothing fails resolves every intent (docs: startup resolves
\* every retry intent, by completing it or by removing the planned generation).
StartResolves ==
  [][mode = "starting" /\ mode' = "down" /\ crashes' = crashes => faulted']_vars

=============================================================================

-------------------------- MODULE RetrySagaProofs ---------------------------
(***************************************************************************)
(* Theorems about RetrySaga: at every moment of a retry, and after any     *)
(* crash, the history, the files and the stored intent agree, and a retry  *)
(* that is undone leaves what it found.                                    *)
(***************************************************************************)
EXTENDS RetrySaga, TLAPS

(***************************************************************************)
(* The inductive invariant                                                 *)
(***************************************************************************)

\* What the process holds in its memory says what the rows say: a run is a
\* running task's, a queued number a queued task's with its agent's session
\* reset, an intent still to be looked at is there and nobody works on it.
MemoryInv ==
  /\ mode # "starting" => todo = {}
  /\ mode # "up" => live = {}
  /\ mode = "down" => queue = {} /\ saga.pc = "idle"
  /\ saga.task \notin todo
  /\ saga.pc = "publish" => status[saga.task] = "queued" /\ saga.task \notin queue
  /\ \A t \in Tasks :
       /\ t \in live => status[t] = "running"
       /\ status[t] = "running" => t \in live \/ mode = "down"
       /\ t \in queue => status[t] = "queued" /\ session[t] = "fresh"
       /\ t \in todo => intent[t] # None

\* What an intent is about, and what it remembers of the task it reserved.
IntentInv ==
  \A t \in Tasks :
    /\ intent[t] # None <=> status[t] \in {"retrying", "queued"}
    /\ status[t] = "retrying" =>
         /\ epoch[t] = intent[t].epoch
         /\ ws[t] = IF intent[t].isNew THEN "provisioning" ELSE "current"
         /\ before[t] = [status |-> intent[t].prev,
                         ws |-> IF intent[t].isNew THEN "none" ELSE "current",
                         tree |-> IF intent[t].isNew THEN "absent" ELSE "work"]
    /\ status[t] = "queued" => epoch[t] = intent[t].epoch + 1
    /\ status[t] \in {"queued", "running"} => ws[t] = "current"
    /\ status[t] \in Terminal => ws[t] # "provisioning"
    /\ intent[t] # None => (intent[t].prepared => intent[t].isNew)

\* Where the files are when no step of a saga is under way.
FilesInv ==
  \A t \in Tasks :
    /\ status[t] \in Terminal => /\ tree[t] \in {"absent", "work"}
                                 /\ ws[t] = "none" => tree[t] = "absent"
    /\ status[t] = "retrying" =>
         IF intent[t].isNew
         THEN /\ ~intent[t].prepared => tree[t] \in {"absent", "detached", "base"}
         ELSE /\ tree[t] # "absent"
              /\ ~intent[t].files => tree[t] = "work"
    /\ status[t] = "queued" => /\ intent[t].files => tree[t] = "checkpoint"
                               /\ tree[t] = "absent" => t \in cut

\* Which intents bring a saga to which step, and what the steps before it have
\* left on the disk.
StepInv ==
  LET t == saga.task IN
  /\ saga.pc \in {"prepare", "branch", "mark"} => intent[t].isNew /\ ~intent[t].prepared
  /\ saga.pc \in {"restore", "restoring"} => intent[t].files
  /\ saga.pc \in {"restore", "restoring", "complete"} =>
       (intent[t].isNew => intent[t].prepared)
  /\ saga.pc \in {"cleanup", "unbranch"} => intent[t].isNew
  /\ saga.pc \in {"rollback", "rollingback"} => intent[t].files /\ ~intent[t].isNew
  /\ saga.pc = "branch" => tree[t] \in {"detached", "base"}
  /\ saga.pc = "mark" => tree[t] = "base"
  /\ saga.pc \in {"restore", "complete"} => (tree[t] = "absent" => t \in cut)
  /\ saga.pc \in {"restoring", "rollingback"} => tree[t] = "torn"
  /\ saga.pc = "complete" => (intent[t].files => tree[t] = "checkpoint")
  /\ saga.pc = "unbranch" => tree[t] = "absent"
  /\ saga.pc = "abort" => tree[t] = IF intent[t].isNew THEN "absent" ELSE "work"

IInv == TypeOK /\ MemoryInv /\ IntentInv /\ FilesInv /\ StepInv

-----------------------------------------------------------------------------
(***************************************************************************)
(* Lemmas about the helpers of the actions                                 *)
(***************************************************************************)

Sagas == [pc : Steps, task : Tasks \cup {None}, removed : BOOLEAN]

\* A saga goes to its next step.
LEMMA GotoMoves ==
  ASSUME saga \in Sagas, NEW pc \in Steps, Goto(pc)
  PROVE  saga' \in Sagas /\ saga'.pc = pc /\ saga'.task = saga.task
BY DEF Sagas, Goto

\* A saga that is over.
LEMMA IdleIsIdle == Idle \in Sagas /\ Idle.pc = "idle" /\ Idle.task = None
BY DEF Idle, Sagas, Steps

\* A fault is counted, within its bound.
LEMMA FaultCounted ==
  ASSUME TypeOK, Fault \/ NoFault
  PROVE  faults' \in 0..MaxFaults /\ faulted' \in BOOLEAN
<1>1. faults \in 0..MaxFaults /\ faulted \in BOOLEAN BY DEF TypeOK
<1>2. faults' \in 0..MaxFaults BY <1>1, RetryAssumption DEF Fault, NoFault
<1>3. faulted' \in BOOLEAN BY <1>1, Zenon DEF Fault, NoFault
<1> QED BY <1>2, <1>3

\* A task a saga is at work on is reserved: it has an intent and is neither
\* queued nor run, and recovery has taken the intent off its list.
LEMMA AtWork ==
  ASSUME IInv, NEW t \in Tasks, saga.task = t, saga.pc # "publish"
  PROVE  /\ status[t] = "retrying" /\ intent[t] \in Intents /\ intent[t] # None
         /\ saga.pc # "idle" /\ mode # "down"
         /\ t \notin queue /\ t \notin live /\ t \notin todo
BY RetryAssumption DEF IInv, TypeOK, MemoryInv, IntentInv

\* A step that is not the last leaves what the process holds in memory alone.
LEMMA StepRests ==
  ASSUME IInv, NEW t \in Tasks, saga.task = t, saga.pc # "publish",
         NEW pc \in Steps \ {"idle", "publish"}, Goto(pc),
         UNCHANGED <<mode, todo, queue, live, status, session>>,
         \A u \in Tasks : intent[u] # None => intent'[u] # None
  PROVE  MemoryInv'
<1>1. saga \in Sagas BY DEF IInv, TypeOK, Sagas
<1>2. saga'.pc = pc /\ saga'.task = t BY <1>1, GotoMoves
<1>3. mode # "down" /\ t \notin todo BY AtWork
<1> QED BY <1>2, <1>3 DEF IInv, MemoryInv

\* Giving up leaves no saga, and in a start no process.
LEMMA GiveUpForgets ==
  ASSUME IInv, GiveUp, UNCHANGED <<status, session, intent>>
  PROVE  /\ MemoryInv' /\ StepInv'
         /\ saga' \in Sagas /\ saga'.pc = "idle" /\ saga'.task = None
         /\ mode' \in {"up", "down", "starting"}
         /\ todo' \subseteq Tasks /\ queue' \subseteq Tasks /\ live' \subseteq Tasks
<1>1. saga' \in Sagas /\ saga'.pc = "idle" /\ saga'.task = None
  BY IdleIsIdle DEF GiveUp
<1>2. None \notin todo BY RetryAssumption DEF IInv, TypeOK
<1>3. MemoryInv' BY <1>1, <1>2 DEF IInv, MemoryInv, GiveUp
<1>4. StepInv' BY <1>1 DEF StepInv
<1>5. mode' \in {"up", "down", "starting"} /\ todo' \subseteq Tasks /\ queue' \subseteq Tasks
      /\ live' \subseteq Tasks
  BY DEF IInv, TypeOK, GiveUp
<1> QED BY <1>1, <1>3, <1>4, <1>5

\* BeginRetryRestore stores the intent and reserves the task.
LEMMA BeginRetryKeeps ==
  ASSUME NEW t \in Tasks, NEW files \in BOOLEAN, IInv, BeginRetry(t, files)
  PROVE  IInv'
<1> USE RetryAssumption
<1> DEFINE in == [files |-> files, isNew |-> ws[t] = "none", prepared |-> FALSE,
                  epoch |-> epoch[t], prev |-> status[t]]
           was == [status |-> status[t], ws |-> ws[t], tree |-> tree[t]]
<1>1. /\ mode = "up" /\ saga = Idle /\ retries < MaxRetries /\ retries' = retries + 1
      /\ status[t] \in Terminal /\ intent[t] = None
      /\ ws[t] = "current" => tree[t] # "absent"
      /\ intent' = [intent EXCEPT ![t] = in]
      /\ saga' = [pc |-> FirstStep(in), task |-> t, removed |-> FALSE]
      /\ status' = [status EXCEPT ![t] = "retrying"]
      /\ ws' = [ws EXCEPT ![t] = IF @ = "none" THEN "provisioning" ELSE @]
      /\ before' = [before EXCEPT ![t] = was]
      /\ UNCHANGED <<epoch, tree, branch, session, queue, live, mode, todo, cut, faulted, faults,
                     crashes>>
  BY DEF BeginRetry, disk, memory
<1>a. epoch[t] \in Nat /\ status[t] \in Terminal BY <1>1 DEF IInv, TypeOK
<1>b. in \in Intents BY <1>a, Zenon DEF Intents
<1>2. /\ in \in Intents /\ in # None /\ in.files = files /\ ~in.prepared
      /\ (in.isNew <=> ws[t] = "none") /\ in.epoch = epoch[t] /\ in.prev = status[t]
  BY <1>b
<1>3. /\ ws[t] \in {"none", "current"}
      /\ ws[t] = "none" => tree[t] = "absent"
      /\ ws[t] = "current" => tree[t] = "work"
  BY <1>1 DEF IInv, TypeOK, IntentInv, FilesInv
<1>4. was \in [status : Terminal, ws : {"none", "current"}, tree : {"absent", "work"}]
  BY <1>1, <1>3
<1>5. /\ FirstStep(in) \in {"prepare", "restore", "complete"}
      /\ FirstStep(in) = "prepare" <=> in.isNew
      /\ FirstStep(in) = "restore" => in.files
      /\ FirstStep(in) = "complete" => ~in.files
  BY <1>2 DEF FirstStep, Intents
<1>6. t \notin queue /\ t \notin live /\ t \notin todo
  BY <1>1 DEF IInv, MemoryInv, Terminal
<1>7. before'[t] = [status |-> in.prev, ws |-> IF in.isNew THEN "none" ELSE "current",
                    tree |-> IF in.isNew THEN "absent" ELSE "work"]
  BY <1>1, <1>2, <1>3 DEF IInv, TypeOK
<1>p. /\ intent'[t] = in /\ status'[t] = "retrying"
      /\ ws'[t] = IF in.isNew THEN "provisioning" ELSE "current"
      /\ \A u \in Tasks \ {t} : /\ intent'[u] = intent[u] /\ status'[u] = status[u]
                                /\ ws'[u] = ws[u] /\ before'[u] = before[u]
  BY <1>1, <1>2, <1>3 DEF IInv, TypeOK
<1> HIDE DEF in, was
<1>8. saga' \in Sagas /\ saga'.pc = FirstStep(in) /\ saga'.task = t
  BY <1>1, <1>5 DEF Sagas, Steps
<1>9. TypeOK' BY <1>1, <1>2, <1>4, <1>5, <1>8 DEF IInv, TypeOK, Sagas
<1>10. MemoryInv' BY <1>1, <1>2, <1>5, <1>6, <1>8, <1>p DEF IInv, TypeOK, MemoryInv
<1>11. IntentInv' BY <1>1, <1>2, <1>7, <1>p DEF IInv, IntentInv, Terminal
<1>12. FilesInv' BY <1>1, <1>2, <1>3, <1>p DEF IInv, FilesInv, Terminal
<1>13. StepInv' BY <1>1, <1>2, <1>3, <1>5, <1>8, <1>p DEF StepInv
<1> QED BY <1>9, <1>10, <1>11, <1>12, <1>13 DEF IInv

\* PrepareGeneration finds the directory or adds it.
LEMMA PrepareKeeps ==
  ASSUME NEW t \in Tasks, IInv, Prepare(t)
  PROVE  IInv'
<1> USE RetryAssumption
<1>0. saga \in Sagas BY DEF IInv, TypeOK, Sagas
<1>a. saga.task = t /\ saga.pc \in {"prepare"} BY DEF Prepare, At
<1>b. /\ status[t] = "retrying" /\ intent[t] \in Intents /\ intent[t] # None
      /\ saga.pc # "idle" /\ mode # "down" /\ t \notin queue /\ t \notin live /\ t \notin todo
  BY <1>a, AtWork
<1>f. UNCHANGED <<status, epoch, ws, intent, branch, session, queue, live, mode, todo, before,
                  cut, retries, crashes>>
  BY DEF Prepare, rows, disk, memory, ghosts
<1>1. ASSUME saga.pc = "prepare",
              tree' = [tree EXCEPT ![t] = IF @ = "absent" THEN "detached" ELSE @],
              Goto("branch"),
              NoFault
      PROVE  IInv'
  <2>1. faults' \in 0..MaxFaults /\ faulted' \in BOOLEAN BY <1>1, FaultCounted DEF IInv
  <2>2. saga' \in Sagas /\ saga'.pc = "branch" /\ saga'.task = t
    BY <1>1, <1>0, <1>a, <1>b, GotoMoves DEF Steps
  <2>3. TypeOK' BY <1>1, <1>a, <1>b, <1>f, <2>2, <2>1 DEF IInv, TypeOK, Sagas
  <2>4. MemoryInv' BY <1>1, <1>a, <1>b, <1>f, <2>2, <1>0, StepRests DEF IInv, TypeOK, Steps
  <2>5. IntentInv' BY <1>1, <1>a, <1>b, <1>f, <2>2 DEF IInv, TypeOK, IntentInv
  <2>6. FilesInv'
    BY <1>1, <1>a, <1>b, <1>f, <2>2 DEF IInv, TypeOK, IntentInv, FilesInv, StepInv, Terminal
  <2>7. StepInv' BY <1>1, <1>a, <1>b, <1>f, <2>2 DEF IInv, TypeOK, IntentInv, FilesInv, StepInv
  <2> QED BY <2>3, <2>4, <2>5, <2>6, <2>7 DEF IInv
<1>2. ASSUME saga.pc = "prepare",
              UNCHANGED tree,
              Goto("cleanup"),
              Fault
      PROVE  IInv'
  <2>1. faults' \in 0..MaxFaults /\ faulted' \in BOOLEAN BY <1>2, FaultCounted DEF IInv
  <2>2. saga' \in Sagas /\ saga'.pc = "cleanup" /\ saga'.task = t
    BY <1>2, <1>0, <1>a, <1>b, GotoMoves DEF Steps
  <2>3. TypeOK' BY <1>2, <1>a, <1>b, <1>f, <2>2, <2>1 DEF IInv, TypeOK, Sagas
  <2>4. MemoryInv' BY <1>2, <1>a, <1>b, <1>f, <2>2, <1>0, StepRests DEF IInv, TypeOK, Steps
  <2>5. IntentInv' BY <1>2, <1>a, <1>b, <1>f, <2>2 DEF IInv, TypeOK, IntentInv
  <2>6. FilesInv'
    BY <1>2, <1>a, <1>b, <1>f, <2>2 DEF IInv, TypeOK, IntentInv, FilesInv, StepInv, Terminal
  <2>7. StepInv' BY <1>2, <1>a, <1>b, <1>f, <2>2 DEF IInv, TypeOK, IntentInv, FilesInv, StepInv
  <2> QED BY <2>3, <2>4, <2>5, <2>6, <2>7 DEF IInv
<1> QED BY <1>1, <1>2, <1>a DEF Prepare, At, memory, disk

\* The branch of the planned generation.
LEMMA BranchKeeps ==
  ASSUME NEW t \in Tasks, IInv, Branch(t)
  PROVE  IInv'
<1> USE RetryAssumption
<1>0. saga \in Sagas BY DEF IInv, TypeOK, Sagas
<1>a. saga.task = t /\ saga.pc \in {"branch"} BY DEF Branch, At
<1>b. /\ status[t] = "retrying" /\ intent[t] \in Intents /\ intent[t] # None
      /\ saga.pc # "idle" /\ mode # "down" /\ t \notin queue /\ t \notin live /\ t \notin todo
  BY <1>a, AtWork
<1>f. UNCHANGED <<status, epoch, ws, intent, session, queue, live, mode, todo, before, cut,
                  retries, crashes>>
  BY DEF Branch, rows, disk, memory, ghosts
<1>1. ASSUME saga.pc = "branch",
              tree' = [tree EXCEPT ![t] = "base"],
              branch' = [branch EXCEPT ![t] = TRUE],
              Goto("mark"),
              NoFault
      PROVE  IInv'
  <2>1. faults' \in 0..MaxFaults /\ faulted' \in BOOLEAN BY <1>1, FaultCounted DEF IInv
  <2>2. saga' \in Sagas /\ saga'.pc = "mark" /\ saga'.task = t
    BY <1>1, <1>0, <1>a, <1>b, GotoMoves DEF Steps
  <2>3. TypeOK' BY <1>1, <1>a, <1>b, <1>f, <2>2, <2>1 DEF IInv, TypeOK, Sagas
  <2>4. MemoryInv' BY <1>1, <1>a, <1>b, <1>f, <2>2, <1>0, StepRests DEF IInv, TypeOK, Steps
  <2>5. IntentInv' BY <1>1, <1>a, <1>b, <1>f, <2>2 DEF IInv, TypeOK, IntentInv
  <2>6. FilesInv'
    BY <1>1, <1>a, <1>b, <1>f, <2>2 DEF IInv, TypeOK, IntentInv, FilesInv, StepInv, Terminal
  <2>7. StepInv' BY <1>1, <1>a, <1>b, <1>f, <2>2 DEF IInv, TypeOK, IntentInv, FilesInv, StepInv
  <2> QED BY <2>3, <2>4, <2>5, <2>6, <2>7 DEF IInv
<1>2. ASSUME saga.pc = "branch",
              NEW left \in {"absent", "detached"},
              tree' = [tree EXCEPT ![t] = left],
              UNCHANGED branch,
              Goto("cleanup"),
              Fault \/ NoFault
      PROVE  IInv'
  <2>1. faults' \in 0..MaxFaults /\ faulted' \in BOOLEAN BY <1>2, FaultCounted DEF IInv
  <2>2. saga' \in Sagas /\ saga'.pc = "cleanup" /\ saga'.task = t
    BY <1>2, <1>0, <1>a, <1>b, GotoMoves DEF Steps
  <2>3. TypeOK' BY <1>2, <1>a, <1>b, <1>f, <2>2, <2>1 DEF IInv, TypeOK, Sagas
  <2>4. MemoryInv' BY <1>2, <1>a, <1>b, <1>f, <2>2, <1>0, StepRests DEF IInv, TypeOK, Steps
  <2>5. IntentInv' BY <1>2, <1>a, <1>b, <1>f, <2>2 DEF IInv, TypeOK, IntentInv
  <2>6. FilesInv'
    BY <1>2, <1>a, <1>b, <1>f, <2>2 DEF IInv, TypeOK, IntentInv, FilesInv, StepInv, Terminal
  <2>7. StepInv' BY <1>2, <1>a, <1>b, <1>f, <2>2 DEF IInv, TypeOK, IntentInv, FilesInv, StepInv
  <2> QED BY <2>3, <2>4, <2>5, <2>6, <2>7 DEF IInv
<1> QED BY <1>1, <1>2, <1>a DEF Branch, At, memory, disk

\* MarkRetryRestoreTargetPrepared writes where the new generation is.
LEMMA MarkKeeps ==
  ASSUME NEW t \in Tasks, IInv, Mark(t)
  PROVE  IInv'
<1> USE RetryAssumption
<1>0. saga \in Sagas BY DEF IInv, TypeOK, Sagas
<1>a. saga.task = t /\ saga.pc \in {"mark"} BY DEF Mark, At
<1>b. /\ status[t] = "retrying" /\ intent[t] \in Intents /\ intent[t] # None
      /\ saga.pc # "idle" /\ mode # "down" /\ t \notin queue /\ t \notin live /\ t \notin todo
  BY <1>a, AtWork
<1>f. UNCHANGED <<status, epoch, ws, tree, branch, session, queue, live, mode, todo, before,
                  cut, retries, crashes>>
  BY DEF Mark, rows, disk, memory, ghosts
<1>1. ASSUME saga.pc = "mark",
              intent' = [intent EXCEPT ![t].prepared = TRUE],
              Goto(FirstStep(intent'[t])),
              NoFault
      PROVE  IInv'
  <2>1. faults' \in 0..MaxFaults /\ faulted' \in BOOLEAN BY <1>1, FaultCounted DEF IInv
  <2> DEFINE in == [intent[t] EXCEPT !.prepared = TRUE]
  <2>a. intent[t].isNew BY <1>1, <1>a DEF IInv, StepInv
  <2>b. /\ in \in Intents /\ in # None /\ in.prepared /\ in.isNew = intent[t].isNew
        /\ in.epoch = intent[t].epoch /\ in.prev = intent[t].prev /\ in.files = intent[t].files
    BY <1>b DEF Intents
  <2>c. intent' = [intent EXCEPT ![t] = in] BY <1>1
  <2> HIDE DEF in
  <2>d. intent'[t] = in /\ \A u \in Tasks : u # t => intent'[u] = intent[u]
    BY <2>c DEF IInv, TypeOK
  <2>e. FirstStep(in) \in {"restore", "complete"} /\ (FirstStep(in) = "restore" <=> in.files)
    BY <2>b DEF FirstStep, Intents
  <2>2. saga' \in Sagas /\ saga'.pc = FirstStep(in) /\ saga'.task = t
    BY <1>1, <1>0, <1>a, <2>d, <2>e, GotoMoves DEF Steps
  <2>3. TypeOK' BY <1>a, <1>b, <1>f, <2>1, <2>2, <2>b, <2>c, <2>e DEF IInv, TypeOK, Sagas
  <2>4. MemoryInv'
    BY <1>a, <1>b, <1>f, <2>2, <2>b, <2>d, <2>e DEF IInv, TypeOK, MemoryInv
  <2>5. IntentInv'
    <3>1. /\ epoch[t] = intent[t].epoch
          /\ ws[t] = IF intent[t].isNew THEN "provisioning" ELSE "current"
          /\ before[t] = [status |-> intent[t].prev,
                          ws |-> IF intent[t].isNew THEN "none" ELSE "current",
                          tree |-> IF intent[t].isNew THEN "absent" ELSE "work"]
      BY <1>b DEF IInv, IntentInv
    <3>2. /\ epoch[t] = in.epoch
          /\ ws[t] = IF in.isNew THEN "provisioning" ELSE "current"
          /\ before[t] = [status |-> in.prev, ws |-> IF in.isNew THEN "none" ELSE "current",
                          tree |-> IF in.isNew THEN "absent" ELSE "work"]
      BY <3>1, <2>a, <2>b
    <3> SUFFICES ASSUME NEW u \in Tasks
                 PROVE  /\ intent'[u] # None <=> status[u] \in {"retrying", "queued"}
                        /\ status[u] = "retrying" =>
                             /\ epoch[u] = intent'[u].epoch
                             /\ ws[u] = IF intent'[u].isNew THEN "provisioning" ELSE "current"
                             /\ before[u] = [status |-> intent'[u].prev,
                                             ws |-> IF intent'[u].isNew THEN "none" ELSE "current",
                                             tree |-> IF intent'[u].isNew THEN "absent" ELSE "work"]
                        /\ status[u] = "queued" => epoch[u] = intent'[u].epoch + 1
                        /\ status[u] \in {"queued", "running"} => ws[u] = "current"
                        /\ status[u] \in Terminal => ws[u] # "provisioning"
                        /\ intent'[u] # None => (intent'[u].prepared => intent'[u].isNew)
      BY <1>f DEF IntentInv
    <3>3. CASE u = t BY <1>b, <3>2, <3>3, <2>a, <2>b, <2>d DEF Terminal
    <3>4. CASE u # t BY <3>4, <2>d DEF IInv, IntentInv
    <3> QED BY <3>3, <3>4
  <2>6. FilesInv' BY <1>1, <1>a, <1>b, <1>f, <2>a, <2>b, <2>d DEF IInv, FilesInv, Terminal
  <2>7. StepInv'
    BY <1>1, <1>a, <1>f, <2>2, <2>a, <2>b, <2>d, <2>e DEF IInv, StepInv
  <2> QED BY <2>3, <2>4, <2>5, <2>6, <2>7 DEF IInv
<1>2. ASSUME saga.pc = "mark",
              UNCHANGED intent,
              Goto("cleanup"),
              Fault
      PROVE  IInv'
  <2>1. faults' \in 0..MaxFaults /\ faulted' \in BOOLEAN BY <1>2, FaultCounted DEF IInv
  <2>2. saga' \in Sagas /\ saga'.pc = "cleanup" /\ saga'.task = t
    BY <1>2, <1>0, <1>a, <1>b, GotoMoves DEF Steps
  <2>3. TypeOK' BY <1>2, <1>a, <1>b, <1>f, <2>2, <2>1 DEF IInv, TypeOK, Sagas
  <2>4. MemoryInv' BY <1>2, <1>a, <1>b, <1>f, <2>2, <1>0, StepRests DEF IInv, TypeOK, Steps
  <2>5. IntentInv' BY <1>2, <1>a, <1>b, <1>f, <2>2 DEF IInv, TypeOK, IntentInv
  <2>6. FilesInv'
    BY <1>2, <1>a, <1>b, <1>f, <2>2 DEF IInv, TypeOK, IntentInv, FilesInv, StepInv, Terminal
  <2>7. StepInv' BY <1>2, <1>a, <1>b, <1>f, <2>2 DEF IInv, TypeOK, IntentInv, FilesInv, StepInv
  <2> QED BY <2>3, <2>4, <2>5, <2>6, <2>7 DEF IInv
<1> QED BY <1>1, <1>2, <1>a DEF Mark, At, memory, disk

\* Files are put back into the directory, if it is there.
LEMMA RestoreKeeps ==
  ASSUME NEW t \in Tasks, IInv, Restore(t)
  PROVE  IInv'
<1> USE RetryAssumption
<1>0. saga \in Sagas BY DEF IInv, TypeOK, Sagas
<1>a. saga.task = t /\ saga.pc \in {"restore", "restoring"} BY DEF Restore, At
<1>b. /\ status[t] = "retrying" /\ intent[t] \in Intents /\ intent[t] # None
      /\ saga.pc # "idle" /\ mode # "down" /\ t \notin queue /\ t \notin live /\ t \notin todo
  BY <1>a, AtWork
<1>f. UNCHANGED <<status, epoch, ws, intent, branch, session, queue, live, mode, todo, before,
                  cut, retries, crashes>>
  BY DEF Restore, rows, disk, memory, ghosts
<1>1. ASSUME saga.pc = "restore",
              tree[t] # "absent",
              tree' = [tree EXCEPT ![t] = "torn"],
              Goto("restoring"),
              NoFault
      PROVE  IInv'
  <2>1. faults' \in 0..MaxFaults /\ faulted' \in BOOLEAN BY <1>1, FaultCounted DEF IInv
  <2>2. saga' \in Sagas /\ saga'.pc = "restoring" /\ saga'.task = t
    BY <1>1, <1>0, <1>a, <1>b, GotoMoves DEF Steps
  <2>3. TypeOK' BY <1>1, <1>a, <1>b, <1>f, <2>2, <2>1 DEF IInv, TypeOK, Sagas
  <2>4. MemoryInv' BY <1>1, <1>a, <1>b, <1>f, <2>2, <1>0, StepRests DEF IInv, TypeOK, Steps
  <2>5. IntentInv' BY <1>1, <1>a, <1>b, <1>f, <2>2 DEF IInv, TypeOK, IntentInv
  <2>6. FilesInv'
    BY <1>1, <1>a, <1>b, <1>f, <2>2 DEF IInv, TypeOK, IntentInv, FilesInv, StepInv, Terminal
  <2>7. StepInv' BY <1>1, <1>a, <1>b, <1>f, <2>2 DEF IInv, TypeOK, IntentInv, FilesInv, StepInv
  <2> QED BY <2>3, <2>4, <2>5, <2>6, <2>7 DEF IInv
<1>2. ASSUME saga.pc = "restoring",
              tree' = [tree EXCEPT ![t] = "checkpoint"],
              Goto("complete"),
              NoFault
      PROVE  IInv'
  <2>1. faults' \in 0..MaxFaults /\ faulted' \in BOOLEAN BY <1>2, FaultCounted DEF IInv
  <2>2. saga' \in Sagas /\ saga'.pc = "complete" /\ saga'.task = t
    BY <1>2, <1>0, <1>a, <1>b, GotoMoves DEF Steps
  <2>3. TypeOK' BY <1>2, <1>a, <1>b, <1>f, <2>2, <2>1 DEF IInv, TypeOK, Sagas
  <2>4. MemoryInv' BY <1>2, <1>a, <1>b, <1>f, <2>2, <1>0, StepRests DEF IInv, TypeOK, Steps
  <2>5. IntentInv' BY <1>2, <1>a, <1>b, <1>f, <2>2 DEF IInv, TypeOK, IntentInv
  <2>6. FilesInv'
    BY <1>2, <1>a, <1>b, <1>f, <2>2 DEF IInv, TypeOK, IntentInv, FilesInv, StepInv, Terminal
  <2>7. StepInv' BY <1>2, <1>a, <1>b, <1>f, <2>2 DEF IInv, TypeOK, IntentInv, FilesInv, StepInv
  <2> QED BY <2>3, <2>4, <2>5, <2>6, <2>7 DEF IInv
<1>3. ASSUME saga.pc \in {"restore", "restoring"},
              UNCHANGED tree,
              Goto(Compensation(intent[t])),
              Fault \/ NoFault
      PROVE  IInv'
  <2>1. faults' \in 0..MaxFaults /\ faulted' \in BOOLEAN BY <1>3, FaultCounted DEF IInv
  <2>2. saga' \in Sagas /\ saga'.pc = Compensation(intent[t]) /\ saga'.task = t
    BY <1>3, <1>0, <1>a, <1>b, GotoMoves DEF Steps, Compensation
  <2>3. TypeOK' BY <1>3, <1>a, <1>b, <1>f, <2>2, <2>1 DEF IInv, TypeOK, Sagas, Compensation, Steps
  <2>4. MemoryInv'
    BY <1>3, <1>a, <1>b, <1>f, <2>2, <1>0, StepRests DEF IInv, TypeOK, Steps, Compensation
  <2>5. IntentInv' BY <1>3, <1>a, <1>b, <1>f, <2>2 DEF IInv, TypeOK, IntentInv
  <2>6. FilesInv'
    BY <1>3, <1>a, <1>b, <1>f, <2>2 DEF IInv, TypeOK, IntentInv, FilesInv, StepInv, Terminal
  <2>7. StepInv'
    BY <1>3, <1>a, <1>b, <1>f, <2>2 DEF IInv, TypeOK, IntentInv, FilesInv, StepInv, Compensation
  <2> QED BY <2>3, <2>4, <2>5, <2>6, <2>7 DEF IInv
<1> QED BY <1>1, <1>2, <1>3, <1>a DEF Restore, At, memory, disk

\* CompleteRetryRestore cuts the history and queues the task, or fails.
LEMMA CompleteKeeps ==
  ASSUME NEW t \in Tasks, IInv, Complete(t)
  PROVE  IInv'
<1> USE RetryAssumption
<1>0. saga \in Sagas BY DEF IInv, TypeOK, Sagas
<1>a. saga.task = t /\ saga.pc \in {"complete"} BY DEF Complete, At
<1>b. /\ status[t] = "retrying" /\ intent[t] \in Intents /\ intent[t] # None
      /\ saga.pc # "idle" /\ mode # "down" /\ t \notin queue /\ t \notin live /\ t \notin todo
  BY <1>a, AtWork
<1>f. UNCHANGED <<intent, tree, branch, queue, live, mode, todo, before, cut, retries, crashes>>
  BY DEF Complete, rows, disk, memory, ghosts
<1>1. ASSUME saga.pc = "complete",
              status' = [status EXCEPT ![t] = "queued"],
              epoch' = [epoch EXCEPT ![t] = @ + 1],
              ws' = [ws EXCEPT ![t] = "current"],
              session' = [session EXCEPT ![t] = "stale"],
              Goto("publish"),
              NoFault
      PROVE  IInv'
  <2>1. faults' \in 0..MaxFaults /\ faulted' \in BOOLEAN BY <1>1, FaultCounted DEF IInv
  <2>2. saga' \in Sagas /\ saga'.pc = "publish" /\ saga'.task = t
    BY <1>1, <1>0, <1>a, <1>b, GotoMoves DEF Steps
  <2>3. TypeOK' BY <1>1, <1>a, <1>b, <1>f, <2>2, <2>1 DEF IInv, TypeOK, Sagas, Terminal
  <2>4. MemoryInv' BY <1>1, <1>b, <1>f, <2>2 DEF IInv, TypeOK, MemoryInv
  <2>5. IntentInv' BY <1>1, <1>a, <1>b, <1>f, <2>2 DEF IInv, TypeOK, IntentInv, Terminal
  <2>6. FilesInv'
    BY <1>1, <1>a, <1>b, <1>f, <2>2 DEF IInv, TypeOK, IntentInv, FilesInv, StepInv, Terminal
  <2>7. StepInv' BY <1>1, <1>a, <1>b, <1>f, <2>2 DEF IInv, TypeOK, IntentInv, FilesInv, StepInv
  <2> QED BY <2>3, <2>4, <2>5, <2>6, <2>7 DEF IInv
<1>2. ASSUME saga.pc = "complete",
              UNCHANGED <<status, epoch, ws, session>>,
              Goto(Compensation(intent[t])),
              Fault
      PROVE  IInv'
  <2>1. faults' \in 0..MaxFaults /\ faulted' \in BOOLEAN BY <1>2, FaultCounted DEF IInv
  <2>2. saga' \in Sagas /\ saga'.pc = Compensation(intent[t]) /\ saga'.task = t
    BY <1>2, <1>0, <1>a, <1>b, GotoMoves DEF Steps, Compensation
  <2>3. TypeOK' BY <1>2, <1>a, <1>b, <1>f, <2>2, <2>1 DEF IInv, TypeOK, Sagas, Compensation, Steps
  <2>4. MemoryInv'
    BY <1>2, <1>a, <1>b, <1>f, <2>2, <1>0, StepRests DEF IInv, TypeOK, Steps, Compensation
  <2>5. IntentInv' BY <1>2, <1>a, <1>b, <1>f, <2>2 DEF IInv, TypeOK, IntentInv
  <2>6. FilesInv'
    BY <1>2, <1>a, <1>b, <1>f, <2>2 DEF IInv, TypeOK, IntentInv, FilesInv, StepInv, Terminal
  <2>7. StepInv'
    BY <1>2, <1>a, <1>b, <1>f, <2>2 DEF IInv, TypeOK, IntentInv, FilesInv, StepInv, Compensation
  <2> QED BY <2>3, <2>4, <2>5, <2>6, <2>7 DEF IInv
<1> QED BY <1>1, <1>2, <1>a DEF Complete, At, memory, disk

\* A retry that is complete is queued, or left to the next start.
LEMMA PublishKeeps == ASSUME NEW t \in Tasks, IInv, Publish(t) PROVE IInv'
<1> USE RetryAssumption
<1>1. saga.task = t /\ saga.pc = "publish" BY DEF Publish, At
<1>2. UNCHANGED <<status, epoch, ws, intent, tree, branch, before, cut, retries, crashes>>
  BY DEF Publish, rows, disk, ghosts
<1>3. status[t] = "queued" /\ t \notin todo /\ mode # "down" BY <1>1 DEF IInv, MemoryInv
<1>4. IntentInv' BY <1>2 DEF IInv, IntentInv
<1>5. FilesInv' BY <1>2 DEF IInv, FilesInv
<1>6. ASSUME session' = [session EXCEPT ![t] = "fresh"], queue' = queue \cup {t}, saga' = Idle,
             NoFault, UNCHANGED <<live, mode, todo>>
      PROVE  IInv'
  <2>1. faults' \in 0..MaxFaults /\ faulted' \in BOOLEAN BY <1>6, FaultCounted DEF IInv
  <2>2. saga' \in Sagas /\ saga'.pc = "idle" /\ saga'.task = None BY <1>6, IdleIsIdle
  <2>3. TypeOK' BY <1>2, <1>6, <2>1, <2>2 DEF IInv, TypeOK, Sagas
  <2>4. MemoryInv' BY <1>2, <1>3, <1>6, <2>2 DEF IInv, TypeOK, MemoryInv
  <2>5. StepInv' BY <2>2 DEF StepInv
  <2> QED BY <1>4, <1>5, <2>3, <2>4, <2>5 DEF IInv
<1>7. ASSUME Fault, GiveUp, UNCHANGED session
      PROVE  IInv'
  <2>1. faults' \in 0..MaxFaults /\ faulted' \in BOOLEAN BY <1>7, FaultCounted DEF IInv
  <2>2. /\ MemoryInv' /\ StepInv'
        /\ saga' \in Sagas /\ saga'.pc = "idle" /\ saga'.task = None
        /\ mode' \in {"up", "down", "starting"}
        /\ todo' \subseteq Tasks /\ queue' \subseteq Tasks /\ live' \subseteq Tasks
    BY <1>2, <1>7, GiveUpForgets
  <2>3. TypeOK' BY <1>2, <1>7, <2>1, <2>2 DEF IInv, TypeOK, Sagas
  <2> QED BY <1>4, <1>5, <2>2, <2>3 DEF IInv
<1> QED BY <1>6, <1>7 DEF Publish

\* The planned directory is removed.
LEMMA CleanupKeeps ==
  ASSUME NEW t \in Tasks, IInv, Cleanup(t)
  PROVE  IInv'
<1> USE RetryAssumption
<1>0. saga \in Sagas BY DEF IInv, TypeOK, Sagas
<1>a. saga.task = t /\ saga.pc \in {"cleanup"} BY DEF Cleanup, At
<1>b. /\ status[t] = "retrying" /\ intent[t] \in Intents /\ intent[t] # None
      /\ saga.pc # "idle" /\ mode # "down" /\ t \notin queue /\ t \notin live /\ t \notin todo
  BY <1>a, AtWork
<1>f. UNCHANGED <<status, epoch, ws, intent, branch, session, before, cut, retries, crashes>>
  BY DEF Cleanup, rows, disk, memory, ghosts
<1>1. ASSUME saga.pc = "cleanup",
              tree' = [tree EXCEPT ![t] = "absent"],
              saga' = [saga EXCEPT !.pc = "unbranch", !.removed = tree[t] # "absent"],
              UNCHANGED <<mode, todo, queue, live>>,
              NoFault
      PROVE  IInv'
  <2>1. faults' \in 0..MaxFaults /\ faulted' \in BOOLEAN BY <1>1, FaultCounted DEF IInv
  <2>2. saga' \in Sagas /\ saga'.pc = "unbranch" /\ saga'.task = t
    BY <1>1, <1>0, <1>a DEF Sagas, Steps
  <2>3. TypeOK' BY <1>1, <1>a, <1>b, <1>f, <2>2, <2>1 DEF IInv, TypeOK, Sagas
  <2>4. MemoryInv' BY <1>1, <1>b, <1>f, <2>2 DEF IInv, MemoryInv
  <2>5. IntentInv' BY <1>1, <1>a, <1>b, <1>f, <2>2 DEF IInv, TypeOK, IntentInv
  <2>6. FilesInv'
    BY <1>1, <1>a, <1>b, <1>f, <2>2 DEF IInv, TypeOK, IntentInv, FilesInv, StepInv, Terminal
  <2>7. StepInv' BY <1>1, <1>a, <1>b, <1>f, <2>2 DEF IInv, TypeOK, IntentInv, FilesInv, StepInv
  <2> QED BY <2>3, <2>4, <2>5, <2>6, <2>7 DEF IInv
<1>2. ASSUME saga.pc = "cleanup",
              tree' = [tree EXCEPT ![t] = "absent"],
              GiveUp,
              Fault
      PROVE  IInv'
  <2>1. faults' \in 0..MaxFaults /\ faulted' \in BOOLEAN BY <1>2, FaultCounted DEF IInv
  <2>2. /\ MemoryInv' /\ StepInv'
        /\ saga' \in Sagas /\ saga'.pc = "idle" /\ saga'.task = None
        /\ mode' \in {"up", "down", "starting"}
        /\ todo' \subseteq Tasks /\ queue' \subseteq Tasks /\ live' \subseteq Tasks
    BY <1>2, <1>f, GiveUpForgets
  <2>3. TypeOK' BY <1>2, <1>a, <1>b, <1>f, <2>2, <2>1 DEF IInv, TypeOK, Sagas
  <2>4. MemoryInv' BY <2>2
  <2>5. IntentInv' BY <1>2, <1>a, <1>b, <1>f, <2>2 DEF IInv, TypeOK, IntentInv
  <2>6. FilesInv'
    BY <1>2, <1>a, <1>b, <1>f, <2>2 DEF IInv, TypeOK, IntentInv, FilesInv, StepInv, Terminal
  <2>7. StepInv' BY <2>2
  <2> QED BY <2>3, <2>4, <2>5, <2>6, <2>7 DEF IInv
<1> QED BY <1>1, <1>2, <1>a DEF Cleanup, At, memory, disk

\* The planned branch is deleted.
LEMMA UnbranchKeeps ==
  ASSUME NEW t \in Tasks, IInv, Unbranch(t)
  PROVE  IInv'
<1> USE RetryAssumption
<1>0. saga \in Sagas BY DEF IInv, TypeOK, Sagas
<1>a. saga.task = t /\ saga.pc \in {"unbranch"} BY DEF Unbranch, At
<1>b. /\ status[t] = "retrying" /\ intent[t] \in Intents /\ intent[t] # None
      /\ saga.pc # "idle" /\ mode # "down" /\ t \notin queue /\ t \notin live /\ t \notin todo
  BY <1>a, AtWork
<1>f. UNCHANGED <<status, epoch, ws, intent, tree, session, before, cut, retries, crashes>>
  BY DEF Unbranch, rows, disk, memory, ghosts
<1>1. ASSUME saga.pc = "unbranch",
              branch' \in {branch, [branch EXCEPT ![t] = FALSE]},
              UNCHANGED <<mode, todo, queue, live>>,
              Goto("abort"),
              Fault \/ NoFault
      PROVE  IInv'
  <2>1. faults' \in 0..MaxFaults /\ faulted' \in BOOLEAN BY <1>1, FaultCounted DEF IInv
  <2>2. saga' \in Sagas /\ saga'.pc = "abort" /\ saga'.task = t
    BY <1>1, <1>0, <1>a, <1>b, GotoMoves DEF Steps
  <2>3. TypeOK' BY <1>1, <1>a, <1>b, <1>f, <2>2, <2>1, ZenonT(40) DEF IInv, TypeOK, Sagas
  <2>4. MemoryInv' BY <1>1, <1>a, <1>b, <1>f, <2>2, <1>0, StepRests DEF IInv, TypeOK, Steps
  <2>5. IntentInv' BY <1>1, <1>a, <1>b, <1>f, <2>2 DEF IInv, TypeOK, IntentInv
  <2>6. FilesInv'
    BY <1>1, <1>a, <1>b, <1>f, <2>2 DEF IInv, TypeOK, IntentInv, FilesInv, StepInv, Terminal
  <2>7. StepInv' BY <1>1, <1>a, <1>b, <1>f, <2>2 DEF IInv, TypeOK, IntentInv, FilesInv, StepInv
  <2> QED BY <2>3, <2>4, <2>5, <2>6, <2>7 DEF IInv
<1>2. ASSUME saga.pc = "unbranch",
              UNCHANGED branch,
              GiveUp,
              Fault \/ NoFault
      PROVE  IInv'
  <2>1. faults' \in 0..MaxFaults /\ faulted' \in BOOLEAN BY <1>2, FaultCounted DEF IInv
  <2>2. /\ MemoryInv' /\ StepInv'
        /\ saga' \in Sagas /\ saga'.pc = "idle" /\ saga'.task = None
        /\ mode' \in {"up", "down", "starting"}
        /\ todo' \subseteq Tasks /\ queue' \subseteq Tasks /\ live' \subseteq Tasks
    BY <1>2, <1>f, GiveUpForgets
  <2>3. TypeOK' BY <1>2, <1>a, <1>b, <1>f, <2>2, <2>1 DEF IInv, TypeOK, Sagas
  <2>4. MemoryInv' BY <2>2
  <2>5. IntentInv' BY <1>2, <1>a, <1>b, <1>f, <2>2 DEF IInv, TypeOK, IntentInv
  <2>6. FilesInv'
    BY <1>2, <1>a, <1>b, <1>f, <2>2 DEF IInv, TypeOK, IntentInv, FilesInv, StepInv, Terminal
  <2>7. StepInv' BY <2>2
  <2> QED BY <2>3, <2>4, <2>5, <2>6, <2>7 DEF IInv
<1> QED BY <1>1, <1>2, <1>a DEF Unbranch, At, memory, disk

\* The rollback checkpoint is put back.
LEMMA RollbackKeeps ==
  ASSUME NEW t \in Tasks, IInv, Rollback(t)
  PROVE  IInv'
<1> USE RetryAssumption
<1>0. saga \in Sagas BY DEF IInv, TypeOK, Sagas
<1>a. saga.task = t /\ saga.pc \in {"rollback", "rollingback"} BY DEF Rollback, At
<1>b. /\ status[t] = "retrying" /\ intent[t] \in Intents /\ intent[t] # None
      /\ saga.pc # "idle" /\ mode # "down" /\ t \notin queue /\ t \notin live /\ t \notin todo
  BY <1>a, AtWork
<1>f. UNCHANGED <<status, epoch, ws, intent, branch, session, before, cut, retries, crashes>>
  BY DEF Rollback, rows, disk, memory, ghosts
<1>1. ASSUME saga.pc = "rollback",
              tree' = [tree EXCEPT ![t] = "torn"],
              UNCHANGED <<mode, todo, queue, live>>,
              Goto("rollingback"),
              NoFault
      PROVE  IInv'
  <2>1. faults' \in 0..MaxFaults /\ faulted' \in BOOLEAN BY <1>1, FaultCounted DEF IInv
  <2>2. saga' \in Sagas /\ saga'.pc = "rollingback" /\ saga'.task = t
    BY <1>1, <1>0, <1>a, <1>b, GotoMoves DEF Steps
  <2>3. TypeOK' BY <1>1, <1>a, <1>b, <1>f, <2>2, <2>1 DEF IInv, TypeOK, Sagas
  <2>4. MemoryInv' BY <1>1, <1>a, <1>b, <1>f, <2>2, <1>0, StepRests DEF IInv, TypeOK, Steps
  <2>5. IntentInv' BY <1>1, <1>a, <1>b, <1>f, <2>2 DEF IInv, TypeOK, IntentInv
  <2>6. FilesInv'
    BY <1>1, <1>a, <1>b, <1>f, <2>2 DEF IInv, TypeOK, IntentInv, FilesInv, StepInv, Terminal
  <2>7. StepInv' BY <1>1, <1>a, <1>b, <1>f, <2>2 DEF IInv, TypeOK, IntentInv, FilesInv, StepInv
  <2> QED BY <2>3, <2>4, <2>5, <2>6, <2>7 DEF IInv
<1>2. ASSUME saga.pc = "rollingback",
              tree' = [tree EXCEPT ![t] = "work"],
              UNCHANGED <<mode, todo, queue, live>>,
              Goto("abort"),
              NoFault
      PROVE  IInv'
  <2>1. faults' \in 0..MaxFaults /\ faulted' \in BOOLEAN BY <1>2, FaultCounted DEF IInv
  <2>2. saga' \in Sagas /\ saga'.pc = "abort" /\ saga'.task = t
    BY <1>2, <1>0, <1>a, <1>b, GotoMoves DEF Steps
  <2>3. TypeOK' BY <1>2, <1>a, <1>b, <1>f, <2>2, <2>1 DEF IInv, TypeOK, Sagas
  <2>4. MemoryInv' BY <1>2, <1>a, <1>b, <1>f, <2>2, <1>0, StepRests DEF IInv, TypeOK, Steps
  <2>5. IntentInv' BY <1>2, <1>a, <1>b, <1>f, <2>2 DEF IInv, TypeOK, IntentInv
  <2>6. FilesInv'
    BY <1>2, <1>a, <1>b, <1>f, <2>2 DEF IInv, TypeOK, IntentInv, FilesInv, StepInv, Terminal
  <2>7. StepInv' BY <1>2, <1>a, <1>b, <1>f, <2>2 DEF IInv, TypeOK, IntentInv, FilesInv, StepInv
  <2> QED BY <2>3, <2>4, <2>5, <2>6, <2>7 DEF IInv
<1>3. ASSUME saga.pc \in {"rollback", "rollingback"},
              UNCHANGED tree,
              GiveUp,
              Fault
      PROVE  IInv'
  <2>1. faults' \in 0..MaxFaults /\ faulted' \in BOOLEAN BY <1>3, FaultCounted DEF IInv
  <2>2. /\ MemoryInv' /\ StepInv'
        /\ saga' \in Sagas /\ saga'.pc = "idle" /\ saga'.task = None
        /\ mode' \in {"up", "down", "starting"}
        /\ todo' \subseteq Tasks /\ queue' \subseteq Tasks /\ live' \subseteq Tasks
    BY <1>3, <1>f, GiveUpForgets
  <2>3. TypeOK' BY <1>3, <1>a, <1>b, <1>f, <2>2, <2>1 DEF IInv, TypeOK, Sagas
  <2>4. MemoryInv' BY <2>2
  <2>5. IntentInv' BY <1>3, <1>a, <1>b, <1>f, <2>2 DEF IInv, TypeOK, IntentInv
  <2>6. FilesInv'
    BY <1>3, <1>a, <1>b, <1>f, <2>2 DEF IInv, TypeOK, IntentInv, FilesInv, StepInv, Terminal
  <2>7. StepInv' BY <2>2
  <2> QED BY <2>3, <2>4, <2>5, <2>6, <2>7 DEF IInv
<1> QED BY <1>1, <1>2, <1>3, <1>a DEF Rollback, At, memory, disk

\* AbortRetryRestore releases the task, or the transaction fails.
LEMMA AbortKeeps ==
  ASSUME NEW t \in Tasks, IInv, Abort(t)
  PROVE  IInv'
<1> USE RetryAssumption
<1>0. saga \in Sagas BY DEF IInv, TypeOK, Sagas
<1>a. saga.task = t /\ saga.pc \in {"abort"} BY DEF Abort, At
<1>b. /\ status[t] = "retrying" /\ intent[t] \in Intents /\ intent[t] # None
      /\ saga.pc # "idle" /\ mode # "down" /\ t \notin queue /\ t \notin live /\ t \notin todo
  BY <1>a, AtWork
<1>f. UNCHANGED <<epoch, tree, branch, session, before, cut, retries, crashes>>
  BY DEF Abort, rows, disk, memory, ghosts
<1>1. ASSUME saga.pc = "abort",
              status' = [status EXCEPT ![t] = intent[t].prev],
              ws' = [ws EXCEPT ![t] = IF intent[t].isNew THEN "none" ELSE @],
              intent' = [intent EXCEPT ![t] = None],
              saga' = Idle,
              UNCHANGED <<mode, todo, queue, live>>,
              NoFault
      PROVE  IInv'
  <2>1. faults' \in 0..MaxFaults /\ faulted' \in BOOLEAN BY <1>1, FaultCounted DEF IInv
  <2>2. saga' \in Sagas /\ saga'.pc = "idle" /\ saga'.task = None
    BY <1>1, IdleIsIdle
  <2>3. TypeOK' BY <1>1, <1>a, <1>b, <1>f, <2>2, <2>1 DEF IInv, TypeOK, Sagas, Intents, Terminal
  <2>4. MemoryInv' BY <1>1, <1>a, <1>b, <1>f, <2>2 DEF IInv, TypeOK, MemoryInv, Intents, Terminal
  <2>5. IntentInv' BY <1>1, <1>a, <1>b, <1>f, <2>2 DEF IInv, TypeOK, IntentInv, Intents, Terminal
  <2>6. FilesInv'
    BY <1>1, <1>a, <1>b, <1>f, <2>2 DEF IInv, TypeOK, IntentInv, FilesInv, StepInv, Terminal,
       Intents
  <2>7. StepInv' BY <2>2 DEF StepInv
  <2> QED BY <2>3, <2>4, <2>5, <2>6, <2>7 DEF IInv
<1>2. ASSUME saga.pc = "abort",
              UNCHANGED <<status, ws, intent>>,
              GiveUp,
              Fault
      PROVE  IInv'
  <2>1. faults' \in 0..MaxFaults /\ faulted' \in BOOLEAN BY <1>2, FaultCounted DEF IInv
  <2>2. /\ MemoryInv' /\ StepInv'
        /\ saga' \in Sagas /\ saga'.pc = "idle" /\ saga'.task = None
        /\ mode' \in {"up", "down", "starting"}
        /\ todo' \subseteq Tasks /\ queue' \subseteq Tasks /\ live' \subseteq Tasks
    BY <1>2, <1>f, GiveUpForgets
  <2>3. TypeOK' BY <1>2, <1>a, <1>b, <1>f, <2>2, <2>1 DEF IInv, TypeOK, Sagas
  <2>4. MemoryInv' BY <2>2
  <2>5. IntentInv' BY <1>2, <1>a, <1>b, <1>f, <2>2 DEF IInv, TypeOK, IntentInv
  <2>6. FilesInv'
    BY <1>2, <1>a, <1>b, <1>f, <2>2 DEF IInv, TypeOK, IntentInv, FilesInv, StepInv, Terminal
  <2>7. StepInv' BY <2>2
  <2> QED BY <2>3, <2>4, <2>5, <2>6, <2>7 DEF IInv
<1> QED BY <1>1, <1>2, <1>a DEF Abort, At, memory, disk

\* The claim of a queued task consumes its intent.
LEMMA StartKeeps == ASSUME NEW t \in Tasks, IInv, Start(t) PROVE IInv'
<1> USE RetryAssumption
<1>1. TypeOK'
  BY DEF IInv, TypeOK, Terminal, Start, disk, ghosts, bounds
<1>2. MemoryInv'
  BY DEF IInv, TypeOK, MemoryInv, Terminal, Start, disk, ghosts, bounds
<1>3. IntentInv'
  BY DEF IInv, TypeOK, IntentInv, Terminal, Intents, Start, disk, ghosts, bounds
<1>4. FilesInv'
  BY DEF IInv, TypeOK, IntentInv, FilesInv, Terminal, Intents, Start, disk, ghosts, bounds
<1>5. StepInv'
  BY DEF IInv, TypeOK, MemoryInv, StepInv, Start, disk, ghosts, bounds
<1> QED BY <1>1, <1>2, <1>3, <1>4, <1>5 DEF IInv

\* A run that ends leaves a task at rest, with its generation kept or gone.
LEMMA FinishKeeps == ASSUME NEW t \in Tasks, IInv, Finish(t) PROVE IInv'
<1> USE RetryAssumption
<1>1. TypeOK'
  BY DEF IInv, TypeOK, MemoryInv, Terminal, Finish, Used, ghosts, bounds
<1>2. MemoryInv'
  BY DEF IInv, TypeOK, MemoryInv, Terminal, Finish, Used, ghosts, bounds
<1>3. IntentInv'
  BY DEF IInv, TypeOK, MemoryInv, IntentInv, Terminal, Intents, Finish, Used, ghosts, bounds
<1>4. FilesInv'
  BY DEF IInv, TypeOK, IntentInv, FilesInv, Terminal, Intents, Finish, Used, ghosts, bounds
<1>5. StepInv'
  BY DEF IInv, TypeOK, MemoryInv, StepInv, Finish, Used, ghosts, bounds
<1> QED BY <1>1, <1>2, <1>3, <1>4, <1>5 DEF IInv

\* A queued task that is canceled loses its intent.
LEMMA CancelKeeps == ASSUME NEW t \in Tasks, IInv, Cancel(t) PROVE IInv'
<1> USE RetryAssumption
<1>1. TypeOK'
  BY DEF IInv, TypeOK, Terminal, Cancel, Used, Idle, ghosts, bounds
<1>2. MemoryInv'
  BY DEF IInv, TypeOK, MemoryInv, Terminal, Cancel, Used, Idle, ghosts, bounds
<1>3. IntentInv'
  BY DEF IInv, TypeOK, IntentInv, Terminal, Intents, Cancel, Used, Idle, ghosts, bounds
<1>4. FilesInv'
  BY DEF IInv, TypeOK, IntentInv, FilesInv, Terminal, Intents, Cancel, Used, Idle, ghosts, bounds
<1>5. StepInv'
  BY DEF IInv, TypeOK, MemoryInv, StepInv, Cancel, Used, Idle, ghosts, bounds
<1> QED BY <1>1, <1>2, <1>3, <1>4, <1>5 DEF IInv

\* recoverRetryRestores queues a completed retry again, or begins the saga anew.
LEMMA RecoverKeeps == ASSUME NEW t \in Tasks, IInv, Recover(t) PROVE IInv'
<1> USE RetryAssumption
<1>1. /\ mode = "starting" /\ saga = Idle /\ t \in todo
      /\ UNCHANGED <<status, epoch, ws, tree, branch, before, retries, crashes>>
  BY DEF Recover, disk
<1>2. /\ intent[t] \in Intents /\ intent[t] # None /\ t \notin live
      /\ \/ status[t] = "retrying" /\ epoch[t] = intent[t].epoch
         \/ status[t] = "queued" /\ epoch[t] = intent[t].epoch + 1
  BY <1>1 DEF IInv, TypeOK, MemoryInv, IntentInv
<1>3. epoch[t] \in Nat /\ intent[t].epoch \in Nat BY <1>2 DEF IInv, TypeOK, Intents
<1>4. ASSUME status[t] = "queued", Requeue(t), UNCHANGED <<intent, cut>>
      PROVE  IInv'
  <2>1. IntentInv' BY <1>1, <1>4 DEF IInv, IntentInv
  <2>2. FilesInv' BY <1>1, <1>4 DEF IInv, FilesInv
  <2>3. ASSUME session' = [session EXCEPT ![t] = "fresh"], queue' = queue \cup {t}, NoFault,
               UNCHANGED <<live, mode, saga>>, todo' = todo \ {t}
        PROVE  IInv'
    <3>1. faults' \in 0..MaxFaults /\ faulted' \in BOOLEAN BY <2>3, FaultCounted DEF IInv
    <3>2. saga.pc = "idle" /\ saga.task = None BY <1>1, IdleIsIdle
    <3>3. TypeOK' BY <1>1, <1>4, <2>3, <3>1, <3>2 DEF IInv, TypeOK
    <3>4. MemoryInv' BY <1>1, <1>4, <2>3, <3>2 DEF IInv, TypeOK, MemoryInv
    <3>5. StepInv' BY <2>3, <3>2 DEF StepInv
    <3> QED BY <2>1, <2>2, <3>3, <3>4, <3>5 DEF IInv
  <2>4. ASSUME Fault, GiveUp, UNCHANGED session
        PROVE  IInv'
    <3>1. faults' \in 0..MaxFaults /\ faulted' \in BOOLEAN BY <2>4, FaultCounted DEF IInv
    <3>2. /\ MemoryInv' /\ StepInv'
          /\ saga' \in Sagas /\ saga'.pc = "idle" /\ saga'.task = None
          /\ mode' \in {"up", "down", "starting"}
          /\ todo' \subseteq Tasks /\ queue' \subseteq Tasks /\ live' \subseteq Tasks
      BY <1>1, <1>4, <2>4, GiveUpForgets
    <3>3. TypeOK' BY <1>1, <1>4, <2>4, <3>1, <3>2 DEF IInv, TypeOK, Sagas
    <3> QED BY <2>1, <2>2, <3>2, <3>3 DEF IInv
  <2> QED BY <1>4, <2>3, <2>4 DEF Requeue
<1>5. ASSUME status[t] = "retrying", epoch[t] = intent[t].epoch,
             saga' = [pc |-> FirstStep(intent[t]), task |-> t, removed |-> FALSE],
             todo' = todo \ {t},
             cut' = IF intent[t].prepared /\ tree[t] = "absent" THEN cut \cup {t} ELSE cut,
             NoFault, UNCHANGED <<intent, session, queue, live, mode>>
      PROVE  IInv'
  <2>1. faults' \in 0..MaxFaults /\ faulted' \in BOOLEAN BY <1>5, FaultCounted DEF IInv
  <2>2. /\ FirstStep(intent[t]) \in {"prepare", "restore", "complete"}
        /\ FirstStep(intent[t]) = "prepare" <=> intent[t].isNew /\ ~intent[t].prepared
        /\ FirstStep(intent[t]) = "restore" => intent[t].files
        /\ FirstStep(intent[t]) = "complete" => ~intent[t].files
    BY <1>2 DEF FirstStep, Intents
  <2>3. saga' \in Sagas /\ saga'.pc = FirstStep(intent[t]) /\ saga'.task = t
    BY <1>5, <2>2 DEF Sagas, Steps
  <2>4. cut' \subseteq Tasks /\ cut \subseteq cut'
    BY <1>5 DEF IInv, TypeOK
  <2>5. tree[t] = "absent" => (~intent[t].prepared /\ intent[t].isNew) \/ t \in cut'
    BY <1>5 DEF IInv, FilesInv
  <2>6. TypeOK' BY <1>1, <1>5, <2>1, <2>2, <2>3, <2>4 DEF IInv, TypeOK, Sagas
  <2>7. MemoryInv' BY <1>1, <1>5, <2>2, <2>3 DEF IInv, TypeOK, MemoryInv
  <2>8. IntentInv' BY <1>1, <1>5 DEF IInv, IntentInv
  <2>9. FilesInv' BY <1>1, <1>5, <2>4 DEF IInv, FilesInv
  <2>10. StepInv' BY <1>1, <1>5, <2>2, <2>3, <2>5 DEF StepInv
  <2> QED BY <2>6, <2>7, <2>8, <2>9, <2>10 DEF IInv
<1> QED BY <1>2, <1>3, <1>4, <1>5 DEF Recover, memory

\* A crash loses the memory and nothing else.
LEMMA CrashKeeps == ASSUME IInv, Crash PROVE IInv'
<1> USE RetryAssumption
<1>1. saga' \in Sagas /\ saga'.pc = "idle" /\ saga'.task = None BY IdleIsIdle DEF Crash
<1>2. TypeOK' BY <1>1 DEF IInv, TypeOK, Sagas, Crash, rows, disk, ghosts
<1>3. MemoryInv' BY <1>1 DEF IInv, MemoryInv, Crash, rows
<1>4. IntentInv' BY DEF IInv, IntentInv, Crash, rows, ghosts
<1>5. FilesInv' BY DEF IInv, FilesInv, Crash, rows, disk, ghosts
<1>6. StepInv' BY <1>1 DEF StepInv
<1> QED BY <1>2, <1>3, <1>4, <1>5, <1>6 DEF IInv

\* FailOrphaned ends what ran; a retry under way and a retried turn that was not
\* claimed are left to recovery.
LEMMA BootKeeps == ASSUME IInv, Boot PROVE IInv'
<1> USE RetryAssumption
<1>1. /\ mode = "down" /\ mode' = "starting" /\ faulted' = FALSE
      /\ todo' = {t \in Tasks : intent[t] # None}
      /\ UNCHANGED <<epoch, ws, intent, branch, session, queue, live, saga, before, cut, retries,
                     faults, crashes>>
  BY DEF Boot, memory, ghosts, bounds
<1>2. /\ status' \in [Tasks -> Terminal \cup {"retrying", "queued", "running"}]
      /\ tree' \in [Tasks -> {"absent", "detached", "base", "work", "torn", "checkpoint"}]
  BY DEF IInv, TypeOK, Boot, Used, Terminal
<1>3. \A t \in Tasks :
        /\ status[t] = "running" => status'[t] = "failed" /\ tree'[t] = Used(tree[t])
        /\ status[t] # "running" => status'[t] = status[t] /\ tree'[t] = tree[t]
  BY DEF IInv, TypeOK, IntentInv, Boot
<1>4. saga.pc = "idle" /\ queue = {} /\ live = {} /\ saga.task = None
  BY <1>1 DEF IInv, TypeOK, MemoryInv
<1>5. TypeOK' BY <1>1, <1>2, <1>4 DEF IInv, TypeOK
<1>6. MemoryInv' BY <1>1, <1>3, <1>4 DEF IInv, TypeOK, MemoryInv
<1>7. IntentInv' BY <1>1, <1>3 DEF IInv, IntentInv, Terminal
<1>8. FilesInv' BY <1>1, <1>3, ZenonT(40) DEF IInv, IntentInv, FilesInv, Terminal, Used
<1>9. StepInv' BY <1>1, <1>4 DEF StepInv
<1> QED BY <1>5, <1>6, <1>7, <1>8, <1>9 DEF IInv

\* Recovery is done.
LEMMA StartedKeeps == ASSUME IInv, Started PROVE IInv'
<1> USE RetryAssumption
<1>1. TypeOK'
  BY DEF IInv, TypeOK, Terminal, Started, rows, disk, memory, ghosts, bounds
<1>2. MemoryInv'
  BY DEF IInv, TypeOK, MemoryInv, Terminal, Started, rows, disk, memory, ghosts, bounds
<1>3. IntentInv'
  BY DEF IInv, TypeOK, IntentInv, Terminal, Intents, Started, rows, disk, memory, ghosts, bounds
<1>4. FilesInv'
  BY DEF IInv, TypeOK, IntentInv, FilesInv, Terminal, Intents, Started, rows, disk, memory,
     ghosts, bounds
<1>5. StepInv'
  BY DEF IInv, TypeOK, MemoryInv, StepInv, Started, rows, disk, memory, ghosts, bounds
<1> QED BY <1>1, <1>2, <1>3, <1>4, <1>5 DEF IInv

-----------------------------------------------------------------------------
(***************************************************************************)
(* The theorems                                                            *)
(***************************************************************************)

\* The invariant holds when the history begins.
LEMMA InitIInv == Init => IInv
<1> SUFFICES ASSUME Init PROVE IInv OBVIOUS
<1> USE RetryAssumption
<1>1. saga \in Sagas /\ saga.pc = "idle" /\ saga.task = None BY IdleIsIdle DEF Init
<1>2. PICK held \in [Tasks -> BOOLEAN] :
        /\ ws = [t \in Tasks |-> IF held[t] THEN "current" ELSE "none"]
        /\ tree = [t \in Tasks |-> IF held[t] THEN "work" ELSE "absent"]
        /\ branch = held
        /\ before = [t \in Tasks |-> [status |-> "failed", ws |-> ws[t], tree |-> tree[t]]]
  BY DEF Init
<1>3. \A t \in Tasks : ws[t] \in {"none", "current"} /\ tree[t] \in {"absent", "work"}
  BY <1>2
<1>4. before \in [Tasks -> [status : Terminal, ws : {"none", "current"},
                            tree : {"absent", "work"}]]
  BY <1>2, <1>3 DEF Terminal
<1>5. TypeOK
  <2>1. ws \in [Tasks -> {"none", "provisioning", "current"}] BY <1>2, <1>3
  <2>2. tree \in [Tasks -> {"absent", "detached", "base", "work", "torn", "checkpoint"}]
    BY <1>2, <1>3
  <2>3. faulted \in BOOLEAN BY DEF Init
  <2> QED BY <1>1, <1>2, <1>4, <2>1, <2>2, <2>3 DEF Init, TypeOK, Sagas, Terminal
<1>6. MemoryInv BY <1>1 DEF Init, MemoryInv
<1>7. IntentInv BY <1>2 DEF Init, IntentInv, Terminal
<1>8. FilesInv BY <1>2 DEF Init, FilesInv, Terminal
<1>9. StepInv BY <1>1 DEF StepInv
<1> QED BY <1>5, <1>6, <1>7, <1>8, <1>9 DEF IInv

\* Every step of a retry, of the turn it runs again and of the daemon keeps the
\* invariant.
LEMMA NextIInv == IInv /\ [Next]_vars => IInv'
<1> SUFFICES ASSUME IInv, [Next]_vars PROVE IInv' OBVIOUS
<1>1. CASE UNCHANGED vars
  BY <1>1 DEF vars, IInv, TypeOK, MemoryInv, IntentInv, FilesInv, StepInv
<1>2. ASSUME NEW t \in Tasks, NEW files \in BOOLEAN, BeginRetry(t, files) PROVE IInv'
  BY <1>2, BeginRetryKeeps
<1>3. ASSUME NEW t \in Tasks, Saga(t) PROVE IInv'
  BY <1>3, PrepareKeeps, BranchKeeps, MarkKeeps, RestoreKeeps, CompleteKeeps, PublishKeeps,
     CleanupKeeps, UnbranchKeeps, RollbackKeeps, AbortKeeps DEF Saga
<1>4. ASSUME NEW t \in Tasks, Start(t) \/ Finish(t) \/ Cancel(t) \/ Recover(t) PROVE IInv'
  BY <1>4, StartKeeps, FinishKeeps, CancelKeeps, RecoverKeeps
<1>5. CASE Crash \/ Boot \/ Started BY <1>5, CrashKeeps, BootKeeps, StartedKeeps
<1> QED BY <1>1, <1>2, <1>3, <1>4, <1>5 DEF Next

\* The invariant holds in every state.
THEOREM SagaInductive == Spec => []IInv
BY InitIInv, NextIInv, PTL DEF Spec

\* Every variable keeps its type.
THEOREM SagaTypes == Spec => []TypeOK
<1>1. IInv => TypeOK BY DEF IInv
<1> QED BY <1>1, SagaInductive, PTL

\* Between any two steps of a retry and after any crash (internal/task/approvals.go,
\* internal/store/retry.go), history, files and intent agree, and a retried turn
\* is not forgotten.
THEOREM RetryIsWhole == Spec => []HistoryHolds
<1>1. IInv => HistoryHolds
  <2> SUFFICES ASSUME IInv PROVE HistoryHolds OBVIOUS
  <2>1. FilesFollowHistory BY DEF IInv, IntentInv, FilesInv, FilesFollowHistory
  <2>2. IntentMatches BY DEF IInv, TypeOK, IntentInv, IntentMatches, Terminal
  <2>3. NothingStranded BY DEF IInv, MemoryInv, IntentInv, NothingStranded
  <2> QED BY <2>1, <2>2, <2>3 DEF HistoryHolds
<1> QED BY <1>1, SagaInductive, PTL

\* Whatever fails on the way, and however often the daemon dies, a retry that is
\* undone leaves the task, its generation and its files as it found them.
THEOREM UndoneIsUndone == Spec => Undone
<1> DEFINE Back == \A t \in Tasks : status[t] = "retrying" /\ status'[t] \in Terminal =>
                     before[t] = [status |-> status'[t], ws |-> ws'[t], tree |-> tree'[t]]
<1>1. ASSUME IInv, [Next]_vars PROVE [Back]_vars
  <2> SUFFICES ASSUME Next, NEW u \in Tasks, status[u] = "retrying", status'[u] \in Terminal
               PROVE  before[u] = [status |-> status'[u], ws |-> ws'[u], tree |-> tree'[u]]
    BY <1>1
  <2>1. u \notin live /\ intent[u] # None BY <1>1 DEF IInv, MemoryInv, IntentInv
  <2>2. \A t \in Tasks : ~(t = u /\ (Start(t) \/ Finish(t) \/ Cancel(t)))
    BY <2>1 DEF Start, Finish, Cancel
  <2>3. status' # status BY DEF Terminal
  <2>4. Abort(u) /\ status' # status
    <3>1. ~Boot BY <2>1 DEF Boot, Terminal
    <3>2. ASSUME NEW t \in Tasks, NEW files \in BOOLEAN, BeginRetry(t, files) PROVE FALSE
      BY <1>1, <3>2 DEF BeginRetry, IInv, TypeOK, Terminal
    <3>3. ASSUME NEW t \in Tasks, Saga(t) PROVE Abort(u)
      <4>1. ~Prepare(t) /\ ~Branch(t) /\ ~Mark(t) /\ ~Restore(t) /\ ~Publish(t) /\ ~Cleanup(t)
            /\ ~Unbranch(t) /\ ~Rollback(t)
        BY <2>3 DEF Prepare, Branch, Mark, Restore, Publish, Cleanup, Unbranch, Rollback, rows
      <4>2. ~Complete(t) BY <1>1 DEF Complete, IInv, TypeOK, Terminal
      <4>3. Abort(t) BY <3>3, <4>1, <4>2 DEF Saga
      <4>4. t = u BY <1>1, <4>3 DEF Abort, IInv, TypeOK, Terminal
      <4> QED BY <4>3, <4>4
    <3>4. ASSUME NEW t \in Tasks, Start(t) \/ Finish(t) \/ Cancel(t) \/ Recover(t) PROVE FALSE
      BY <1>1, <2>2, <2>3, <3>4 DEF Start, Finish, Cancel, Recover, IInv, TypeOK, Terminal
    <3>5. ~Crash /\ ~Started BY <2>3 DEF Crash, Started, rows
    <3> QED BY <2>3, <3>1, <3>2, <3>3, <3>4, <3>5 DEF Next
  <2>5. /\ saga.pc = "abort" /\ saga.task = u
        /\ status' = [status EXCEPT ![u] = intent[u].prev]
        /\ ws' = [ws EXCEPT ![u] = IF intent[u].isNew THEN "none" ELSE @]
        /\ tree' = tree
    BY <2>4 DEF Abort, At, disk
  <2>6. status'[u] = intent[u].prev /\ ws'[u] = IF intent[u].isNew THEN "none" ELSE ws[u]
    BY <1>1, <2>5 DEF IInv, TypeOK
  <2>7. tree[u] = IF intent[u].isNew THEN "absent" ELSE "work"
    BY <1>1, <2>5 DEF IInv, StepInv
  <2>8. /\ ws[u] = IF intent[u].isNew THEN "provisioning" ELSE "current"
        /\ before[u] = [status |-> intent[u].prev,
                        ws |-> IF intent[u].isNew THEN "none" ELSE "current",
                        tree |-> IF intent[u].isNew THEN "absent" ELSE "work"]
    BY <1>1 DEF IInv, IntentInv
  <2> QED BY <2>5, <2>6, <2>7, <2>8
<1> QED BY <1>1, SagaInductive, PTL DEF Spec, Undone

\* A retried turn starts in an agent session that has forgotten the turns cut off
\* (publishCompletedRetry and recovery reset it before they queue the task).
THEOREM RetriedTurnStartsFresh == Spec => StartsFresh
<1>1. ASSUME IInv, [Next]_vars
      PROVE  [\A t \in Tasks : t \in live' \ live => session[t] = "fresh"]_vars
  <2> SUFFICES ASSUME Next, NEW u \in Tasks, u \in live', u \notin live
               PROVE  session[u] = "fresh"
    BY <1>1
  <2>1. Start(u)
    <3>1. ASSUME NEW t \in Tasks, Saga(t) PROVE live' \subseteq live
      BY <3>1 DEF Saga, Prepare, Branch, Mark, Restore, Complete, Publish, Cleanup, Unbranch,
                  Rollback, Abort, GiveUp, memory
    <3>2. ASSUME NEW t \in Tasks, Finish(t) \/ Cancel(t) \/ Recover(t) PROVE live' \subseteq live
      BY <3>2 DEF Finish, Cancel, Recover, Requeue, GiveUp, memory
    <3>3. ASSUME NEW t \in Tasks, Start(t) PROVE t = u BY <3>3 DEF Start
    <3>4. ASSUME NEW t \in Tasks, NEW files \in BOOLEAN, BeginRetry(t, files) PROVE live' = live
      BY <3>4 DEF BeginRetry, memory
    <3>5. Crash \/ Boot \/ Started => live' \subseteq live BY DEF Crash, Boot, Started, memory
    <3> QED BY <3>1, <3>2, <3>3, <3>4, <3>5 DEF Next
  <2> QED BY <1>1, <2>1 DEF Start, IInv, MemoryInv
<1> QED BY <1>1, SagaInductive, PTL DEF Spec, StartsFresh

=============================================================================

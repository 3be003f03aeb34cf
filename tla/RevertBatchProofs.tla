------------------------- MODULE RevertBatchProofs -------------------------
(***************************************************************************)
(* Theorems about RevertBatch, for any number of runs that overlap: its    *)
(* type invariant, that a stake is given back once, that a completed batch *)
(* leaves no bet behind that it does not count as failed, and that         *)
(* exposures and balances are what the bets and transactions explain.      *)
(***************************************************************************)
EXTENDS RevertBatch, FiniteSetTheorems, SumLemmas, TLAPS

-----------------------------------------------------------------------------
(* Updates of the tasks and of the workers *)

\* Queueing a task, or writing the status and attempts of one, yields tasks.
LEMMA TaskWriteType ==
    ASSUME NEW ts \in Seq(Task), NEW i \in DOMAIN ts,
           NEW status \in {"pending", "processing", "completed", "failed"},
           NEW attempts \in Nat
    PROVE  /\ [ts EXCEPT ![i].status = status] \in Seq(Task)
           /\ DOMAIN [ts EXCEPT ![i].status = status] = DOMAIN ts
           /\ [ts EXCEPT ![i].attempts = attempts, ![i].status = status] \in Seq(Task)
           /\ DOMAIN [ts EXCEPT ![i].attempts = attempts, ![i].status = status]
                = DOMAIN ts
<1>1. /\ ts \in [1 .. Len(ts) -> Task]
      /\ Len(ts) \in Nat
      /\ DOMAIN ts = 1 .. Len(ts)
    OBVIOUS
<1>2. /\ [ts[i] EXCEPT !.status = status] \in Task
      /\ [ts[i] EXCEPT !.attempts = attempts, !.status = status] \in Task
    BY <1>1 DEF Task
<1>3. /\ [ts EXCEPT ![i].status = status]
           = [ts EXCEPT ![i] = [ts[i] EXCEPT !.status = status]]
      /\ [ts EXCEPT ![i].attempts = attempts, ![i].status = status]
           = [ts EXCEPT ![i] = [ts[i] EXCEPT !.attempts = attempts, !.status = status]]
    OBVIOUS
<1>4. ASSUME NEW t \in Task
      PROVE  [ts EXCEPT ![i] = t] \in [1 .. Len(ts) -> Task]
    BY <1>1
<1> QED BY <1>1, <1>2, <1>3, <1>4

\* A worker at work holds one of the tasks there are.
HoldsTask(w, ts) ==
    /\ w \in Worker
    /\ w.pc \notin {"idle", "next"} => w.task \in DOMAIN ts
    /\ \A e \in w.queue : e.id \in DOMAIN ts

\* Updating one worker keeps the workers' part of TypeOK.
LEMMA WorkerUpdateType ==
    ASSUME NEW ws \in [Runners -> Worker], NEW ts, NEW new,
           \A r \in Runners : HoldsTask(ws[r], ts),
           NEW r \in Runners, NEW w, HoldsTask(w, new),
           DOMAIN ts \subseteq DOMAIN new
    PROVE  /\ [ws EXCEPT ![r] = w] \in [Runners -> Worker]
           /\ \A s \in Runners : HoldsTask([ws EXCEPT ![r] = w][s], new)
BY DEF HoldsTask

LEMMA CountsType ==
    /\ NoCounts \in Counts
    /\ \A c, d \in Counts : Plus(c, d) \in Counts
    /\ \A c \in Counts : \A what \in {"refunded", "skipped", "failed"} :
         [c EXCEPT ![what] = @ + 1] \in Counts
BY DEF Counts, NoCounts, Plus

LEMMA IdleWorkerType == \A ts : HoldsTask(IdleWorker, ts)
BY CountsType DEF HoldsTask, IdleWorker, Worker

LEMMA NoBatchType == NoBatch \in Batch
BY CountsType DEF NoBatch, Batch

-----------------------------------------------------------------------------
(* Type correctness *)

\* The initial state is well typed.
LEMMA InitType == Init => TypeOK
<1> SUFFICES ASSUME Init PROVE TypeOK
    OBVIOUS
<1>1. /\ worker \in [Runners -> Worker]
      /\ \A r \in Runners : HoldsTask(worker[r], tasks)
    BY IdleWorkerType DEF Init, HoldsTask
<1>2. batches \in [Keys -> Batch]
    BY NoBatchType DEF Init
<1>3. tasks \in Seq(Task)
    BY DEF Init
<1> QED BY <1>1, <1>2, <1>3 DEF Init, TypeOK, HoldsTask

\* The rest of the session touches the money and what is declared only.
LEMMA SessionStepType ==
    ASSUME TypeOK, SessionStep
    PROVE  TypeOK'
<1>1. ASSUME NEW o \in Orders, PlaceOrder(o) PROVE TypeOK'
  <2>1. bets' \in [Bets -> {"none", "pending", "won", "lost", "deleted"}]
      BY <1>1 DEF PlaceOrder, TypeOK
  <2>2. DOMAIN wallet' = Users
      BY <1>1 DEF PlaceOrder, TypeOK
  <2>3. /\ DOMAIN debits' = Orders
        /\ \A p \in Orders : debits'[p].bets \subseteq BetsOf(p)
      BY <1>1 DEF PlaceOrder, TypeOK
  <2> QED BY <1>1, <2>1, <2>2, <2>3 DEF PlaceOrder, TypeOK, world, faults
<1>2. ASSUME NEW mode \in {"open", "close"}, DeclareResult(mode) PROVE TypeOK'
    BY <1>2 DEF DeclareResult, TypeOK, money, faults
<1>3. CASE ReadPendingBets
    BY <1>3 DEF ReadPendingBets, TypeOK, money, faults, With
<1>4. ASSUME NEW winners \in SUBSET settling, SettleBets(winners) PROVE TypeOK'
  <2>1. bets' \in [Bets -> {"none", "pending", "won", "lost", "deleted"}]
      BY <1>4 DEF SettleBets, TypeOK
  <2>2. DOMAIN wallet' = Users
      BY <1>4 DEF SettleBets, TypeOK
  <2>3. credits' \in [Bets -> Nat]
    <3>1. credits \in [Bets -> Nat] /\ Payout \in [Bets -> Nat]
        BY OrdersAssumption DEF TypeOK
    <3>2. [b \in Bets |-> IF b \in winners THEN credits[b] + Payout[b] ELSE credits[b]]
            \in [Bets -> Nat]
        BY <3>1
    <3> QED BY <1>4, <3>1, <3>2 DEF SettleBets
  <2> QED BY <1>4, <2>1, <2>2, <2>3 DEF SettleBets, TypeOK, faults
<1> QED BY <1>1, <1>2, <1>3, <1>4 DEF SessionStep

\* Requests store well-typed batches and queue well-typed tasks.
LEMMA AdminStepType ==
    ASSUME TypeOK, NEW k \in Keys, AdminStep(k)
    PROVE  TypeOK'
<1>1. ASSUME Schedule(k)
      PROVE  /\ tasks' \in Seq(Task)
             /\ DOMAIN tasks \subseteq DOMAIN tasks'
  <2>1. [key |-> k, status |-> "pending", attempts |-> 0] \in Task
      BY DEF Task
  <2> QED BY <1>1, <2>1 DEF Schedule, TypeOK
<1>2. CASE Preflight(k)
  <2> DEFINE request == [key |-> k, stored |-> FALSE, observed |-> declared,
                         eligible |-> With("pending")]
  <2>1. request \in Request
      BY DEF Request, TypeOK, With
  <2>2. /\ creating' = creating \union {request}
        /\ UNCHANGED <<money, world, batches, tasks, worker, faults>>
      BY <1>2 DEF Preflight
  <2> HIDE DEF request
  <2> QED BY <2>1, <2>2 DEF TypeOK, money, world, faults
<1>3. CASE CreateBatch(k)
  <2> PICK request \in creating :
        /\ creating' = (creating \ {request}) \union {[request EXCEPT !.stored = TRUE]}
        /\ batches' = [batches EXCEPT ![k] =
             [NoBatch EXCEPT !.status = "pending", !.observed = request.observed,
                             !.eligible = request.eligible]]
        /\ UNCHANGED <<money, world, tasks, worker, faults>>
      BY <1>3 DEF CreateBatch
  <2> DEFINE new == [NoBatch EXCEPT !.status = "pending", !.observed = request.observed,
                                    !.eligible = request.eligible]
  <2>0. request \in Request
      BY DEF TypeOK
  <2>1. new \in Batch
      BY <2>0, NoBatchType DEF Request, Batch
  <2>2. batches' = [batches EXCEPT ![k] = new]
      OBVIOUS
  <2> HIDE DEF new
  <2>3. batches' \in [Keys -> Batch]
      BY <2>1, <2>2 DEF TypeOK
  <2>4. creating' \subseteq Request
    <3>1. [request EXCEPT !.stored = TRUE] \in Request
        BY <2>0 DEF Request
    <3> QED BY <3>1 DEF TypeOK
  <2> QED BY <2>3, <2>4 DEF TypeOK, money, world, faults
<1>4. CASE ScheduleBatch(k)
    BY <1>1, <1>4 DEF ScheduleBatch, TypeOK, money, world, faults
<1>5. CASE ScheduleFails(k)
  <2>1. batches' \in [Keys -> Batch]
    <3>1. [batches[k] EXCEPT !.status = "failed"] \in Batch
        BY DEF TypeOK, Batch
    <3> QED BY <1>5, <3>1 DEF ScheduleFails, TypeOK
  <2> QED BY <1>5, <2>1 DEF ScheduleFails, TypeOK, money, world
<1>6. CASE CreateEnds(k)
    BY <1>6 DEF CreateEnds, TypeOK, money, world
<1>7. CASE Repost(k)
    BY <1>1, <1>7 DEF Repost, TypeOK, money, world, faults
<1> QED BY <1>2, <1>3, <1>4, <1>5, <1>6, <1>7 DEF AdminStep

\* What a step of the runner leaves to show, once its worker is well typed.
LEMMA RunnerFrame ==
    ASSUME TypeOK, NEW r \in Runners, NEW new, HoldsTask(new, tasks'),
           worker' = [worker EXCEPT ![r] = new],
           tasks' \in Seq(Task), DOMAIN tasks \subseteq DOMAIN tasks',
           batches' \in [Keys -> Batch], errors' \in Nat, crashes' \in Nat,
           UNCHANGED <<money, world, creating>>
    PROVE  TypeOK'
<1>1. /\ worker \in [Runners -> Worker]
      /\ \A s \in Runners : HoldsTask(worker[s], tasks)
    BY DEF TypeOK, HoldsTask
<1>2. /\ worker' \in [Runners -> Worker]
      /\ \A s \in Runners : HoldsTask(worker'[s], tasks')
    BY <1>1, WorkerUpdateType
<1> QED BY <1>2 DEF TypeOK, HoldsTask, money, world

\* The runner between tasks.
LEMMA RunnerStepType ==
    ASSUME TypeOK, NEW r \in Runners,
           \/ StartRun(r) \/ ClaimTask(r) \/ EndRun(r)
           \/ CompleteTask(r) \/ RetryOrFailTask(r) \/ AbandonRun(r)
    PROVE  TypeOK'
<1> DEFINE w == worker[r]
<1>1. /\ worker \in [Runners -> Worker]
      /\ tasks \in Seq(Task)
      /\ HoldsTask(w, tasks)
      /\ batches \in [Keys -> Batch]
      /\ errors \in Nat /\ crashes \in Nat
    BY DEF TypeOK, HoldsTask
<1>2. CASE StartRun(r)
  <2> DEFINE due == {i \in DOMAIN tasks : tasks[i].status = "pending"}
             queue == {[id |-> i, attempts |-> tasks[i].attempts] : i \in due}
             new == [w EXCEPT !.pc = "next", !.queue = queue]
  <2> \A i \in DOMAIN tasks : i \in Nat /\ tasks[i] \in Task
      BY <1>1
  <2>1. \A i \in due : i \in Nat /\ tasks[i].attempts \in Nat
      BY DEF Task
  <2>2. queue \subseteq [id : Nat, attempts : Nat] /\ \A e \in queue : e.id \in DOMAIN tasks
      BY <2>1
  <2>3. worker' = [worker EXCEPT ![r] = new]
      BY <1>1, <1>2 DEF StartRun
  <2> HIDE DEF queue
  <2>4. HoldsTask(new, tasks)
      BY <1>1, <2>2 DEF HoldsTask, Worker
  <2> HIDE DEF new
  <2>5. tasks' = tasks /\ batches' = batches /\ errors' = errors /\ crashes' = crashes
        /\ UNCHANGED <<money, world, creating>>
      BY <1>2 DEF StartRun, faults
  <2> QED BY <1>1, <2>3, <2>4, <2>5, RunnerFrame
<1>3. CASE ClaimTask(r)
  <2> PICK e \in w.queue :
        /\ tasks' = [tasks EXCEPT ![e.id].status = "processing"]
        /\ worker' = [worker EXCEPT ![r].pc = "load", ![r].task = e.id,
                                    ![r].tries = e.attempts, ![r].queue = @ \ {e}]
      BY <1>3 DEF ClaimTask
  <2> DEFINE new == [w EXCEPT !.pc = "load", !.task = e.id, !.tries = e.attempts,
                              !.queue = @ \ {e}]
  <2>1. e.id \in DOMAIN tasks /\ e \in [id : Nat, attempts : Nat]
      BY <1>1 DEF HoldsTask, Worker
  <2>2. tasks' \in Seq(Task) /\ DOMAIN tasks' = DOMAIN tasks
      BY <1>1, <2>1, TaskWriteType
  <2>3. HoldsTask(new, tasks')
      BY <1>1, <2>1, <2>2 DEF HoldsTask, Worker
  <2>4. worker' = [worker EXCEPT ![r] = new]
      BY <1>1
  <2> HIDE DEF new
  <2>5. batches' = batches /\ errors' = errors /\ crashes' = crashes
        /\ UNCHANGED <<money, world, creating>>
      BY <1>3 DEF ClaimTask, faults
  <2> QED BY <1>1, <2>2, <2>3, <2>4, <2>5, RunnerFrame
<1>4. ASSUME worker' = [worker EXCEPT ![r] = IdleWorker],
             tasks' = tasks, batches' = batches, errors' = errors, crashes' \in Nat,
             UNCHANGED <<money, world, creating>>
      PROVE  TypeOK'
    BY <1>1, <1>4, IdleWorkerType, RunnerFrame
<1>5. CASE EndRun(r)
    BY <1>1, <1>4, <1>5 DEF EndRun, faults
<1>6. CASE AbandonRun(r)
    BY <1>1, <1>4, <1>6 DEF AbandonRun
<1>7. ASSUME tasks' \in Seq(Task), DOMAIN tasks' = DOMAIN tasks, FinishTask(r),
             UNCHANGED <<money, world, batches, creating, faults>>
      PROVE  TypeOK'
  <2> DEFINE new == [IdleWorker EXCEPT !.pc = "next", !.queue = w.queue]
  <2>1. HoldsTask(new, tasks')
      BY <1>1, <1>7, IdleWorkerType DEF HoldsTask, Worker, IdleWorker
  <2>2. worker' = [worker EXCEPT ![r] = new]
      BY <1>7 DEF FinishTask
  <2> HIDE DEF new
  <2> QED BY <1>1, <1>7, <2>1, <2>2, RunnerFrame DEF faults
<1>8. CASE CompleteTask(r)
  <2>1. w.task \in DOMAIN tasks
      BY <1>1, <1>8 DEF HoldsTask, CompleteTask
  <2>2. tasks' \in Seq(Task) /\ DOMAIN tasks' = DOMAIN tasks
      BY <1>1, <1>8, <2>1, TaskWriteType DEF CompleteTask
  <2> QED BY <1>7, <1>8, <2>2 DEF CompleteTask
<1>9. CASE RetryOrFailTask(r)
  <2> DEFINE attempts == w.tries + 1
  <2>1. w.task \in DOMAIN tasks /\ attempts \in Nat
      BY <1>1, <1>9 DEF HoldsTask, RetryOrFailTask, Worker
  <2>2. StatusAfter(attempts) \in {"pending", "processing", "completed", "failed"}
      BY DEF StatusAfter
  <2>3. tasks' = [tasks EXCEPT ![w.task].attempts = attempts,
                               ![w.task].status = StatusAfter(attempts)]
      BY <1>9 DEF RetryOrFailTask
  <2> HIDE DEF attempts
  <2>4. tasks' \in Seq(Task) /\ DOMAIN tasks' = DOMAIN tasks
      BY <1>1, <2>1, <2>2, <2>3, TaskWriteType
  <2> QED BY <1>7, <1>9, <2>4 DEF RetryOrFailTask
<1> QED BY <1>2, <1>3, <1>5, <1>6, <1>8, <1>9

\* The execution of one batch, and what fails in it.
LEMMA BatchStepType ==
    ASSUME TypeOK, NEW r \in Runners,
           \/ LoadBatch(r) \/ MarkProcessing(r) \/ ReadChunk(r) \/ SaveChunkProgress(r)
           \/ MarkCompleted(r) \/ MarkFailed(r) \/ ThrowError(r)
    PROVE  TypeOK'
<1> DEFINE w == worker[r]
<1>1. /\ worker \in [Runners -> Worker]
      /\ tasks \in Seq(Task)
      /\ HoldsTask(w, tasks)
      /\ batches \in [Keys -> Batch]
      /\ errors \in Nat /\ crashes \in Nat
    BY DEF TypeOK, HoldsTask
<1>2. ASSUME w.pc \notin {"idle", "next"}
      PROVE  /\ KeyOf(r) \in Keys
             /\ batches[KeyOf(r)] \in Batch
  <2>1. tasks[w.task] \in Task
      BY <1>1, <1>2 DEF HoldsTask
  <2> QED BY <1>1, <2>1 DEF KeyOf, Task
<1>3. ASSUME NEW new, HoldsTask(new, tasks), worker' = [worker EXCEPT ![r] = new],
             batches' \in [Keys -> Batch], errors' \in Nat,
             UNCHANGED <<money, world, creating, tasks, crashes>>
      PROVE  TypeOK'
    BY <1>1, <1>3, RunnerFrame
<1>4. ASSUME NEW status \in {"processing", "completed", "failed"},
             w.pc \notin {"idle", "next"},
             batches' = [batches EXCEPT ![KeyOf(r)].status = status]
      PROVE  batches' \in [Keys -> Batch]
  <2>1. [batches[KeyOf(r)] EXCEPT !.status = status] \in Batch
      BY <1>2, <1>4 DEF Batch
  <2> QED BY <1>1, <1>2, <1>4, <2>1
<1>5. ASSUME NEW pc \in {"chunk", "complete", "catch", "done", "failed"},
             w.pc \notin {"idle", "next"}
      PROVE  HoldsTask([w EXCEPT !.pc = pc], tasks)
    BY <1>1, <1>5 DEF HoldsTask, Worker
<1>6. CASE LoadBatch(r)
  <2> DEFINE batch == batches[KeyOf(r)]
             new == [w EXCEPT !.pc = IF batch.status = "completed" THEN "done" ELSE "mark",
                              !.cursor = batch.cursor, !.base = batch.counts]
  <2>1. w.pc = "load" /\ batch \in Batch
      BY <1>2, <1>6 DEF LoadBatch
  <2>2. batch.cursor \in Nat /\ batch.counts \in Counts
      BY <2>1 DEF Batch
  <2>3. HoldsTask(new, tasks)
    <3> HIDE DEF batch
    <3> QED BY <1>1, <2>1, <2>2 DEF HoldsTask, Worker
  <2>4. worker' = [worker EXCEPT ![r] = new]
      BY <1>1, <1>6 DEF LoadBatch
  <2> HIDE DEF new
  <2> QED BY <1>1, <1>3, <1>6, <2>3, <2>4 DEF LoadBatch, faults
<1>7. CASE MarkProcessing(r)
  <2>1. batches' \in [Keys -> Batch]
      BY <1>4, <1>7 DEF MarkProcessing
  <2>2. worker' = [worker EXCEPT ![r] = [w EXCEPT !.pc = "chunk"]]
      BY <1>7 DEF MarkProcessing
  <2>3. HoldsTask([w EXCEPT !.pc = "chunk"], tasks)
      BY <1>5, <1>7 DEF MarkProcessing
  <2> QED BY <1>1, <1>3, <1>7, <2>1, <2>2, <2>3 DEF MarkProcessing, faults
<1>8. CASE ReadChunk(r)
  <2> DEFINE chunk == NextChunk(w.cursor)
  <2>1. UNCHANGED <<money, world, batches, creating, tasks, faults>> /\ w.pc = "chunk"
      BY <1>8 DEF ReadChunk
  <2>2. CASE chunk = {}
    <3>1. worker' = [worker EXCEPT ![r] = [w EXCEPT !.pc = "complete"]]
        BY <1>8, <2>2 DEF ReadChunk
    <3>2. HoldsTask([w EXCEPT !.pc = "complete"], tasks)
        BY <1>5, <2>1
    <3> QED BY <1>1, <1>3, <2>1, <3>1, <3>2 DEF faults
  <2>3. CASE chunk # {}
    <3>1. PICK last \in chunk :
            worker' = [worker EXCEPT ![r].pc = "bet", ![r].chunk = chunk,
                                     ![r].last = last, ![r].counts = NoCounts]
        BY <1>8, <2>3 DEF ReadChunk
    <3>2. chunk \subseteq Bets /\ last \in Nat
        BY OrdersAssumption DEF NextChunk, With
    <3> HIDE DEF chunk
    <3> DEFINE new == [w EXCEPT !.pc = "bet", !.chunk = chunk, !.last = last,
                                !.counts = NoCounts]
    <3>3. HoldsTask(new, tasks)
        BY <1>1, <2>1, <3>2, CountsType DEF HoldsTask, Worker
    <3>4. worker' = [worker EXCEPT ![r] = new]
        BY <1>1, <3>1
    <3> HIDE DEF new
    <3> QED BY <1>1, <1>3, <2>1, <3>3, <3>4 DEF faults
  <2> QED BY <2>2, <2>3
<1>9. CASE SaveChunkProgress(r)
  <2> DEFINE batch == batches[KeyOf(r)]
             saved == [batch EXCEPT !.cursor = w.last, !.counts = Plus(@, w.counts)]
             new == [w EXCEPT !.pc = "chunk", !.cursor = w.last,
                              !.total = Plus(@, w.counts)]
  <2>1. w.pc = "save" /\ KeyOf(r) \in Keys /\ batch \in Batch
      BY <1>2, <1>9 DEF SaveChunkProgress
  <2>2. w.last \in Nat /\ w.counts \in Counts /\ w.total \in Counts /\ w \in Worker
      BY <1>1 DEF HoldsTask, Worker
  <2>3. batch.counts \in Counts
      BY <2>1 DEF Batch
  <2>4. Plus(batch.counts, w.counts) \in Counts /\ Plus(w.total, w.counts) \in Counts
      BY <2>2, <2>3, CountsType
  <2>5. saved \in Batch
      BY <2>1, <2>2, <2>4 DEF Batch
  <2>6. batches' = [batches EXCEPT ![KeyOf(r)] = saved]
      BY <1>1, <1>9 DEF SaveChunkProgress
  <2>7. batches' \in [Keys -> Batch]
    <3> HIDE DEF saved
    <3> QED BY <1>1, <2>1, <2>5, <2>6
  <2>8. HoldsTask(new, tasks)
      BY <1>1, <2>1, <2>2, <2>4 DEF HoldsTask, Worker
  <2>9. worker' = [worker EXCEPT ![r] = new]
      BY <1>1, <1>9 DEF SaveChunkProgress
  <2> HIDE DEF new
  <2> QED BY <1>1, <1>3, <1>9, <2>7, <2>8, <2>9 DEF SaveChunkProgress, faults
<1>10. CASE MarkCompleted(r)
  <2> DEFINE counts == Plus(w.base, w.total)
             batch == batches[KeyOf(r)]
  <2>1. w.pc = "complete" /\ KeyOf(r) \in Keys /\ batch \in Batch
      BY <1>2, <1>10 DEF MarkCompleted
  <2>2. counts \in Counts
      BY <1>1, CountsType DEF HoldsTask, Worker
  <2>3. batches' = [batches EXCEPT ![KeyOf(r)] =
                      [batch EXCEPT !.status = "completed", !.counts = counts]]
      BY <1>1, <1>10 DEF MarkCompleted
  <2> HIDE DEF counts
  <2>4. [batch EXCEPT !.status = "completed", !.counts = counts] \in Batch
      BY <2>1, <2>2 DEF Batch
  <2>5. batches' \in [Keys -> Batch]
      BY <1>1, <2>1, <2>3, <2>4
  <2>6. worker' = [worker EXCEPT ![r] = [w EXCEPT !.pc = "done"]]
      BY <1>10 DEF MarkCompleted
  <2>7. HoldsTask([w EXCEPT !.pc = "done"], tasks)
      BY <1>5, <2>1
  <2> QED BY <1>1, <1>3, <1>10, <2>5, <2>6, <2>7 DEF MarkCompleted, faults
<1>11. CASE MarkFailed(r)
  <2>1. batches' \in [Keys -> Batch]
      BY <1>4, <1>11 DEF MarkFailed
  <2>2. worker' = [worker EXCEPT ![r] = [w EXCEPT !.pc = "done"]]
      BY <1>11 DEF MarkFailed
  <2>3. HoldsTask([w EXCEPT !.pc = "done"], tasks)
      BY <1>5, <1>11 DEF MarkFailed
  <2> QED BY <1>1, <1>3, <1>11, <2>1, <2>2, <2>3 DEF MarkFailed, faults
<1>12. CASE ThrowError(r)
  <2> DEFINE pc == IF w.pc \in {"load", "mark", "catch"} THEN "failed" ELSE "catch"
  <2>1. worker' = [worker EXCEPT ![r] = [w EXCEPT !.pc = pc]]
      BY <1>12 DEF ThrowError
  <2>2. w.pc \notin {"idle", "next"} /\ pc \in {"failed", "catch"}
      BY <1>12 DEF ThrowError
  <2> HIDE DEF pc
  <2>3. HoldsTask([w EXCEPT !.pc = pc], tasks)
      BY <1>5, <2>2
  <2>4. errors' = errors + 1 /\ UNCHANGED <<money, world, batches, creating, tasks, crashes>>
      BY <1>12 DEF ThrowError
  <2> DEFINE new == [w EXCEPT !.pc = pc]
  <2>5. worker' = [worker EXCEPT ![r] = new] /\ HoldsTask(new, tasks)
      BY <2>1, <2>3
  <2> HIDE DEF new
  <2>6. batches' \in [Keys -> Batch] /\ errors' \in Nat
      BY <1>1, <2>4
  <2> QED BY <1>3, <2>4, <2>5, <2>6
<1> QED BY <1>6, <1>7, <1>8, <1>9, <1>10, <1>11, <1>12

\* The transaction of one bet.
LEMMA BetStepType ==
    ASSUME TypeOK, NEW r \in Runners, NEW b \in Bets,
           RefundBet(r, b) \/ SkipBet(r, b) \/ FailBet(r, b)
    PROVE  TypeOK'
<1> DEFINE w == worker[r]
<1>1. /\ worker \in [Runners -> Worker]
      /\ \A s \in Runners : HoldsTask(worker[s], tasks)
    BY DEF TypeOK, HoldsTask
<1>2. w.pc = "bet"
    BY DEF RefundBet, SkipBet, FailBet, NextBet
<1>3. ASSUME NEW what \in {"refunded", "skipped", "failed"}, Count(r, b, what), tasks' = tasks
      PROVE  /\ worker' \in [Runners -> Worker]
             /\ \A s \in Runners : HoldsTask(worker'[s], tasks')
  <2> DEFINE left == w.chunk \ {b}
             pc == IF left = {} THEN "save" ELSE "bet"
             counts == [w.counts EXCEPT ![what] = @ + 1]
             new == [w EXCEPT !.chunk = left, !.pc = pc, !.counts = counts]
  <2>1. w \in Worker /\ w.counts \in Counts /\ left \subseteq Bets
      BY <1>1 DEF HoldsTask, Worker
  <2>2. counts \in Counts /\ pc \in {"save", "bet"}
      BY <2>1, CountsType
  <2>3. worker' = [worker EXCEPT ![r] = new]
      BY <1>1, <1>3, <2>1 DEF Count, Worker
  <2> HIDE DEF left, pc, counts
  <2>4. HoldsTask(new, tasks)
      BY <1>1, <1>2, <2>1, <2>2 DEF HoldsTask, Worker
  <2> HIDE DEF new
  <2> QED BY <1>1, <1>3, <2>3, <2>4, WorkerUpdateType
<1>4. CASE RefundBet(r, b)
  <2>1. /\ bets' = [bets EXCEPT ![b] = "deleted"]
        /\ refunds' = [refunds EXCEPT ![b] = @ + 1]
        /\ debits' = [debits EXCEPT ![OrderOf[b]] = RemoveFromDebit(@, b)]
        /\ Count(r, b, "refunded")
        /\ UNCHANGED <<credits, world, batches, creating, tasks, faults>>
      BY <1>4 DEF RefundBet
  <2>2. DOMAIN wallet' = Users
      BY <1>4 DEF RefundBet, TypeOK
  <2>3. \A o \in Orders : RemoveFromDebit(debits[o], b).bets \subseteq BetsOf(o)
    <3> SUFFICES ASSUME NEW o \in Orders
                 PROVE  RemoveFromDebit(debits[o], b).bets \subseteq BetsOf(o)
        OBVIOUS
    <3>1. debits[o].bets \subseteq BetsOf(o)
        BY DEF TypeOK
    <3>2. CASE debits[o].bets = {b}
        BY <3>2 DEF RemoveFromDebit
    <3>3. CASE debits[o].bets # {b}
        BY <3>1, <3>3 DEF RemoveFromDebit
    <3> QED BY <3>2, <3>3
  <2>4. /\ DOMAIN debits' = Orders
        /\ \A o \in Orders : debits'[o].bets \subseteq BetsOf(o)
      BY <2>1, <2>3 DEF TypeOK
  <2>5. /\ worker' \in [Runners -> Worker]
        /\ \A s \in Runners : HoldsTask(worker'[s], tasks')
      BY <1>3, <2>1
  <2> QED BY <2>1, <2>2, <2>4, <2>5 DEF TypeOK, HoldsTask, world, faults
<1>5. CASE SkipBet(r, b)
  <2>1. /\ worker' \in [Runners -> Worker]
        /\ \A s \in Runners : HoldsTask(worker'[s], tasks')
      BY <1>3, <1>5 DEF SkipBet
  <2> QED BY <1>5, <2>1 DEF SkipBet, TypeOK, HoldsTask, money, world, faults
<1>6. CASE FailBet(r, b)
  <2>1. /\ worker' \in [Runners -> Worker]
        /\ \A s \in Runners : HoldsTask(worker'[s], tasks')
      BY <1>3, <1>6 DEF FailBet
  <2> QED BY <1>6, <2>1 DEF FailBet, TypeOK, HoldsTask, money, world
<1> QED BY <1>4, <1>5, <1>6

\* Every step keeps the type.
LEMMA NextType == TypeOK /\ [Next]_vars => TypeOK'
<1> SUFFICES ASSUME TypeOK, [Next]_vars PROVE TypeOK'
    OBVIOUS
<1>1. CASE SessionStep
    BY <1>1, SessionStepType
<1>2. ASSUME NEW k \in Keys, AdminStep(k) PROVE TypeOK'
    BY <1>2, AdminStepType
<1>3. ASSUME NEW r \in Runners,
             RunnerStep(r) \/ ThrowError(r) \/ AbandonRun(r) \/ \E b \in Bets : FailBet(r, b)
      PROVE  TypeOK'
    BY <1>3, RunnerStepType, BatchStepType, BetStepType DEF RunnerStep
<1>4. CASE UNCHANGED vars
    BY <1>4 DEF TypeOK, vars, money, world, faults
<1> QED BY <1>1, <1>2, <1>3, <1>4 DEF Next

\* Type correctness: documents, requests, tasks and workers are what the code
\* takes them for, and a worker at work holds a task that exists.
THEOREM RevertTypeCorrect == Spec => []TypeOK
BY InitType, NextType, PTL DEF Spec

-----------------------------------------------------------------------------
(* A stake is given back once *)

\* Only the transaction of a bet removes it, and it asks the stored bet: so
\* a step either leaves the removed bets and their refunds alone, or removes
\* and refunds one bet that was pending.
LEMMA RefundStep ==
    ASSUME TypeOK, [Next]_vars
    PROVE  \/ /\ refunds' = refunds
              /\ \A b \in Bets : bets'[b] = "deleted" <=> bets[b] = "deleted"
           \/ \E b \in Bets : /\ bets[b] = "pending"
                              /\ bets' = [bets EXCEPT ![b] = "deleted"]
                              /\ refunds' = [refunds EXCEPT ![b] = @ + 1]
<1> DEFINE Kept == /\ refunds' = refunds
                   /\ \A b \in Bets : bets'[b] = "deleted" <=> bets[b] = "deleted"
<1>1. ASSUME UNCHANGED <<bets, refunds>> PROVE Kept
    BY <1>1
<1>2. ASSUME NEW o \in Orders, PlaceOrder(o) PROVE Kept
    BY <1>2 DEF PlaceOrder, BetsOf, With, TypeOK
<1>3. ASSUME NEW winners \in SUBSET settling, SettleBets(winners) PROVE Kept
    BY <1>3 DEF SettleBets, TypeOK
<1>4. CASE SessionStep
    BY <1>1, <1>2, <1>3, <1>4 DEF SessionStep, DeclareResult, ReadPendingBets, money
<1>5. ASSUME NEW k \in Keys, AdminStep(k) PROVE Kept
    BY <1>1, <1>5 DEF AdminStep, Preflight, CreateBatch, ScheduleBatch, ScheduleFails,
                      CreateEnds, Repost, money
<1>6. ASSUME NEW r \in Runners, NEW b \in Bets, RefundBet(r, b)
      PROVE  /\ bets[b] = "pending"
             /\ bets' = [bets EXCEPT ![b] = "deleted"]
             /\ refunds' = [refunds EXCEPT ![b] = @ + 1]
    BY <1>6 DEF RefundBet, CanDelete
<1>7. ASSUME NEW r \in Runners, NEW b \in Bets, SkipBet(r, b) \/ FailBet(r, b) PROVE Kept
    BY <1>1, <1>7 DEF SkipBet, FailBet, money
<1>8. ASSUME NEW r \in Runners,
             \/ StartRun(r) \/ ClaimTask(r) \/ EndRun(r) \/ CompleteTask(r)
             \/ RetryOrFailTask(r) \/ LoadBatch(r) \/ MarkProcessing(r) \/ ReadChunk(r)
             \/ SaveChunkProgress(r) \/ MarkCompleted(r) \/ MarkFailed(r)
             \/ ThrowError(r) \/ AbandonRun(r)
      PROVE  Kept
    BY <1>1, <1>8 DEF StartRun, ClaimTask, EndRun, CompleteTask, RetryOrFailTask,
                      LoadBatch, MarkProcessing, ReadChunk, SaveChunkProgress,
                      MarkCompleted, MarkFailed, ThrowError, AbandonRun, money
<1>9. CASE UNCHANGED vars
    BY <1>1, <1>9 DEF vars, money
<1> HIDE DEF Kept
<1>10. ASSUME NEW r \in Runners,
              RunnerStep(r) \/ ThrowError(r) \/ AbandonRun(r) \/ \E b \in Bets : FailBet(r, b)
       PROVE  \/ Kept
              \/ \E b \in Bets : /\ bets[b] = "pending"
                                 /\ bets' = [bets EXCEPT ![b] = "deleted"]
                                 /\ refunds' = [refunds EXCEPT ![b] = @ + 1]
    BY <1>6, <1>7, <1>8, <1>10 DEF RunnerStep
<1> QED BY <1>4, <1>5, <1>9, <1>10 DEF Next, Kept

\* A stake is given back at most once and exactly for the removed bets, for any
\* number of runs, batches, retries and crashes that overlap.
THEOREM StakesRefundedOnce == Spec => []RefundedOnce
<1>1. Init => RefundedOnce
    BY DEF Init, RefundedOnce
<1>2. ASSUME TypeOK, RefundedOnce, [Next]_vars PROVE RefundedOnce'
  <2>1. bets \in [Bets -> {"none", "pending", "won", "lost", "deleted"}]
        /\ refunds \in [Bets -> Nat]
      BY <1>2 DEF TypeOK
  <2>2. CASE /\ refunds' = refunds
             /\ \A b \in Bets : bets'[b] = "deleted" <=> bets[b] = "deleted"
      BY <1>2, <2>2 DEF RefundedOnce
  <2>3. ASSUME NEW b \in Bets, bets[b] = "pending",
               bets' = [bets EXCEPT ![b] = "deleted"],
               refunds' = [refunds EXCEPT ![b] = @ + 1]
        PROVE  RefundedOnce'
      BY <1>2, <2>1, <2>3 DEF RefundedOnce
  <2> QED BY <1>2, <2>2, <2>3, RefundStep
<1> QED BY <1>1, <1>2, RevertTypeCorrect, PTL DEF Spec

-----------------------------------------------------------------------------
(* A completed batch leaves no bet behind                                  *)

\* A batch is created once, by the one request of its key, before its task.
CreatedOnce ==
    /\ \A q \in creating : q.stored <=> batches[q.key].status # "none"
    /\ \A p, q \in creating : p.key = q.key => p = q
    /\ \A q \in creating : \A b \in q.eligible : bets[b] # "none"
    /\ \A i \in DOMAIN tasks : batches[tasks[i].key].status # "none"
    /\ \A k \in Keys : batches[k].status = "none" => batches[k] = NoBatch
    /\ \A k \in Keys : \A b \in batches[k].eligible : bets[b] # "none"

\* The bets a batch was created for that are still to be refunded or settled.
Left(k) == batches[k].eligible \intersect With("pending")

LeftUpTo(k, cursor) == {b \in Left(k) : b <= cursor}

\* The failures a batch has counted account for what is left behind its cursor,
\* and once it is completed for all that is left.
BatchAccounts(k) ==
    /\ Cardinality(LeftUpTo(k, batches[k].cursor)) <= batches[k].counts.failed
    /\ batches[k].status = "completed" =>
         Cardinality(Left(k)) <= batches[k].counts.failed

\* So do those a worker has counted, for what is left behind its own cursor;
\* and the batch knows of the failures of the worker's finished chunks, unless
\* another run has completed it.
WorkerAccounts(r) ==
    LET w      == worker[r]
        k      == KeyOf(r)
        failed == w.base.failed + w.total.failed
    IN  /\ w.pc \in {"idle", "next", "load"} => w.total = NoCounts
        /\ w.pc = "save" => w.chunk = {}
        /\ w.pc \in {"mark", "chunk"} =>
             Cardinality(LeftUpTo(k, w.cursor)) <= failed
        /\ w.pc \in {"bet", "save"} =>
             Cardinality(LeftUpTo(k, w.last) \ w.chunk) <= failed + w.counts.failed
        /\ w.pc = "complete" =>
             Cardinality(Left(k)) <= failed
        /\ w.pc \in {"mark", "chunk", "bet", "save", "complete"} =>
             \/ failed <= batches[k].counts.failed
             \/ Cardinality(Left(k)) <= batches[k].counts.failed

AccountsInv ==
    /\ TypeOK
    /\ CreatedOnce
    /\ \A k \in Keys : BatchAccounts(k)
    /\ \A r \in Runners : WorkerAccounts(r)

\* Sets of bets are finite.
LEMMA BetSets ==
    ASSUME NEW T \in SUBSET Bets, NEW S \in SUBSET T
    PROVE  /\ IsFiniteSet(S)
           /\ Cardinality(S) \in Nat
           /\ Cardinality(T) \in Nat
           /\ Cardinality(S) <= Cardinality(T)
<1>1. IsFiniteSet(T)
    BY FS_Subset, OrdersAssumption
<1> QED BY <1>1, FS_Subset, FS_CardinalityType

LEMMA LeastBet ==
    ASSUME NEW S \in SUBSET Nat, S # {}
    PROVE  \E m \in S : \A n \in S : m <= n
<1> DEFINE R == OpToRel(<, Nat)
<1>1. \A m, n \in Nat : <<n, m>> \in R <=> n < m
    BY DEF OpToRel
<1>2. IsWellFoundedOn(R, Nat)
    BY NatLessThanWellFounded
<1> HIDE DEF R
<1>3. PICK m \in S : \A n \in S : ~ (<<n, m>> \in R)
    BY <1>2, WFMin
<1>4. \A n \in S : n \in Nat /\ ~ (n < m)
    BY <1>1, <1>3
<1>5. \A n \in S : m <= n
    BY <1>4
<1> QED BY <1>5

\* A chunk is the pending bets after the cursor up to its last one, and it is
\* empty only if there are none.
LEMMA ChunkIsNext ==
    ASSUME NEW cursor \in Nat
    PROVE  /\ NextChunk(cursor) \subseteq {b \in With("pending") : b > cursor}
           /\ \A last \in NextChunk(cursor) : \A b \in With("pending") :
                cursor < b /\ b <= last => b \in NextChunk(cursor)
           /\ NextChunk(cursor) = {} => \A b \in With("pending") : b <= cursor
<1> DEFINE after == {b \in With("pending") : b > cursor}
           before(b) == {c \in after : c < b}
<1>1. after \subseteq Bets /\ Bets \subseteq Nat
    BY OrdersAssumption DEF With
<1>2. NextChunk(cursor) = {b \in after : Cardinality(before(b)) < ChunkSize}
    BY DEF NextChunk
<1>3. ASSUME NEW last \in NextChunk(cursor), NEW b \in With("pending"),
             cursor < b, b <= last
      PROVE  b \in NextChunk(cursor)
  <2>1. b \in after /\ last \in after /\ Cardinality(before(last)) < ChunkSize
    <3>1. b \in after
        BY <1>3
    <3> HIDE DEF before, after
    <3> QED BY <1>2, <1>3, <3>1
  <2>2. before(b) \subseteq before(last) /\ before(last) \subseteq Bets
    <3>1. \A c \in after : c \in Nat /\ c \in Bets
        BY <1>1
    <3>2. b \in Nat /\ last \in Nat
        BY <2>1, <3>1
    <3> HIDE DEF after
    <3> QED BY <1>3, <3>1, <3>2
  <2>3. /\ Cardinality(before(b)) <= Cardinality(before(last))
        /\ Cardinality(before(b)) \in Nat /\ Cardinality(before(last)) \in Nat
    <3> HIDE DEF before
    <3> QED BY <2>2, BetSets
  <2> HIDE DEF before, after
  <2>4. Cardinality(before(b)) < ChunkSize
      BY <2>1, <2>3, LimitsAssumption
  <2> QED BY <1>2, <2>1, <2>4
<1>4. ASSUME NextChunk(cursor) = {}, after # {}
      PROVE  FALSE
  <2>1. PICK m \in after : \A n \in after : m <= n
      BY <1>1, <1>4, LeastBet
  <2>2. before(m) = {}
    <3>1. \A c \in after : c \in Nat /\ m \in Nat /\ m <= c
        BY <1>1, <2>1
    <3> HIDE DEF after
    <3> QED BY <3>1
  <2>3. Cardinality(before(m)) = 0
    <3> HIDE DEF before
    <3> QED BY <2>2, FS_EmptySet
  <2> HIDE DEF before, after
  <2>4. m \in NextChunk(cursor)
      BY <1>2, <2>1, <2>3, LimitsAssumption
  <2> QED BY <1>4, <2>4
<1>5. ASSUME NextChunk(cursor) = {}, NEW b \in With("pending")
      PROVE  b <= cursor
    BY <1>1, <1>4, <1>5 DEF With
<1> QED BY <1>2, <1>3, <1>5

\* What a step may do to a batch that exists, and to the bets.
Keeps(k) ==
    /\ batches'[k].eligible = batches[k].eligible
    /\ batches'[k].status = "none" <=> batches[k].status = "none"
    /\ batches[k].status = "none" => batches'[k] = batches[k]
    /\ \/ batches[k].counts.failed <= batches'[k].counts.failed
       \/ Cardinality(Left(k)') <= batches'[k].counts.failed

NoneReturns ==
    \A b \in Bets :
      bets[b] # "none" => bets'[b] # "none" /\ (bets'[b] = "pending" => bets[b] = "pending")

LEMMA LeftShrinks ==
    ASSUME AccountsInv, TypeOK', NoneReturns,
           NEW k \in Keys, batches'[k].eligible = batches[k].eligible
    PROVE  /\ Left(k)' \subseteq Left(k)
           /\ Left(k) \subseteq Bets
           /\ \A c : LeftUpTo(k, c)' \subseteq LeftUpTo(k, c)
<1>1. batches[k].eligible \subseteq Bets /\ \A b \in batches[k].eligible : bets[b] # "none"
    BY DEF AccountsInv, TypeOK, CreatedOnce, Batch
<1>2. Left(k)' \subseteq Left(k)
    BY <1>1 DEF Left, With, NoneReturns
<1>3. Left(k) \subseteq Bets
    BY <1>1 DEF Left
<1> QED BY <1>2, <1>3 DEF LeftUpTo

\* A batch whose cursor and counters stay accounts for what is left.
LEMMA BatchKept ==
    ASSUME AccountsInv, TypeOK', NoneReturns,
           NEW k \in Keys, batches'[k].eligible = batches[k].eligible,
           batches'[k].cursor = batches[k].cursor, batches'[k].counts = batches[k].counts,
           batches'[k].status = "completed" => batches[k].status = "completed"
    PROVE  BatchAccounts(k)'
<1> DEFINE c == batches[k].cursor
           n == batches[k].counts.failed
<1>1. /\ Left(k)' \subseteq Left(k) /\ Left(k) \subseteq Bets
      /\ LeftUpTo(k, c)' \subseteq LeftUpTo(k, c) /\ LeftUpTo(k, c) \subseteq Bets
    BY LeftShrinks DEF LeftUpTo
<1>2. /\ Cardinality(Left(k)') <= Cardinality(Left(k))
      /\ Cardinality(Left(k)') \in Nat /\ Cardinality(Left(k)) \in Nat
      /\ Cardinality(LeftUpTo(k, c)') <= Cardinality(LeftUpTo(k, c))
      /\ Cardinality(LeftUpTo(k, c)') \in Nat /\ Cardinality(LeftUpTo(k, c)) \in Nat
    BY <1>1, BetSets
<1>3. n \in Nat
    BY DEF AccountsInv, TypeOK, Batch, Counts
<1>4. /\ Cardinality(LeftUpTo(k, c)) <= n
      /\ batches[k].status = "completed" => Cardinality(Left(k)) <= n
    BY DEF AccountsInv, BatchAccounts
<1>5. /\ Cardinality(LeftUpTo(k, c)') <= n
      /\ batches'[k].status = "completed" => Cardinality(Left(k)') <= n
    BY <1>2, <1>3, <1>4
<1> QED BY <1>5 DEF BatchAccounts

AtBatch == {"mark", "chunk", "bet", "save", "complete"}

\* A worker that a step leaves alone accounts for what is left of its batch.
LEMMA WorkerKept ==
    ASSUME AccountsInv, TypeOK', NoneReturns, NEW r \in Runners, worker'[r] = worker[r],
           NEW k \in Keys, worker[r].pc \in AtBatch => KeyOf(r) = k /\ KeyOf(r)' = k,
           Keeps(k)
    PROVE  WorkerAccounts(r)'
<1> DEFINE w == worker[r]
           failed == w.base.failed + w.total.failed
           S == LeftUpTo(k, w.cursor)
           T == LeftUpTo(k, w.last) \ w.chunk
           n == batches[k].counts.failed
<1>1. CASE w.pc \notin AtBatch
    BY <1>1 DEF AccountsInv, WorkerAccounts, AtBatch
<1>2. CASE w.pc \in AtBatch
  <2>1. w \in Worker
      BY DEF AccountsInv, TypeOK
  <2>2. failed \in Nat /\ w.counts.failed \in Nat
      BY <2>1 DEF Worker, Counts
  <2>3. n \in Nat /\ n' \in Nat
      BY DEF AccountsInv, TypeOK, Batch, Counts
  <2>4. /\ Left(k)' \subseteq Left(k) /\ Left(k) \subseteq Bets
        /\ \A c : LeftUpTo(k, c)' \subseteq LeftUpTo(k, c)
      BY LeftShrinks DEF Keeps
  <2>5. w' = w
      OBVIOUS
  <2>6. /\ LeftUpTo(k, w.cursor)' \subseteq S /\ S \subseteq Bets
        /\ T' \subseteq T /\ T \subseteq Bets
    <3>1. LeftUpTo(k, w.cursor)' = {b \in Left(k)' : b <= w.cursor}
        BY <2>5 DEF LeftUpTo
    <3>2. LeftUpTo(k, w.last)' = {b \in Left(k)' : b <= w.last}
        BY <2>5 DEF LeftUpTo
    <3> QED BY <2>4, <2>5, <3>1, <3>2 DEF LeftUpTo
  <2>7. /\ Cardinality(Left(k)') <= Cardinality(Left(k))
        /\ Cardinality(S') <= Cardinality(S)
        /\ Cardinality(T') <= Cardinality(T)
        /\ {Cardinality(Left(k)'), Cardinality(Left(k)), Cardinality(S'), Cardinality(S),
            Cardinality(T'), Cardinality(T)} \subseteq Nat
    <3> HIDE DEF S, T
    <3>1. S' \subseteq S /\ T' \subseteq T
        BY <2>5, <2>6 DEF S
    <3>2. ASSUME NEW A \in SUBSET Bets, NEW B \in SUBSET A
          PROVE  /\ Cardinality(B) <= Cardinality(A)
                 /\ Cardinality(A) \in Nat /\ Cardinality(B) \in Nat
        BY BetSets
    <3>3. /\ Cardinality(Left(k)') <= Cardinality(Left(k))
          /\ Cardinality(Left(k)') \in Nat /\ Cardinality(Left(k)) \in Nat
        BY <2>4, <3>2
    <3>4. /\ Cardinality(S') <= Cardinality(S)
          /\ Cardinality(S') \in Nat /\ Cardinality(S) \in Nat
        BY <2>6, <3>1, <3>2
    <3>5. /\ Cardinality(T') <= Cardinality(T)
          /\ Cardinality(T') \in Nat /\ Cardinality(T) \in Nat
        BY <2>6, <3>1, <3>2
    <3> QED BY <3>3, <3>4, <3>5
  <2>8. /\ w.pc = "save" => w.chunk = {}
        /\ w.pc \in {"mark", "chunk"} => Cardinality(S) <= failed
        /\ w.pc \in {"bet", "save"} => Cardinality(T) <= failed + w.counts.failed
        /\ w.pc = "complete" => Cardinality(Left(k)) <= failed
        /\ failed <= n \/ Cardinality(Left(k)) <= n
      BY <1>2 DEF AccountsInv, WorkerAccounts, AtBatch
  <2>9. n <= n' \/ Cardinality(Left(k)') <= n'
      BY DEF Keeps
  <2> HIDE DEF S, T, n, failed
  <2>10. /\ w.pc \in {"mark", "chunk"} => Cardinality(S') <= failed
         /\ w.pc \in {"bet", "save"} => Cardinality(T') <= failed + w.counts.failed
         /\ w.pc = "complete" => Cardinality(Left(k)') <= failed
         /\ failed <= n' \/ Cardinality(Left(k)') <= n'
      BY <2>2, <2>3, <2>7, <2>8, <2>9
  <2> QED BY <1>2, <2>5, <2>8, <2>10 DEF WorkerAccounts, AtBatch, S, T, n, failed
<1> QED BY <1>1, <1>2

SameTasks ==
    /\ DOMAIN tasks' = DOMAIN tasks
    /\ \A i \in DOMAIN tasks : tasks'[i].key = tasks[i].key

LEMMA KeyOfWorker ==
    ASSUME TypeOK, NEW r \in Runners, worker[r].pc \notin {"idle", "next"}
    PROVE  /\ worker[r].task \in DOMAIN tasks
           /\ KeyOf(r) \in Keys
           /\ batches[KeyOf(r)] \in Batch
<1>1. worker[r].task \in DOMAIN tasks /\ tasks \in Seq(Task)
    BY DEF TypeOK
<1>2. tasks[worker[r].task] \in Task
    BY <1>1
<1> QED BY <1>1, <1>2 DEF KeyOf, Task, TypeOK

LEMMA CreatedKept ==
    ASSUME AccountsInv, TypeOK', NoneReturns, creating' = creating, SameTasks,
           \A k \in Keys : Keeps(k)
    PROVE  CreatedOnce'
<1>1. CreatedOnce /\ TypeOK
    BY DEF AccountsInv
<1>2. \A q \in creating : q.key \in Keys /\ q.eligible \subseteq Bets
    BY <1>1 DEF TypeOK, Request
<1>3. \A i \in DOMAIN tasks : tasks[i].key \in Keys
  <2>1. \A i \in DOMAIN tasks : tasks[i] \in Task
      BY <1>1 DEF TypeOK
  <2> QED BY <2>1 DEF Task
<1>4. \A k \in Keys : batches[k].eligible \subseteq Bets
    BY <1>1 DEF TypeOK, Batch
<1>5. \A q \in creating' : q.stored <=> batches'[q.key].status # "none"
    BY <1>1, <1>2 DEF CreatedOnce, Keeps
<1>6. \A i \in DOMAIN tasks' : batches'[tasks'[i].key].status # "none"
    BY <1>1, <1>3 DEF CreatedOnce, Keeps, SameTasks
<1>7. \A k \in Keys : batches'[k].status = "none" => batches'[k] = NoBatch
    BY <1>1 DEF CreatedOnce, Keeps
<1>8. \A k \in Keys : \A b \in batches'[k].eligible : bets'[b] # "none"
    BY <1>1, <1>4 DEF CreatedOnce, Keeps, NoneReturns
<1>9. \A q \in creating' : \A b \in q.eligible : bets'[b] # "none"
    BY <1>1, <1>2 DEF CreatedOnce, NoneReturns
<1> QED BY <1>1, <1>5, <1>6, <1>7, <1>8, <1>9 DEF CreatedOnce

\* What is left to show of a step of runner r.
LEMMA RunnerKept ==
    ASSUME AccountsInv, TypeOK', NoneReturns, NEW r \in Runners, creating' = creating,
           SameTasks, \A s \in Runners \ {r} : worker'[s] = worker[s],
           \A k \in Keys : Keeps(k) /\ BatchAccounts(k)',
           WorkerAccounts(r)'
    PROVE  AccountsInv'
<1>1. ASSUME NEW s \in Runners \ {r} PROVE WorkerAccounts(s)'
  <2>1. worker'[s] = worker[s] /\ TypeOK
      BY DEF AccountsInv
  <2>2. CASE worker[s].pc \in AtBatch
    <3>1. KeyOf(s) \in Keys /\ worker[s].task \in DOMAIN tasks
        BY <2>1, <2>2, KeyOfWorker DEF AtBatch
    <3>2. KeyOf(s)' = KeyOf(s)
        BY <2>1, <3>1 DEF KeyOf, SameTasks
    <3> QED BY <2>1, <3>1, <3>2, WorkerKept
  <2>3. CASE worker[s].pc \notin AtBatch
      BY <2>1, <2>3 DEF AccountsInv, WorkerAccounts, AtBatch
  <2> QED BY <2>2, <2>3
<1>2. CreatedOnce'
    BY CreatedKept
<1> QED BY <1>1, <1>2 DEF AccountsInv

LEMMA BatchesUntouched ==
    ASSUME AccountsInv, TypeOK', NoneReturns, batches' = batches
    PROVE  \A k \in Keys : Keeps(k) /\ BatchAccounts(k)'
<1> SUFFICES ASSUME NEW k \in Keys PROVE Keeps(k) /\ BatchAccounts(k)'
    OBVIOUS
<1>1. batches[k].counts.failed \in Nat
    BY DEF AccountsInv, TypeOK, Batch, Counts
<1>2. Keeps(k)
    BY <1>1 DEF Keeps
<1> QED BY <1>2, BatchKept

\* A worker that is not at a batch accounts for nothing.
LEMMA WorkerAway ==
    ASSUME NEW r \in Runners, worker'[r].pc \notin AtBatch,
           worker'[r].pc \in {"idle", "next", "load"} => worker'[r].total = NoCounts
    PROVE  WorkerAccounts(r)'
BY DEF WorkerAccounts, AtBatch

\* The runner between tasks, and errors and crashes of the execution.
LEMMA TaskStepAccounts ==
    ASSUME AccountsInv, TypeOK', NEW r \in Runners,
           \/ StartRun(r) \/ ClaimTask(r) \/ EndRun(r) \/ CompleteTask(r)
           \/ RetryOrFailTask(r) \/ ThrowError(r) \/ AbandonRun(r)
    PROVE  AccountsInv'
<1>1. /\ TypeOK
      /\ worker \in [Runners -> Worker]
      /\ tasks \in Seq(Task)
      /\ WorkerAccounts(r)
    BY DEF AccountsInv, TypeOK
<1>2. UNCHANGED <<money, batches, creating>>
    BY DEF StartRun, ClaimTask, EndRun, CompleteTask, RetryOrFailTask, ThrowError, AbandonRun
<1>3. NoneReturns
    BY <1>2 DEF NoneReturns, money
<1>4. \A s \in Runners \ {r} : worker'[s] = worker[s]
    BY <1>1 DEF StartRun, ClaimTask, EndRun, CompleteTask, RetryOrFailTask, ThrowError,
                AbandonRun, FinishTask
<1>5. SameTasks
  <2>1. CASE ClaimTask(r)
    <3>1. PICK i : tasks' = [tasks EXCEPT ![i].status = "processing"]
        BY <2>1 DEF ClaimTask
    <3> QED BY <1>1, <3>1 DEF SameTasks
  <2>2. CASE CompleteTask(r)
      BY <1>1, <2>2 DEF CompleteTask, SameTasks
  <2>3. CASE RetryOrFailTask(r)
    <3> DEFINE attempts == worker[r].tries + 1
               status == StatusAfter(attempts)
    <3>1. tasks' = [tasks EXCEPT ![worker[r].task].attempts = attempts,
                                 ![worker[r].task].status = status]
        BY <2>3 DEF RetryOrFailTask
    <3> HIDE DEF attempts, status
    <3> QED BY <1>1, <3>1 DEF SameTasks
  <2>4. CASE StartRun(r) \/ EndRun(r) \/ ThrowError(r) \/ AbandonRun(r)
      BY <2>4 DEF StartRun, EndRun, ThrowError, AbandonRun, SameTasks
  <2> QED BY <2>1, <2>2, <2>3, <2>4
<1>6. /\ worker'[r].pc \notin AtBatch
      /\ worker'[r].pc \in {"idle", "next", "load"} => worker'[r].total = NoCounts
  <2>1. worker[r].pc \in {"idle", "next", "load"} => worker[r].total = NoCounts
      BY <1>1 DEF WorkerAccounts
  <2>2. CASE StartRun(r)
    <3>1. PICK queue : worker' = [worker EXCEPT ![r].pc = "next", ![r].queue = queue]
        BY <2>2 DEF StartRun
    <3>2. worker[r].pc = "idle"
        BY <2>2 DEF StartRun
    <3> QED BY <1>1, <2>1, <3>1, <3>2 DEF AtBatch, Worker
  <2>3. CASE ClaimTask(r)
    <3>1. PICK e \in worker[r].queue :
            worker' = [worker EXCEPT ![r].pc = "load", ![r].task = e.id,
                                     ![r].tries = e.attempts, ![r].queue = @ \ {e}]
        BY <2>3 DEF ClaimTask
    <3>2. worker[r].pc = "next"
        BY <2>3 DEF ClaimTask
    <3> QED BY <1>1, <2>1, <3>1, <3>2 DEF AtBatch, Worker
  <2>4. CASE EndRun(r) \/ AbandonRun(r)
      BY <1>1, <2>4 DEF EndRun, AbandonRun, AtBatch, IdleWorker
  <2>5. CASE CompleteTask(r) \/ RetryOrFailTask(r)
      BY <1>1, <2>5 DEF CompleteTask, RetryOrFailTask, FinishTask, AtBatch, IdleWorker
  <2>6. CASE ThrowError(r)
      BY <1>1, <2>6 DEF ThrowError, AtBatch, Worker
  <2> QED BY <2>2, <2>3, <2>4, <2>5, <2>6
<1>7. WorkerAccounts(r)'
    BY <1>6, WorkerAway
<1>8. \A k \in Keys : Keeps(k) /\ BatchAccounts(k)'
    BY <1>2, <1>3, BatchesUntouched
<1> QED BY <1>2, <1>3, <1>4, <1>5, <1>7, <1>8, RunnerKept

\* The rest of the session makes no bet pending again.
LEMMA SessionAccounts ==
    ASSUME AccountsInv, TypeOK', SessionStep
    PROVE  AccountsInv'
<1>1. UNCHANGED <<batches, creating, tasks, worker>>
    BY DEF SessionStep, PlaceOrder, DeclareResult, ReadPendingBets, SettleBets
<1>2. NoneReturns
  <2>1. bets \in [Bets -> {"none", "pending", "won", "lost", "deleted"}]
      BY DEF AccountsInv, TypeOK
  <2>2. ASSUME NEW o \in Orders, PlaceOrder(o) PROVE NoneReturns
      BY <2>1, <2>2 DEF PlaceOrder, BetsOf, With, NoneReturns
  <2>3. ASSUME NEW winners \in SUBSET settling, SettleBets(winners) PROVE NoneReturns
    <3>1. CASE bets' = bets
        BY <3>1 DEF NoneReturns
    <3>2. CASE bets' = [b \in Bets |-> CASE b \in winners -> "won"
                                         [] b \in settling \ winners -> "lost"
                                         [] OTHER -> bets[b]]
        BY <3>2 DEF NoneReturns
    <3> QED BY <2>3, <3>1, <3>2 DEF SettleBets
  <2>4. CASE bets' = bets
      BY <2>4 DEF NoneReturns
  <2> QED BY <2>2, <2>3, <2>4 DEF SessionStep, DeclareResult, ReadPendingBets, money
<1>3. SameTasks
    BY <1>1 DEF SameTasks
<1>4. \A k \in Keys : Keeps(k) /\ BatchAccounts(k)'
    BY <1>1, <1>2, BatchesUntouched
<1>5. CreatedOnce'
    BY <1>1, <1>2, <1>3, <1>4, CreatedKept
<1>6. ASSUME NEW r \in Runners PROVE WorkerAccounts(r)'
  <2>1. TypeOK /\ WorkerAccounts(r)
      BY DEF AccountsInv
  <2>2. CASE worker[r].pc \in AtBatch
    <3>1. KeyOf(r) \in Keys
        BY <2>1, <2>2, KeyOfWorker DEF AtBatch
    <3>2. KeyOf(r)' = KeyOf(r)
        BY <1>1 DEF KeyOf
    <3> QED BY <1>1, <1>2, <1>4, <3>1, <3>2, WorkerKept
  <2>3. CASE worker[r].pc \notin AtBatch
      BY <1>1, <2>1, <2>3 DEF WorkerAccounts, AtBatch
  <2> QED BY <2>2, <2>3
<1> QED BY <1>4, <1>5, <1>6 DEF AccountsInv

\* Requests create a batch that no worker knows, fail it, or queue its task.
LEMMA AdminAccounts ==
    ASSUME AccountsInv, TypeOK', NEW k \in Keys, AdminStep(k)
    PROVE  AccountsInv'
<1>1. /\ TypeOK /\ CreatedOnce
      /\ batches \in [Keys -> Batch]
      /\ tasks \in Seq(Task)
      /\ \A q \in creating : q \in Request
    BY DEF AccountsInv, TypeOK
<1>2. UNCHANGED <<money, worker>>
    BY DEF AdminStep, Preflight, CreateBatch, ScheduleBatch, ScheduleFails, CreateEnds, Repost
<1>3. NoneReturns
    BY <1>2 DEF NoneReturns, money
\* The tasks there were keep their batch.
<1>4. DOMAIN tasks \subseteq DOMAIN tasks' /\ \A i \in DOMAIN tasks : tasks'[i].key = tasks[i].key
  <2>1. CASE tasks' = tasks
      BY <2>1
  <2>2. CASE Schedule(k)
      BY <1>1, <2>2 DEF Schedule
  <2> QED BY <2>1, <2>2 DEF AdminStep, Preflight, CreateBatch, ScheduleBatch, ScheduleFails,
                           CreateEnds, Repost
<1>5. ASSUME NEW r \in Runners, \A j \in Keys : batches[j].status # "none" => Keeps(j)
      PROVE  WorkerAccounts(r)'
  <2>1. CASE worker[r].pc \in AtBatch
    <3>1. KeyOf(r) \in Keys /\ worker[r].task \in DOMAIN tasks
        BY <1>1, <2>1, KeyOfWorker DEF AtBatch
    <3>2. KeyOf(r)' = KeyOf(r)
        BY <1>2, <1>4, <3>1 DEF KeyOf
    <3>3. batches[KeyOf(r)].status # "none"
        BY <1>1, <3>1 DEF CreatedOnce, KeyOf
    <3> QED BY <1>2, <1>3, <1>5, <3>1, <3>2, <3>3, WorkerKept
  <2>2. CASE worker[r].pc \notin AtBatch
      BY <1>2, <2>2 DEF AccountsInv, WorkerAccounts, AtBatch
  <2> QED BY <2>1, <2>2
<1>6. ASSUME batches' = batches, CreatedOnce'
      PROVE  AccountsInv'
    BY <1>3, <1>5, <1>6, BatchesUntouched DEF AccountsInv
<1>7. CASE Preflight(k)
  <2> DEFINE new == [key |-> k, stored |-> FALSE, observed |-> declared,
                     eligible |-> With("pending")]
  <2>1. /\ creating' = creating \union {new} /\ UNCHANGED <<batches, tasks>>
        /\ \A q \in creating : q.key # k
        /\ batches[k].status = "none"
      BY <1>7 DEF Preflight
  <2>2. /\ new.key = k /\ new.stored = FALSE
        /\ \A b \in new.eligible : bets[b] # "none"
      BY DEF With
  <2> HIDE DEF new
  <2>3. CreatedOnce'
      BY <1>1, <1>2, <2>1, <2>2 DEF CreatedOnce, money
  <2> QED BY <1>6, <2>1, <2>3
<1>8. ASSUME NEW q \in creating, creating' = creating \ {q}, batches' = batches,
             \/ tasks' = tasks
             \/ Schedule(k) /\ batches[k].status # "none"
      PROVE  AccountsInv'
  <2>1. \A i \in DOMAIN tasks' : batches[tasks'[i].key].status # "none"
      BY <1>1, <1>8 DEF CreatedOnce, Schedule
  <2>2. CreatedOnce'
      BY <1>1, <1>2, <1>8, <2>1 DEF CreatedOnce, money
  <2> QED BY <1>6, <1>8, <2>2
<1>9. CASE ScheduleBatch(k)
  <2> PICK q \in creating : /\ q.key = k /\ q.stored
                            /\ creating' = creating \ {q}
                            /\ Schedule(k) /\ batches' = batches
      BY <1>9 DEF ScheduleBatch
  <2>1. q \in creating /\ creating' = creating \ {q} /\ batches' = batches /\ Schedule(k)
      OBVIOUS
  <2>2. q.key = k /\ q.stored = TRUE
      BY <1>1 DEF Request
  <2>3. batches[k].status # "none"
      BY <1>1, <2>1, <2>2 DEF CreatedOnce
  <2> QED BY <1>8, <2>1, <2>3
<1>10. CASE CreateEnds(k)
    BY <1>8, <1>10 DEF CreateEnds
<1>11. CASE Repost(k)
  <2>1. /\ batches[k].status # "none" /\ Schedule(k)
        /\ UNCHANGED <<batches, creating>>
      BY <1>11 DEF Repost
  <2>2. \A i \in DOMAIN tasks' : batches[tasks'[i].key].status # "none"
      BY <1>1, <2>1 DEF CreatedOnce, Schedule
  <2>3. CreatedOnce'
      BY <1>1, <1>2, <2>1, <2>2 DEF CreatedOnce, money
  <2> QED BY <1>6, <2>1, <2>3
\* Only the batch of key k changes, with the request that stores or fails it.
<1>12. ASSUME UNCHANGED tasks, NEW batch, batches' = [batches EXCEPT ![k] = batch],
              batch.status # "none", \A b \in batch.eligible : bets[b] # "none",
              \A q \in creating' : q.key # k => q \in creating,
              \A p, q \in creating' : p.key = q.key => p = q,
              \A q \in creating' : q.key = k => q.stored,
              \A q \in creating' : \A b \in q.eligible : bets[b] # "none"
       PROVE  CreatedOnce'
  <2>1. \A j \in Keys : j # k => batches'[j] = batches[j]
      BY <1>1, <1>12
  <2>2. batches'[k] = batch
      BY <1>1, <1>12
  <2>3. \A q \in creating' : q.key \in Keys /\ (q.stored <=> batches'[q.key].status # "none")
    <3>1. \A q \in creating' : q.key \in Keys /\ q.stored \in BOOLEAN
        BY DEF TypeOK, Request
    <3> QED BY <1>1, <1>12, <2>1, <2>2, <3>1 DEF CreatedOnce
  <2>4. \A i \in DOMAIN tasks : batches'[tasks[i].key].status # "none"
    <3>1. \A i \in DOMAIN tasks : tasks[i] \in Task
        BY <1>1
    <3>2. \A i \in DOMAIN tasks : tasks[i].key \in Keys
        BY <3>1 DEF Task
    <3> QED BY <1>1, <1>12, <2>1, <2>2, <3>2 DEF CreatedOnce
  <2>5. \A j \in Keys : batches'[j].status = "none" => batches'[j] = NoBatch
      BY <1>1, <1>12, <2>1, <2>2 DEF CreatedOnce
  <2>6. \A j \in Keys : \A b \in batches'[j].eligible : bets'[b] # "none"
      BY <1>1, <1>2, <1>12, <2>1, <2>2 DEF CreatedOnce, money
  <2>7. \A q \in creating' : \A b \in q.eligible : bets'[b] # "none"
      BY <1>2, <1>12 DEF money
  <2> QED BY <1>12, <2>3, <2>4, <2>5, <2>6, <2>7 DEF CreatedOnce
<1>13. ASSUME NEW j \in Keys, batches'[j] = batches[j]
       PROVE  Keeps(j) /\ BatchAccounts(j)'
  <2>1. batches[j].counts.failed \in Nat
      BY DEF AccountsInv, TypeOK, Batch, Counts
  <2>2. Keeps(j)
      BY <1>13, <2>1 DEF Keeps
  <2> QED BY <1>3, <1>13, <2>2, BatchKept
<1>14. CASE CreateBatch(k)
  <2> PICK request \in creating :
        /\ request.key = k /\ ~request.stored
        /\ creating' = (creating \ {request}) \union {[request EXCEPT !.stored = TRUE]}
        /\ batches' = [batches EXCEPT ![k] =
             [NoBatch EXCEPT !.status = "pending", !.observed = request.observed,
                             !.eligible = request.eligible]]
        /\ UNCHANGED tasks
      BY <1>14 DEF CreateBatch
  <2> DEFINE stored == [request EXCEPT !.stored = TRUE]
             batch == [NoBatch EXCEPT !.status = "pending", !.observed = request.observed,
                                      !.eligible = request.eligible]
  <2>1. /\ request \in creating
        /\ creating' = (creating \ {request}) \union {stored}
        /\ batches' = [batches EXCEPT ![k] = batch]
        /\ UNCHANGED tasks
      OBVIOUS
  <2>2. /\ request.key = k /\ request.stored = FALSE /\ stored.key = k /\ stored.stored = TRUE
        /\ stored.eligible = request.eligible
      BY <1>1 DEF Request
  <2>3. /\ batch.status = "pending" /\ batch.eligible = request.eligible
        /\ batch.cursor = 0 /\ batch.counts = NoCounts
      BY DEF NoBatch
  <2> HIDE DEF stored, batch
  <2>4. batches[k].status = "none"
      BY <1>1, <2>1, <2>2 DEF CreatedOnce
  <2>5. \A q \in creating' : q = stored \/ (q \in creating /\ q.key # k)
      BY <1>1, <2>1, <2>2 DEF CreatedOnce
  <2>6. CreatedOnce'
    <3>1. \A b \in batch.eligible : bets[b] # "none"
        BY <1>1, <2>3 DEF CreatedOnce
    <3>2. \A p, q \in creating' : p.key = q.key => p = q
        BY <1>1, <2>2, <2>5 DEF CreatedOnce
    <3>3. \A q \in creating' : \A b \in q.eligible : bets[b] # "none"
        BY <1>1, <2>2, <2>5 DEF CreatedOnce
    <3> QED BY <1>12, <2>1, <2>2, <2>3, <2>5, <3>1, <3>2, <3>3
  <2>7. \A j \in Keys : j # k => Keeps(j) /\ BatchAccounts(j)'
    <3>1. \A j \in Keys : j # k => batches'[j] = batches[j]
        BY <1>1, <2>1
    <3> QED BY <1>13, <3>1
  <2>8. BatchAccounts(k)'
    <3>1. batches'[k] = batch
        BY <1>1, <2>1
    <3>2. LeftUpTo(k, 0)' = {}
      <4>1. \A b \in Left(k)' : b \in Bets
          BY DEF Left, With
      <4>2. \A b \in Bets : b \in Nat /\ b # 0
          BY OrdersAssumption
      <4>3. \A b \in Bets : ~ (b <= 0)
          BY <4>2
      <4> QED BY <4>1, <4>3 DEF LeftUpTo
    <3>3. batches'[k].cursor = 0 /\ batches'[k].counts.failed = 0
        <4>1. NoCounts.failed = 0
            BY DEF NoCounts
        <4>2. batch.counts.failed = 0
            BY <2>3, <4>1
        <4> QED BY <2>3, <3>1, <4>2
    <3>4. LeftUpTo(k, batches[k].cursor)' = {}
        BY <3>2, <3>3 DEF LeftUpTo
    <3>5. Cardinality(LeftUpTo(k, batches[k].cursor)') = 0
        BY <3>4, FS_EmptySet
    <3> QED BY <2>3, <3>1, <3>3, <3>5 DEF BatchAccounts
  <2>9. \A r \in Runners : WorkerAccounts(r)'
      BY <1>5, <2>4, <2>7
  <2> QED BY <2>6, <2>7, <2>8, <2>9 DEF AccountsInv
<1>15. CASE ScheduleFails(k)
  <2> PICK request \in creating :
        /\ request.key = k /\ request.stored
        /\ creating' = creating \ {request}
        /\ batches' = [batches EXCEPT ![k].status = "failed"]
        /\ UNCHANGED tasks
      BY <1>15 DEF ScheduleFails
  <2> DEFINE batch == [batches[k] EXCEPT !.status = "failed"]
  <2>1. /\ request \in creating
        /\ creating' = creating \ {request}
        /\ batches' = [batches EXCEPT ![k] = batch]
        /\ UNCHANGED tasks
      OBVIOUS
  <2>2. request.key = k /\ request.stored = TRUE
      BY <1>1 DEF Request
  <2>3. /\ batch.status = "failed" /\ batch.eligible = batches[k].eligible
        /\ batch.cursor = batches[k].cursor /\ batch.counts = batches[k].counts
      BY <1>1 DEF Batch
  <2> HIDE DEF batch
  <2>4. batches[k].status # "none"
      BY <1>1, <2>1, <2>2 DEF CreatedOnce
  <2>5. \A q \in creating' : q \in creating /\ q.key # k
      BY <1>1, <2>1, <2>2 DEF CreatedOnce
  <2>6. CreatedOnce'
    <3>1. \A b \in batch.eligible : bets[b] # "none"
        BY <1>1, <2>3 DEF CreatedOnce
    <3>2. \A p, q \in creating' : p.key = q.key => p = q
        BY <1>1, <2>5 DEF CreatedOnce
    <3>3. \A q \in creating' : \A b \in q.eligible : bets[b] # "none"
        BY <1>1, <2>5 DEF CreatedOnce
    <3> QED BY <1>12, <2>1, <2>3, <2>5, <3>1, <3>2, <3>3
  <2>7. \A j \in Keys : j # k => Keeps(j) /\ BatchAccounts(j)'
    <3>1. \A j \in Keys : j # k => batches'[j] = batches[j]
        BY <1>1, <2>1
    <3> QED BY <1>13, <3>1
  <2>8. batches'[k] = batch
      BY <1>1, <2>1
  <2>9. Keeps(k) /\ BatchAccounts(k)'
    <3>1. batches[k].counts.failed \in Nat
        BY <1>1 DEF Batch, Counts
    <3>2. Keeps(k)
        BY <2>3, <2>4, <2>8, <3>1 DEF Keeps
    <3> QED BY <1>3, <2>3, <2>8, <3>2, BatchKept
  <2>10. \A r \in Runners : WorkerAccounts(r)'
      BY <1>5, <2>7, <2>9
  <2> QED BY <2>6, <2>7, <2>9, <2>10 DEF AccountsInv
<1> QED BY <1>7, <1>9, <1>10, <1>11, <1>14, <1>15 DEF AdminStep

\* Reading and marking a batch, and its chunks.
LEMMA ReadStepAccounts ==
    ASSUME AccountsInv, TypeOK', NEW r \in Runners,
           LoadBatch(r) \/ MarkProcessing(r) \/ ReadChunk(r) \/ MarkFailed(r)
    PROVE  AccountsInv'
<1> DEFINE w == worker[r]
           failed == w.base.failed + w.total.failed
<1>1. /\ TypeOK /\ WorkerAccounts(r)
      /\ worker \in [Runners -> Worker]
      /\ batches \in [Keys -> Batch]
      /\ w \in Worker
    BY DEF AccountsInv, TypeOK
<1>2. /\ w.pc \in {"load", "mark", "chunk", "catch"}
      /\ UNCHANGED <<money, creating, tasks>>
      /\ \A s \in Runners \ {r} : worker'[s] = worker[s]
    BY <1>1 DEF LoadBatch, MarkProcessing, ReadChunk, MarkFailed
<1>3. PICK k \in Keys : KeyOf(r) = k /\ batches[k] \in Batch
    BY <1>1, <1>2, KeyOfWorker
<1>4. NoneReturns /\ SameTasks
    BY <1>2 DEF NoneReturns, SameTasks, money
<1>5. worker'[r].task = w.task => KeyOf(r)' = k
    BY <1>2, <1>3 DEF KeyOf
<1>6. batches[k].status # "none"
  <2>1. w.task \in DOMAIN tasks
      BY <1>1, <1>2, KeyOfWorker
  <2> QED BY <1>3, <2>1 DEF AccountsInv, CreatedOnce, KeyOf
<1>7. ASSUME NEW j \in Keys, batches'[j] = batches[j]
      PROVE  Keeps(j) /\ BatchAccounts(j)'
  <2>1. batches[j].counts.failed \in Nat
      BY <1>1 DEF Batch, Counts
  <2>2. Keeps(j)
      BY <1>7, <2>1 DEF Keeps
  <2> QED BY <1>4, <1>7, <2>2, BatchKept
<1>8. ASSUME NEW status \in {"processing", "failed"},
             batches' = [batches EXCEPT ![k].status = status]
      PROVE  \A j \in Keys : Keeps(j) /\ BatchAccounts(j)'
  <2>1. \A j \in Keys : j # k => batches'[j] = batches[j]
      BY <1>1, <1>8
  <2>2. /\ batches'[k].status = status /\ batches'[k].cursor = batches[k].cursor
        /\ batches'[k].counts = batches[k].counts /\ batches'[k].eligible = batches[k].eligible
      BY <1>1, <1>3, <1>8 DEF Batch
  <2>3. batches[k].counts.failed \in Nat
      BY <1>3 DEF Batch, Counts
  <2>4. Keeps(k)
      BY <1>6, <1>8, <2>2, <2>3 DEF Keeps
  <2>5. BatchAccounts(k)'
      BY <1>3, <1>4, <1>8, <2>2, BatchKept
  <2> QED BY <1>7, <2>1, <2>4, <2>5
<1>9. failed \in Nat
    BY <1>1 DEF Worker, Counts
\* What is left, as sets that do not depend on the step.
<1>10. UNCHANGED bets
    BY <1>2 DEF money
<1>11. CASE LoadBatch(r)
  <2>1. w.pc = "load" /\ batches' = batches
      BY <1>11 DEF LoadBatch
  <2>2. \A j \in Keys : Keeps(j) /\ BatchAccounts(j)'
      BY <1>7, <2>1
  <2>3. WorkerAccounts(r)'
    <3>1. CASE batches[k].status = "completed"
      <4>1. worker'[r].pc = "done"
          BY <1>1, <1>3, <1>11, <3>1 DEF LoadBatch, Worker
      <4> QED BY <4>1, WorkerAway DEF AtBatch
    <3>2. CASE batches[k].status # "completed"
      <4>1. /\ worker'[r].pc = "mark" /\ worker'[r].cursor = batches[k].cursor
            /\ worker'[r].base = batches[k].counts /\ worker'[r].total = w.total
            /\ worker'[r].task = w.task
          BY <1>1, <1>3, <1>11, <3>2 DEF LoadBatch, Worker
      <4>2. w.total = NoCounts
          BY <1>1, <2>1 DEF WorkerAccounts
      <4>3. batches[k].counts.failed \in Nat
          BY <1>3 DEF Batch, Counts
      <4>4. worker'[r].base.failed + worker'[r].total.failed = batches[k].counts.failed
          BY <4>1, <4>2, <4>3 DEF NoCounts
      <4>5. Cardinality(LeftUpTo(k, batches[k].cursor)) <= batches[k].counts.failed
          BY <1>3 DEF AccountsInv, BatchAccounts
      <4>6. LeftUpTo(KeyOf(r), worker[r].cursor)' = LeftUpTo(k, batches[k].cursor)
          BY <1>5, <1>10, <2>1, <4>1 DEF LeftUpTo, Left, With
      <4> QED BY <1>5, <2>1, <4>1, <4>3, <4>4, <4>5, <4>6 DEF WorkerAccounts
    <3> QED BY <3>1, <3>2
  <2> QED BY <1>2, <1>4, <2>2, <2>3, RunnerKept
<1>12. CASE MarkProcessing(r)
  <2>1. w.pc = "mark" /\ batches' = [batches EXCEPT ![k].status = "processing"]
      BY <1>3, <1>12 DEF MarkProcessing
  <2>2. \A j \in Keys : Keeps(j) /\ BatchAccounts(j)'
      BY <1>8, <2>1
  <2>3. /\ worker'[r].pc = "chunk" /\ worker'[r].cursor = w.cursor /\ worker'[r].base = w.base
        /\ worker'[r].total = w.total /\ worker'[r].task = w.task
      BY <1>1, <1>12 DEF MarkProcessing, Worker
  <2>4. batches'[k].counts = batches[k].counts /\ batches'[k].eligible = batches[k].eligible
      BY <1>1, <1>3, <2>1 DEF Batch
  <2>5. /\ LeftUpTo(KeyOf(r), worker[r].cursor)' = LeftUpTo(k, w.cursor)
        /\ Left(KeyOf(r))' = Left(k)
      BY <1>5, <1>10, <2>3, <2>4 DEF LeftUpTo, Left, With
  <2>6. WorkerAccounts(r)'
      BY <1>1, <1>3, <1>5, <2>1, <2>3, <2>4, <2>5 DEF WorkerAccounts
  <2> QED BY <1>2, <1>4, <2>2, <2>6, RunnerKept
<1>13. CASE ReadChunk(r)
  <2> DEFINE chunk == NextChunk(w.cursor)
  <2>1. w.pc = "chunk" /\ batches' = batches
      BY <1>13 DEF ReadChunk
  <2>2. \A j \in Keys : Keeps(j) /\ BatchAccounts(j)'
      BY <1>7, <2>1
  <2>3. /\ Cardinality(LeftUpTo(k, w.cursor)) <= failed
        /\ \/ failed <= batches[k].counts.failed
           \/ Cardinality(Left(k)) <= batches[k].counts.failed
      BY <1>1, <1>3, <2>1 DEF WorkerAccounts
  <2>4. /\ chunk \subseteq {b \in With("pending") : b > w.cursor}
        /\ \A last \in chunk : \A b \in With("pending") :
             w.cursor < b /\ b <= last => b \in chunk
        /\ chunk = {} => \A b \in With("pending") : b <= w.cursor
    <3>1. w.cursor \in Nat
        BY <1>1 DEF Worker
    <3> QED BY <3>1, ChunkIsNext
  <2> HIDE DEF chunk
  <2>5. CASE chunk = {}
    <3>1. /\ worker'[r].pc = "complete" /\ worker'[r].base = w.base
          /\ worker'[r].total = w.total /\ worker'[r].task = w.task
        BY <1>1, <1>13, <2>5 DEF ReadChunk, Worker, chunk
    <3>2. Left(k) = LeftUpTo(k, w.cursor)
        BY <2>4, <2>5 DEF Left, LeftUpTo
    <3>3. Left(KeyOf(r))' = Left(k)
        BY <1>5, <1>10, <2>1, <3>1 DEF Left, With
    <3>4. WorkerAccounts(r)'
        BY <1>5, <2>1, <2>3, <3>1, <3>2, <3>3 DEF WorkerAccounts
    <3> QED BY <1>2, <1>4, <2>2, <3>4, RunnerKept
  <2>6. CASE chunk # {}
    <3>1. PICK last \in chunk :
            worker' = [worker EXCEPT ![r].pc = "bet", ![r].chunk = chunk,
                                     ![r].last = last, ![r].counts = NoCounts]
        BY <1>13, <2>6 DEF ReadChunk, chunk
    <3>2. /\ worker'[r].pc = "bet" /\ worker'[r].base = w.base
          /\ worker'[r].total = w.total /\ worker'[r].task = w.task
          /\ worker'[r].chunk = chunk /\ worker'[r].last = last
          /\ worker'[r].counts = NoCounts
        BY <1>1, <3>1 DEF Worker
    <3>3. /\ LeftUpTo(KeyOf(r), worker[r].last)' = LeftUpTo(k, last)
          /\ Left(KeyOf(r))' = Left(k)
        BY <1>5, <1>10, <2>1, <3>2 DEF LeftUpTo, Left, With
    <3>4. LeftUpTo(k, last) \ chunk \subseteq LeftUpTo(k, w.cursor)
      <4>1. \A b \in LeftUpTo(k, last) \ chunk :
              b \in Left(k) /\ b \in With("pending") /\ b \in Bets /\ b <= last
          BY DEF LeftUpTo, Left, With
      <4>2. \A b \in LeftUpTo(k, last) \ chunk : ~ (w.cursor < b)
          BY <2>4, <4>1
      <4>3. \A b \in Bets : b \in Nat /\ w.cursor \in Nat
          BY <1>1, OrdersAssumption DEF Worker
      <4>4. \A b \in LeftUpTo(k, last) \ chunk : b <= w.cursor
          BY <4>1, <4>2, <4>3
      <4> QED BY <4>1, <4>4 DEF LeftUpTo
    <3>5. /\ Cardinality(LeftUpTo(k, last) \ chunk) <= Cardinality(LeftUpTo(k, w.cursor))
          /\ Cardinality(LeftUpTo(k, last) \ chunk) \in Nat
          /\ Cardinality(LeftUpTo(k, w.cursor)) \in Nat
      <4>1. LeftUpTo(k, w.cursor) \subseteq Bets
          BY DEF LeftUpTo, Left, With
      <4> QED BY <3>4, <4>1, BetSets
    <3>6. Cardinality(LeftUpTo(k, last) \ chunk) <= failed + 0
        BY <1>9, <2>3, <3>5
    <3>7. WorkerAccounts(r)'
        BY <1>5, <2>1, <2>3, <3>2, <3>3, <3>6 DEF WorkerAccounts, NoCounts
    <3> QED BY <1>2, <1>4, <2>2, <3>7, RunnerKept
  <2> QED BY <2>5, <2>6
<1>14. CASE MarkFailed(r)
  <2>1. batches' = [batches EXCEPT ![k].status = "failed"]
      BY <1>3, <1>14 DEF MarkFailed
  <2>2. \A j \in Keys : Keeps(j) /\ BatchAccounts(j)'
      BY <1>8, <2>1
  <2>3. worker'[r].pc = "done"
      BY <1>1, <1>14 DEF MarkFailed, Worker
  <2>4. WorkerAccounts(r)'
      BY <2>3, WorkerAway DEF AtBatch
  <2> QED BY <1>2, <1>4, <2>2, <2>4, RunnerKept
<1> QED BY <1>11, <1>12, <1>13, <1>14

\* A bet of the chunk is refunded, found gone, or counted as failed.
LEMMA BetStepAccounts ==
    ASSUME AccountsInv, TypeOK', NEW r \in Runners, NEW b \in Bets,
           RefundBet(r, b) \/ SkipBet(r, b) \/ FailBet(r, b)
    PROVE  AccountsInv'
<1> DEFINE w == worker[r]
           failed == w.base.failed + w.total.failed
<1>1. /\ TypeOK /\ WorkerAccounts(r)
      /\ worker \in [Runners -> Worker]
      /\ w \in Worker
      /\ bets \in [Bets -> {"none", "pending", "won", "lost", "deleted"}]
    BY DEF AccountsInv, TypeOK
<1>2. /\ w.pc = "bet" /\ b \in w.chunk
      /\ UNCHANGED <<batches, creating, tasks>>
    BY DEF RefundBet, SkipBet, FailBet, NextBet
<1>3. PICK k \in Keys : KeyOf(r) = k
    BY <1>1, <1>2, KeyOfWorker
<1>4. NoneReturns
  <2>1. CASE bets' = bets
      BY <2>1 DEF NoneReturns
  <2>2. CASE bets' = [bets EXCEPT ![b] = "deleted"]
      BY <1>1, <2>2 DEF NoneReturns
  <2> QED BY <2>1, <2>2 DEF RefundBet, SkipBet, FailBet, money
<1>5. SameTasks /\ KeyOf(r) = k
    BY <1>2, <1>3 DEF SameTasks
<1>6. \A j \in Keys : Keeps(j) /\ BatchAccounts(j)'
    BY <1>2, <1>4, BatchesUntouched
\* A bet that is not counted as failed is not left.
<1>7. PICK what \in {"refunded", "skipped", "failed"} :
        Count(r, b, what) /\ (what = "failed" \/ b \notin Left(k)')
  <2>1. CASE RefundBet(r, b)
    <3>1. bets'[b] = "deleted"
        BY <1>1, <2>1 DEF RefundBet
    <3>2. b \notin Left(k)'
        BY <3>1 DEF Left, With
    <3> QED BY <2>1, <3>2 DEF RefundBet
  <2>2. CASE SkipBet(r, b)
    <3>1. bets'[b] # "pending"
        BY <2>2 DEF SkipBet, CanDelete, money
    <3>2. b \notin Left(k)'
        BY <3>1 DEF Left, With
    <3> QED BY <2>2, <3>2 DEF SkipBet
  <2>3. CASE FailBet(r, b)
      BY <2>3 DEF FailBet
  <2> QED BY <2>1, <2>2, <2>3
<1>8. /\ worker'[r].pc = IF w.chunk \ {b} = {} THEN "save" ELSE "bet"
      /\ worker'[r].chunk = w.chunk \ {b} /\ worker'[r].last = w.last
      /\ worker'[r].base = w.base /\ worker'[r].total = w.total /\ worker'[r].task = w.task
      /\ worker'[r].counts = [w.counts EXCEPT ![what] = @ + 1]
      /\ \A s \in Runners \ {r} : worker'[s] = worker[s]
  <2> DEFINE left == w.chunk \ {b}
             pc == IF left = {} THEN "save" ELSE "bet"
  <2>1. worker' = [worker EXCEPT ![r].chunk = left, ![r].pc = pc, ![r].counts[what] = @ + 1]
      BY <1>7 DEF Count
  <2> HIDE DEF left, pc
  <2>2. /\ worker'[r].pc = pc
        /\ worker'[r].chunk = left /\ worker'[r].last = w.last
        /\ worker'[r].base = w.base /\ worker'[r].total = w.total /\ worker'[r].task = w.task
        /\ worker'[r].counts = [w.counts EXCEPT ![what] = @ + 1]
        /\ \A s \in Runners \ {r} : worker'[s] = worker[s]
      BY <1>1, <2>1 DEF Worker
  <2> QED BY <2>2 DEF left, pc
<1>9. /\ w.counts.failed \in Nat
      /\ worker'[r].counts.failed = IF what = "failed" THEN w.counts.failed + 1
                                   ELSE w.counts.failed
    BY <1>1, <1>8 DEF Worker, Counts
<1>10. KeyOf(r)' = k
    BY <1>2, <1>3, <1>8 DEF KeyOf
<1> DEFINE T == LeftUpTo(k, w.last) \ w.chunk
           U == LeftUpTo(KeyOf(r), worker[r].last)' \ worker'[r].chunk
<1>11. /\ Left(k)' \subseteq Left(k) /\ Left(k) \subseteq Bets
       /\ \A c : LeftUpTo(k, c)' \subseteq LeftUpTo(k, c)
    BY <1>2, <1>4, LeftShrinks
<1>12. LeftUpTo(KeyOf(r), worker[r].last)' = {c \in Left(k)' : c <= w.last}
    BY <1>8, <1>10 DEF LeftUpTo
<1>13. /\ Cardinality(T) <= failed + w.counts.failed
       /\ \/ failed <= batches[k].counts.failed
          \/ Cardinality(Left(k)) <= batches[k].counts.failed
    BY <1>1, <1>2, <1>3 DEF WorkerAccounts
<1>14. failed \in Nat /\ batches[k].counts.failed \in Nat
  <2>1. failed \in Nat
      BY <1>1 DEF Worker, Counts
  <2>2. batches[k] \in Batch
      BY <1>1 DEF TypeOK
  <2> QED BY <2>1, <2>2 DEF Batch, Counts
<1>15. T \subseteq Bets /\ U \subseteq Bets
    BY <1>11, <1>12 DEF LeftUpTo
<1>16. IsFiniteSet(T) /\ Cardinality(T) \in Nat /\ Cardinality(U) \in Nat
    BY <1>15, BetSets
<1>17. Cardinality(U) <= failed + worker'[r].counts.failed
  <2>1. CASE what # "failed"
    <3>1. U \subseteq T
        BY <1>7, <1>8, <1>11, <1>12, <2>1 DEF LeftUpTo
    <3>2. Cardinality(U) <= Cardinality(T)
        BY <1>15, <3>1, BetSets
    <3> HIDE DEF T, U, failed
    <3> QED BY <1>9, <1>13, <1>14, <1>16, <2>1, <3>2
  <2>2. CASE what = "failed"
    <3>1. U \subseteq T \union {b}
        BY <1>8, <1>11, <1>12 DEF LeftUpTo
    <3> HIDE DEF T, U, failed
    <3>2. /\ Cardinality(U) <= Cardinality(T \union {b})
          /\ Cardinality(T \union {b}) \in Nat
        BY <1>15, <3>1, BetSets
    <3>3. Cardinality(T \union {b}) = IF b \in T THEN Cardinality(T) ELSE Cardinality(T) + 1
        BY <1>16, FS_AddElement
    <3>4. Cardinality(T \union {b}) <= Cardinality(T) + 1
        BY <1>16, <3>3
    <3> QED BY <1>9, <1>13, <1>14, <1>16, <2>2, <3>2, <3>4
  <2> QED BY <2>1, <2>2
<1>18. \/ failed <= batches[k].counts.failed
       \/ Cardinality(Left(k)') <= batches[k].counts.failed
  <2>1. /\ Cardinality(Left(k)') <= Cardinality(Left(k))
        /\ Cardinality(Left(k)') \in Nat /\ Cardinality(Left(k)) \in Nat
      BY <1>11, BetSets
  <2> HIDE DEF failed
  <2> QED BY <1>13, <1>14, <2>1
<1>19. Left(KeyOf(r))' = Left(k)'
    BY <1>10 DEF Left
<1>20. WorkerAccounts(r)'
  <2>1. /\ worker'[r].pc \in {"bet", "save"}
        /\ worker'[r].pc = "save" => worker'[r].chunk = {}
      BY <1>8
  <2>2. worker'[r].base.failed + worker'[r].total.failed = failed
      BY <1>8
  <2>3. batches'[KeyOf(r)'] = batches[k]
      BY <1>2, <1>10
  <2> HIDE DEF failed
  <2> QED BY <1>17, <1>18, <1>19, <2>1, <2>2, <2>3 DEF WorkerAccounts
<1> QED BY <1>2, <1>4, <1>5, <1>6, <1>8, <1>20, RunnerKept

\* The counters a run adds to those of the batch.
LEMMA PlusFailed ==
    ASSUME NEW c \in Counts, NEW d \in Counts
    PROVE  Plus(c, d).failed = c.failed + d.failed
BY DEF Plus, Counts

\* A chunk is saved: the batch and the worker move to its last bet and count its
\* failures.
LEMMA SaveAccounts ==
    ASSUME AccountsInv, TypeOK', NEW r \in Runners, SaveChunkProgress(r)
    PROVE  AccountsInv'
<1> DEFINE w == worker[r]
           failed == w.base.failed + w.total.failed
<1>1. /\ TypeOK /\ WorkerAccounts(r)
      /\ worker \in [Runners -> Worker]
      /\ batches \in [Keys -> Batch]
      /\ w \in Worker
    BY DEF AccountsInv, TypeOK
<1>2. /\ w.pc = "save"
      /\ UNCHANGED <<money, creating, tasks>>
    BY DEF SaveChunkProgress
<1>3. PICK k \in Keys : KeyOf(r) = k /\ batches[k] \in Batch
    BY <1>1, <1>2, KeyOfWorker
<1>4. NoneReturns /\ SameTasks /\ UNCHANGED bets
    BY <1>2 DEF NoneReturns, SameTasks, money
<1> DEFINE n == batches[k].counts.failed
           m == w.counts.failed
<1>5. failed \in Nat /\ n \in Nat /\ m \in Nat
    BY <1>1, <1>3 DEF Worker, Counts, Batch
<1>6. /\ worker'[r].pc = "chunk" /\ worker'[r].cursor = w.last
      /\ worker'[r].base = w.base /\ worker'[r].task = w.task
      /\ worker'[r].total = Plus(w.total, w.counts)
      /\ \A s \in Runners \ {r} : worker'[s] = worker[s]
    BY <1>1 DEF SaveChunkProgress, Worker
<1>7. /\ batches'[k].cursor = w.last
      /\ batches'[k].counts = Plus(batches[k].counts, w.counts)
      /\ batches'[k].status = batches[k].status
      /\ batches'[k].eligible = batches[k].eligible
      /\ \A j \in Keys : j # k => batches'[j] = batches[j]
    BY <1>1, <1>3 DEF SaveChunkProgress, Batch
<1>8. /\ batches'[k].counts.failed = n + m
      /\ worker'[r].base.failed + worker'[r].total.failed = failed + m
  <2>1. w.counts \in Counts /\ w.total \in Counts /\ batches[k].counts \in Counts
        /\ w.base \in Counts
      BY <1>1, <1>3 DEF Worker, Batch
  <2>2. worker'[r].total.failed = w.total.failed + m /\ batches'[k].counts.failed = n + m
      BY <1>6, <1>7, <2>1, PlusFailed
  <2>3. w.base.failed \in Nat /\ w.total.failed \in Nat
      BY <2>1 DEF Counts
  <2> QED BY <1>5, <1>6, <2>2, <2>3
<1>9. KeyOf(r)' = k
    BY <1>2, <1>3, <1>6 DEF KeyOf
<1>10. Left(k)' = Left(k) /\ \A c : LeftUpTo(k, c)' = LeftUpTo(k, c)
    BY <1>4, <1>7 DEF Left, LeftUpTo, With
<1> DEFINE L == Cardinality(Left(k))
           T == Cardinality(LeftUpTo(k, w.last))
<1>11. T \in Nat /\ L \in Nat /\ T <= L
  <2>1. LeftUpTo(k, w.last) \subseteq Left(k) /\ Left(k) \subseteq Bets
      BY DEF LeftUpTo, Left, With
  <2> QED BY <2>1, BetSets
<1>12. T <= failed + m /\ (failed <= n \/ L <= n)
  <2>1. w.chunk = {} /\ Cardinality(LeftUpTo(k, w.last) \ w.chunk) <= failed + m
        /\ (failed <= n \/ L <= n)
      BY <1>1, <1>2, <1>3 DEF WorkerAccounts
  <2>2. LeftUpTo(k, w.last) \ w.chunk = LeftUpTo(k, w.last)
      BY <2>1
  <2> QED BY <2>1, <2>2
<1>13. batches[k].status = "completed" => L <= n
    BY DEF AccountsInv, BatchAccounts
<1>14. BatchAccounts(k)'
  <2>1. T <= n + m /\ (batches[k].status = "completed" => L <= n + m)
    <3> HIDE DEF T, L, n, m, failed
    <3> QED BY <1>5, <1>11, <1>12, <1>13
  <2> QED BY <1>7, <1>8, <1>10, <2>1 DEF BatchAccounts
<1>15. Keeps(k)
  <2>1. batches[k].status # "none"
    <3>1. w.task \in DOMAIN tasks
        BY <1>1, <1>2, KeyOfWorker
    <3> QED BY <1>3, <3>1 DEF AccountsInv, CreatedOnce, KeyOf
  <2>2. n <= n + m
    <3> HIDE DEF n, m
    <3> QED BY <1>5
  <2> QED BY <1>7, <1>8, <2>1, <2>2 DEF Keeps
<1>16. ASSUME NEW j \in Keys, j # k PROVE Keeps(j) /\ BatchAccounts(j)'
  <2>1. batches'[j] = batches[j] /\ batches[j].counts.failed \in Nat
      BY <1>1, <1>7, <1>16 DEF Batch, Counts
  <2>2. Keeps(j)
      BY <2>1 DEF Keeps
  <2> QED BY <1>4, <2>1, <2>2, BatchKept
<1>17. WorkerAccounts(r)'
  <2>1. /\ T <= failed + m
        /\ failed + m <= n + m \/ L <= n + m
    <3> HIDE DEF T, L, n, m, failed
    <3> QED BY <1>5, <1>11, <1>12
  <2>2. /\ LeftUpTo(KeyOf(r), worker[r].cursor)' = LeftUpTo(k, w.last)
        /\ Left(KeyOf(r))' = Left(k)
    <3>1. Left(KeyOf(r))' = Left(k)
        BY <1>4, <1>7, <1>9 DEF Left, With
    <3> QED BY <1>6, <3>1 DEF LeftUpTo
  <2> QED BY <1>6, <1>8, <1>9, <2>1, <2>2 DEF WorkerAccounts
<1> QED BY <1>2, <1>4, <1>6, <1>14, <1>15, <1>16, <1>17, RunnerKept

\* The batch takes the counters of the run that completes it: all that is left
\* are failures of that run and of those before it.
LEMMA CompleteAccounts ==
    ASSUME AccountsInv, TypeOK', NEW r \in Runners, MarkCompleted(r)
    PROVE  AccountsInv'
<1> DEFINE w == worker[r]
           failed == w.base.failed + w.total.failed
<1>1. /\ TypeOK /\ WorkerAccounts(r)
      /\ worker \in [Runners -> Worker]
      /\ batches \in [Keys -> Batch]
      /\ w \in Worker
    BY DEF AccountsInv, TypeOK
<1>2. /\ w.pc = "complete"
      /\ UNCHANGED <<money, creating, tasks>>
    BY DEF MarkCompleted
<1>3. PICK k \in Keys : KeyOf(r) = k /\ batches[k] \in Batch
    BY <1>1, <1>2, KeyOfWorker
<1>4. NoneReturns /\ SameTasks /\ UNCHANGED bets
    BY <1>2 DEF NoneReturns, SameTasks, money
<1>5. /\ worker'[r].pc = "done"
      /\ \A s \in Runners \ {r} : worker'[s] = worker[s]
    BY <1>1 DEF MarkCompleted, Worker
<1>6. /\ batches'[k].cursor = batches[k].cursor
      /\ batches'[k].counts = Plus(w.base, w.total)
      /\ batches'[k].status = "completed"
      /\ batches'[k].eligible = batches[k].eligible
      /\ \A j \in Keys : j # k => batches'[j] = batches[j]
    BY <1>1, <1>3 DEF MarkCompleted, Batch
<1>7. batches'[k].counts.failed = failed
  <2>1. w.total \in Counts /\ w.base \in Counts
      BY <1>1 DEF Worker
  <2> QED BY <1>6, <2>1, PlusFailed
<1>8. Left(k)' = Left(k) /\ \A c : LeftUpTo(k, c)' = LeftUpTo(k, c)
    BY <1>4, <1>6 DEF Left, LeftUpTo, With
<1>9. Cardinality(Left(k)) <= failed
    BY <1>1, <1>2, <1>3 DEF WorkerAccounts
<1>10. Keeps(k)
  <2>1. w.task \in DOMAIN tasks
      BY <1>1, <1>2, KeyOfWorker
  <2>2. batches[k].status # "none"
      BY <1>3, <2>1 DEF AccountsInv, CreatedOnce, KeyOf
  <2> QED BY <1>6, <1>7, <1>8, <1>9, <2>2 DEF Keeps
<1>11. BatchAccounts(k)'
  <2>1. LeftUpTo(k, batches[k].cursor) \subseteq Left(k) /\ Left(k) \subseteq Bets
      BY DEF LeftUpTo, Left, With
  <2>2. /\ Cardinality(LeftUpTo(k, batches[k].cursor)) <= Cardinality(Left(k))
        /\ Cardinality(LeftUpTo(k, batches[k].cursor)) \in Nat
        /\ Cardinality(Left(k)) \in Nat
      BY <2>1, BetSets
  <2>3. failed \in Nat
      BY <1>1 DEF Worker, Counts
  <2>4. Cardinality(LeftUpTo(k, batches[k].cursor)) <= failed
    <3> HIDE DEF failed
    <3> QED BY <1>9, <2>2, <2>3
  <2> QED BY <1>6, <1>7, <1>8, <1>9, <2>4 DEF BatchAccounts
<1>12. ASSUME NEW j \in Keys, j # k PROVE Keeps(j) /\ BatchAccounts(j)'
  <2>1. batches'[j] = batches[j] /\ batches[j].counts.failed \in Nat
      BY <1>1, <1>6, <1>12 DEF Batch, Counts
  <2>2. Keeps(j)
      BY <2>1 DEF Keeps
  <2> QED BY <1>4, <2>1, <2>2, BatchKept
<1>13. WorkerAccounts(r)'
    BY <1>5, WorkerAway DEF AtBatch
<1> QED BY <1>2, <1>4, <1>5, <1>10, <1>11, <1>12, <1>13, RunnerKept

LEMMA InitAccounts == Init => AccountsInv
<1> SUFFICES ASSUME Init PROVE AccountsInv
    OBVIOUS
<1>1. TypeOK
    BY InitType
<1>2. CreatedOnce
    BY DEF Init, CreatedOnce, NoBatch
<1>3. \A k \in Keys : BatchAccounts(k)
  <2> SUFFICES ASSUME NEW k \in Keys PROVE BatchAccounts(k)
      OBVIOUS
  <2>1. batches[k] = NoBatch
      BY DEF Init
  <2>2. batches[k].eligible = {} /\ batches[k].counts.failed = 0
        /\ batches[k].status # "completed"
      BY <2>1 DEF NoBatch, NoCounts
  <2>3. LeftUpTo(k, batches[k].cursor) = {}
      BY <2>2 DEF LeftUpTo, Left
  <2>4. Cardinality(LeftUpTo(k, batches[k].cursor)) = 0
      BY <2>3, FS_EmptySet
  <2> QED BY <2>2, <2>4 DEF BatchAccounts
<1>4. \A r \in Runners : WorkerAccounts(r)
    BY DEF Init, IdleWorker, WorkerAccounts
<1> QED BY <1>1, <1>2, <1>3, <1>4 DEF AccountsInv

LEMMA NextAccounts == AccountsInv /\ [Next]_vars => AccountsInv'
<1> SUFFICES ASSUME AccountsInv, [Next]_vars PROVE AccountsInv'
    OBVIOUS
<1>1. TypeOK'
    BY NextType DEF AccountsInv
<1>2. CASE SessionStep
    BY <1>1, <1>2, SessionAccounts
<1>3. ASSUME NEW k \in Keys, AdminStep(k) PROVE AccountsInv'
    BY <1>1, <1>3, AdminAccounts
<1>4. ASSUME NEW r \in Runners, RunnerStep(r) PROVE AccountsInv'
    BY <1>1, <1>4, TaskStepAccounts, ReadStepAccounts, BetStepAccounts, SaveAccounts,
       CompleteAccounts DEF RunnerStep
<1>5. ASSUME NEW r \in Runners, ThrowError(r) \/ AbandonRun(r) PROVE AccountsInv'
    BY <1>1, <1>5, TaskStepAccounts
<1>6. ASSUME NEW r \in Runners, NEW b \in Bets, FailBet(r, b) PROVE AccountsInv'
    BY <1>1, <1>6, BetStepAccounts
<1>7. CASE UNCHANGED vars
  <2>1. CreatedOnce /\ CreatedOnce'
      BY <1>7 DEF AccountsInv, CreatedOnce, vars, money
  <2>2. \A k \in Keys : BatchAccounts(k)'
      BY <1>7 DEF AccountsInv, BatchAccounts, LeftUpTo, Left, With, vars, money
  <2>3. \A r \in Runners : WorkerAccounts(r)'
      BY <1>7 DEF AccountsInv, WorkerAccounts, LeftUpTo, Left, With, KeyOf, vars, money
  <2> QED BY <1>1, <2>1, <2>2, <2>3 DEF AccountsInv
<1> QED BY <1>2, <1>3, <1>4, <1>5, <1>6, <1>7 DEF Next

\* A completed batch leaves no bet it was created for pending, but those it
\* counts as failed, however many runs process it at once and wherever they
\* fail or die (executeRevertBatch and its cursor).
THEOREM CompletedLeavesNoneBehind == Spec => []CompletedLeavesNone
<1>1. AccountsInv => CompletedLeavesNone
    BY DEF AccountsInv, BatchAccounts, Left, CompletedLeavesNone
<1> QED BY <1>1, InitAccounts, NextAccounts, PTL DEF Spec
-----------------------------------------------------------------------------
(* The money of a session: exposure, balance and ledger *)

Amounts == [balance : Int, exposure : Int]
Staked(u, S) == Total(OwnedBy(u, S))

LEMMA OwnedIsSummable ==
    ASSUME NEW u, NEW S \in SUBSET Bets, NEW f \in [Bets -> Nat]
    PROVE  /\ Summable(f, OwnedBy(u, S))
           /\ SumFunctionOnSet(f, OwnedBy(u, S)) \in Int
<1>1. IsFiniteSet(OwnedBy(u, S)) /\ OwnedBy(u, S) \subseteq Bets
    BY OrdersAssumption, FS_Subset DEF OwnedBy
<1>2. Summable(f, OwnedBy(u, S))
    BY <1>1 DEF Summable
<1> QED BY <1>2, SumType

LEMMA StakedType ==
    ASSUME NEW u, NEW S \in SUBSET Bets
    PROVE  Summable(Stake, OwnedBy(u, S)) /\ Staked(u, S) \in Int
BY OwnedIsSummable, OrdersAssumption DEF Staked, Total

LEMMA StakedUnion ==
    ASSUME NEW u, NEW S \in SUBSET Bets, NEW T \in SUBSET Bets, S \intersect T = {}
    PROVE  Staked(u, S \union T) = Staked(u, S) + Staked(u, T)
<1> PICK mine, part : mine = OwnedBy(u, S) /\ part = OwnedBy(u, T)
    OBVIOUS
<1>1. OwnedBy(u, S \union T) = mine \union part /\ mine \intersect part = {}
    BY DEF OwnedBy
<1>2. Summable(Stake, mine \union part)
    <2>1. PICK both \in SUBSET Bets : both = S \union T
        OBVIOUS
    <2>2. Summable(Stake, OwnedBy(u, both))
        BY StakedType
    <2> QED BY <1>1, <2>1, <2>2
<1> QED BY <1>1, <1>2, SumUnion DEF Staked, Total

LEMMA StakedMinus ==
    ASSUME NEW u, NEW S \in SUBSET Bets, NEW T \in SUBSET S
    PROVE  Staked(u, S \ T) = Staked(u, S) - Staked(u, T)
<1> PICK mine, part : mine = OwnedBy(u, S) /\ part = OwnedBy(u, T)
    OBVIOUS
<1>1. OwnedBy(u, S \ T) = mine \ part /\ part \in SUBSET mine
    BY DEF OwnedBy
<1>2. Summable(Stake, mine)
    BY StakedType
<1>3. SumFunctionOnSet(Stake, mine \ part)
        = SumFunctionOnSet(Stake, mine) - SumFunctionOnSet(Stake, part)
    BY <1>1, <1>2, SumMinus
<1> QED BY <1>1, <1>3 DEF Staked, Total

LEMMA StakedOne ==
    ASSUME NEW b \in Bets
    PROVE  /\ Total({b}) = Stake[b]
           /\ \A u : Staked(u, {b}) = IF Owner(b) = u THEN Stake[b] ELSE 0
<1>1. Stake[b] \in Int /\ IsFiniteSet({b})
    <2>1. Stake[b] \in Int
        BY OrdersAssumption
    <2> QED BY <2>1, FS_Singleton
<1>2. Summable(Stake, {b})
    BY <1>1 DEF Summable
<1>3. Total({b}) = Stake[b]
    <2>1. SumFunctionOnSet(Stake, {b} \ {b}) = SumFunctionOnSet(Stake, {b}) - Stake[b]
        BY <1>2, SumRemove
    <2>2. {b} \ {b} = {} /\ SumFunctionOnSet(Stake, {}) = 0 /\ SumFunctionOnSet(Stake, {b}) \in Int
        BY <1>2, SumEmpty, SumType
    <2> QED BY <1>1, <2>1, <2>2 DEF Total
<1>4. ASSUME NEW u PROVE Staked(u, {b}) = IF Owner(b) = u THEN Stake[b] ELSE 0
    <2>1. OwnedBy(u, {b}) = IF Owner(b) = u THEN {b} ELSE {}
        BY DEF OwnedBy
    <2>2. Total({}) = 0
        BY SumEmpty DEF Total
    <2> QED BY <1>3, <2>1, <2>2 DEF Staked
<1> QED BY <1>3, <1>4

\* The bets of an order are its payer's.
LEMMA StakedOrder ==
    ASSUME NEW o \in Orders, NEW u
    PROVE  Staked(u, BetsOf(o)) = IF Payer[o] = u THEN Total(BetsOf(o)) ELSE 0
<1>1. OwnedBy(u, BetsOf(o)) = IF Payer[o] = u THEN BetsOf(o) ELSE {}
    BY DEF OwnedBy, BetsOf, Owner
<1>2. Total({}) = 0
    BY SumEmpty DEF Total
<1> QED BY <1>1, <1>2 DEF Staked

LEMMA OrderTotal ==
    ASSUME NEW o \in Orders
    PROVE  BetsOf(o) \in SUBSET Bets /\ Total(BetsOf(o)) \in Int
<1>1. BetsOf(o) \in SUBSET Bets
    BY DEF BetsOf
<1>2. IsFiniteSet(BetsOf(o))
    BY <1>1, OrdersAssumption, FS_Subset
<1>3. Summable(Stake, BetsOf(o))
    <2>1. \A b \in Bets : Stake[b] \in Int
        BY OrdersAssumption
    <2> QED BY <1>1, <1>2, <2>1 DEF Summable
<1> QED BY <1>1, <1>3, SumType DEF Total

\* Money moves when an order is placed, a pass is written or a bet refunded.
LEMMA MoneyCases ==
    ASSUME [Next]_vars
    PROVE  \/ \E o \in Orders : PlaceOrder(o)
           \/ \E winners \in SUBSET settling : SettleBets(winners)
           \/ \E r \in Runners, b \in Bets : RefundBet(r, b)
           \/ ReadPendingBets
           \/ UNCHANGED <<money, settling>>
<1>1. ASSUME NEW k \in Keys, AdminStep(k) PROVE UNCHANGED <<money, settling>>
    BY <1>1 DEF AdminStep, Preflight, CreateBatch, ScheduleBatch, ScheduleFails, CreateEnds,
       Repost, world
<1>2. ASSUME NEW r \in Runners,
             \/ RunnerStep(r) /\ \A b \in Bets : ~RefundBet(r, b)
             \/ ThrowError(r) \/ AbandonRun(r) \/ \E b \in Bets : FailBet(r, b)
      PROVE  UNCHANGED <<money, settling>>
    BY <1>2 DEF RunnerStep, StartRun, ClaimTask, EndRun, CompleteTask, RetryOrFailTask, LoadBatch,
       MarkProcessing, ReadChunk, SkipBet, SaveChunkProgress, MarkCompleted, MarkFailed,
       ThrowError, AbandonRun, FailBet, world
<1>3. ASSUME NEW mode, DeclareResult(mode) PROVE UNCHANGED <<money, settling>>
    BY <1>3 DEF DeclareResult
<1>4. UNCHANGED vars => UNCHANGED <<money, settling>>
    BY DEF vars, world
<1> QED BY <1>1, <1>2, <1>3, <1>4 DEF Next, SessionStep, RunnerStep

\* What a settlement pass has read is still pending, or was removed meanwhile.
ReadIsPending == \A b \in settling : bets[b] \in {"pending", "deleted"}

ExposureInv ==
    /\ TypeOK /\ ReadIsPending
    /\ wallet \in [Users -> Amounts]
    /\ ExposureMatchesPending

LEMMA ExposureAsSums ==
    ExposureMatchesPending <=> \A u \in Users : wallet[u].exposure = Staked(u, With("pending"))
BY DEF ExposureMatchesPending, Staked

LEMMA PlaceOrderKeepsExposure ==
    ASSUME ExposureInv, TypeOK', NEW o \in Orders, PlaceOrder(o)
    PROVE  ExposureInv'
<1>1. /\ wallet \in [Users -> Amounts] /\ bets \in [Bets -> {"none", "pending", "won", "lost", "deleted"}]
      /\ Payer[o] \in Users /\ BetsOf(o) \in SUBSET Bets /\ Total(BetsOf(o)) \in Int
      /\ With("pending") \in SUBSET Bets /\ BetsOf(o) \subseteq With("none")
    BY OrdersAssumption, OrderTotal DEF ExposureInv, TypeOK, With, PlaceOrder
<1> PICK amount : amount = Total(BetsOf(o))
    OBVIOUS
<1>2. wallet' = [wallet EXCEPT ![Payer[o]] = [balance  |-> @.balance - amount,
                                             exposure |-> @.exposure + amount]]
    BY DEF PlaceOrder
<1>3. wallet' \in [Users -> Amounts]
    BY <1>1, <1>2 DEF Amounts
<1>4. With("pending")' = With("pending") \union BetsOf(o)
    BY <1>1 DEF PlaceOrder, With, BetsOf
<1>5. With("pending") \intersect BetsOf(o) = {}
    BY <1>1 DEF With
<1>6. ASSUME NEW u \in Users PROVE wallet'[u].exposure = Staked(u, With("pending"))'
    <2>1. wallet'[u].exposure = wallet[u].exposure + IF Payer[o] = u THEN amount ELSE 0
        BY <1>1, <1>2 DEF Amounts
    <2>2. Staked(u, With("pending") \union BetsOf(o))
            = Staked(u, With("pending")) + Staked(u, BetsOf(o))
        BY <1>1, <1>5, StakedUnion
    <2>3. wallet[u].exposure = Staked(u, With("pending"))
        BY ExposureAsSums DEF ExposureInv
    <2>4. Staked(u, BetsOf(o)) = IF Payer[o] = u THEN amount ELSE 0
        BY StakedOrder
    <2>5. wallet'[u].exposure = Staked(u, With("pending") \union BetsOf(o))
        BY <2>1, <2>2, <2>3, <2>4
    <2> QED BY <1>4, <2>5
<1>7. ReadIsPending'
    BY <1>1 DEF ExposureInv, ReadIsPending, PlaceOrder, With, BetsOf, TypeOK, world
<1> QED BY <1>3, <1>6, <1>7 DEF ExposureInv, ExposureMatchesPending, Staked

LEMMA SettleBetsKeepsExposure ==
    ASSUME ExposureInv, TypeOK', NEW winners \in SUBSET settling, SettleBets(winners)
    PROVE  ExposureInv'
<1>1. /\ wallet \in [Users -> Amounts] /\ settling \in SUBSET Bets /\ ReadIsPending
      /\ With("pending") \in SUBSET Bets /\ settling' = {}
    BY DEF ExposureInv, TypeOK, With, SettleBets
<1>2. ReadIsPending'
    BY <1>1 DEF ReadIsPending
<1>3. CASE UNCHANGED <<bets, credits, wallet>>
    <2>1. wallet' \in [Users -> Amounts] /\ With("pending")' = With("pending")
        BY <1>1, <1>3 DEF With
    <2>2. ExposureMatchesPending'
        BY <1>3, <2>1 DEF ExposureInv, ExposureMatchesPending
    <2> QED BY <1>2, <2>1, <2>2 DEF ExposureInv
<1>4. CASE \A b \in settling : bets[b] # "deleted"
    <2>1. settling \subseteq With("pending")
        BY <1>1, <1>4 DEF ReadIsPending, With
    <2>2. /\ bets' = [b \in Bets |-> CASE b \in winners -> "won"
                                      [] b \in settling \ winners -> "lost"
                                      [] OTHER -> bets[b]]
          /\ wallet' = [u \in Users |->
               [balance  |-> wallet[u].balance + SumFunctionOnSet(Payout, OwnedBy(u, winners)),
                exposure |-> wallet[u].exposure - Staked(u, settling)]]
        BY <1>4 DEF SettleBets, Staked
    <2>3. With("pending")' = With("pending") \ settling
        BY <2>1, <2>2 DEF With
    <2>4. \A u \in Users : /\ SumFunctionOnSet(Payout, OwnedBy(u, winners)) \in Int
                           /\ Staked(u, settling) \in Int
        <3>1. winners \in SUBSET Bets /\ Payout \in [Bets -> Nat]
            BY <1>1, OrdersAssumption
        <3> QED BY <1>1, <3>1, OwnedIsSummable, StakedType
    <2>5. wallet' \in [Users -> Amounts]
        BY <1>1, <2>2, <2>4 DEF Amounts
    <2>6. ASSUME NEW u \in Users PROVE wallet'[u].exposure = Staked(u, With("pending"))'
        <3>1. wallet[u].exposure = Staked(u, With("pending"))
            BY ExposureAsSums DEF ExposureInv
        <3>2. Staked(u, With("pending") \ settling) = Staked(u, With("pending")) - Staked(u, settling)
            BY <1>1, <2>1, StakedMinus
        <3>3. wallet'[u].exposure = Staked(u, With("pending") \ settling)
            BY <2>2, <3>1, <3>2
        <3> QED BY <2>3, <3>3
    <2> QED BY <1>2, <2>5, <2>6 DEF ExposureInv, ExposureMatchesPending, Staked
<1> QED BY <1>3, <1>4 DEF SettleBets

LEMMA RefundKeepsExposure ==
    ASSUME ExposureInv, TypeOK', NEW r \in Runners, NEW b \in Bets, RefundBet(r, b)
    PROVE  ExposureInv'
<1>1. /\ wallet \in [Users -> Amounts] /\ Owner(b) \in Users /\ Stake[b] \in Int
      /\ b \in With("pending") /\ With("pending") \in SUBSET Bets
      /\ bets \in [Bets -> {"none", "pending", "won", "lost", "deleted"}]
    <2>1. OrderOf[b] \in Orders /\ Stake[b] \in Int
        BY OrdersAssumption
    <2>2. Owner(b) \in Users
        BY <2>1, OrdersAssumption DEF Owner
    <2>3. bets[b] = "pending"
        BY DEF RefundBet, CanDelete
    <2> QED BY <2>1, <2>2, <2>3 DEF ExposureInv, TypeOK, With
<1>2. wallet' = [wallet EXCEPT ![Owner(b)] = [balance  |-> @.balance + Stake[b],
                                             exposure |-> @.exposure - Stake[b]]]
    BY DEF RefundBet
<1>3. wallet' \in [Users -> Amounts]
    BY <1>1, <1>2 DEF Amounts
<1>4. With("pending")' = With("pending") \ {b}
    BY <1>1 DEF RefundBet, With
<1>5. ASSUME NEW u \in Users PROVE wallet'[u].exposure = Staked(u, With("pending"))'
    <2>1. wallet'[u].exposure = wallet[u].exposure - IF Owner(b) = u THEN Stake[b] ELSE 0
        BY <1>1, <1>2 DEF Amounts
    <2>2. wallet[u].exposure = Staked(u, With("pending"))
        BY ExposureAsSums DEF ExposureInv
    <2>3. Staked(u, With("pending") \ {b}) = Staked(u, With("pending")) - Staked(u, {b})
        BY <1>1, StakedMinus
    <2>4. wallet'[u].exposure = Staked(u, With("pending") \ {b})
        BY <2>1, <2>2, <2>3, StakedOne
    <2> QED BY <1>4, <2>4
<1>6. ReadIsPending'
    BY <1>1 DEF ExposureInv, TypeOK, ReadIsPending, RefundBet, world
<1> QED BY <1>3, <1>5, <1>6 DEF ExposureInv, ExposureMatchesPending, Staked

LEMMA ExposureNext == ExposureInv /\ [Next]_vars => ExposureInv'
<1> SUFFICES ASSUME ExposureInv, [Next]_vars PROVE ExposureInv'
    OBVIOUS
<1>1. TypeOK'
    BY NextType DEF ExposureInv
<1>2. CASE ReadPendingBets
    <2>1. UNCHANGED <<bets, wallet>> /\ settling' \subseteq With("pending")
        BY <1>2 DEF ReadPendingBets, money
    <2>2. ReadIsPending' /\ With("pending")' = With("pending")
        BY <2>1 DEF ReadIsPending, With
    <2> QED BY <1>1, <2>1, <2>2 DEF ExposureInv, ExposureMatchesPending
<1>3. CASE UNCHANGED <<money, settling>>
    <2>1. UNCHANGED <<bets, wallet, settling>>
        BY <1>3 DEF money
    <2>2. ReadIsPending' /\ With("pending")' = With("pending")
        BY <2>1 DEF ReadIsPending, With, ExposureInv
    <2> QED BY <1>1, <2>1, <2>2 DEF ExposureInv, ExposureMatchesPending
<1> QED BY <1>1, <1>2, <1>3, MoneyCases, PlaceOrderKeepsExposure, SettleBetsKeepsExposure,
           RefundKeepsExposure

LEMMA ExposureInit == Init => ExposureInv
<1> SUFFICES ASSUME Init PROVE ExposureInv
    OBVIOUS
<1>1. wallet \in [Users -> Amounts] /\ ReadIsPending
    BY OrdersAssumption DEF Init, Amounts, ReadIsPending
<1>2. \A u \in Users : OwnedBy(u, With("pending")) = {}
    BY DEF Init, With, OwnedBy
<1>3. ExposureMatchesPending
    BY <1>2, SumEmpty DEF Init, ExposureMatchesPending, Total
<1> QED BY <1>1, <1>3, InitType DEF ExposureInv

\* The exposure of every wallet is the stakes of the user's pending bets, for
\* any orders, batches and overlapping runs: where a revert and a settlement meet
\* on a bet, one of their transactions finds it gone and leaves the money alone.
THEOREM ExposureIsPending == Spec => []ExposureMatchesPending
<1>1. ExposureInv => ExposureMatchesPending
    BY DEF ExposureInv
<1> QED BY <1>1, ExposureInit, ExposureNext, PTL DEF Spec

-----------------------------------------------------------------------------
(* The balance and the documents that are left *)

\* What the debit of an order is charged for, less what was given back of it.
NetOf(d, deleted) ==
    [o \in Orders |-> d[o].amount
       - (IF d[o].bets = {} THEN 0 ELSE Total(BetsOf(o) \intersect deleted))]
Net == NetOf(debits, With("deleted"))
Debited(u, amounts) == SumFunctionOnSet(amounts, {o \in Orders : Payer[o] = u})
PaidTo(u, paid) == SumFunctionOnSet(paid, OwnedBy(u, Bets))

\* An order is placed as a whole, and its debit names the bets of it that are not
\* deleted: it charges for all of them until it goes with the last.
DebitOK(o) ==
    /\ (\E b \in BetsOf(o) : bets[b] = "none") => BetsOf(o) \subseteq With("none")
    /\ debits[o].bets = {b \in BetsOf(o) : bets[b] \notin {"none", "deleted"}}
    /\ debits[o].amount = IF debits[o].bets = {} THEN 0 ELSE Total(BetsOf(o))

DebitsOK ==
    /\ debits \in [Orders -> [amount : Int, bets : SUBSET Bets]]
    /\ \A o \in Orders : DebitOK(o)

LedgerInv == ExposureInv /\ DebitsOK /\ LedgerExplainsBalance

Explained(u, w, net, c) == w.balance = Funds[u] - Debited(u, net) + PaidTo(u, c)

LEMMA LedgerAsSums ==
    LedgerExplainsBalance <=> \A u \in Users : Explained(u, wallet[u], Net, credits)
<1>1. [o \in Orders |-> debits[o].amount - StillCharged(o)] = Net
    BY DEF Net, NetOf, StillCharged
<1> QED BY <1>1 DEF LedgerExplainsBalance, Explained, Debited, PaidTo

LEMMA DebitedType ==
    ASSUME NEW u, NEW amounts \in [Orders -> Int]
    PROVE  /\ Summable(amounts, {o \in Orders : Payer[o] = u})
           /\ Debited(u, amounts) \in Int
<1>1. IsFiniteSet({o \in Orders : Payer[o] = u})
    BY OrdersAssumption, FS_Subset
<1>2. Summable(amounts, {o \in Orders : Payer[o] = u})
    BY <1>1 DEF Summable
<1> QED BY <1>2, SumType DEF Debited

LEMMA DebitChanges ==
    ASSUME NEW u, NEW before \in [Orders -> Int], NEW after \in [Orders -> Int], NEW o \in Orders,
           \A p \in Orders : p # o => before[p] = after[p]
    PROVE  Debited(u, after) = Debited(u, before) + IF Payer[o] = u THEN after[o] - before[o] ELSE 0
<1> PICK S : S = {p \in Orders : Payer[p] = u}
    OBVIOUS
<1>1. Summable(before, S) /\ Summable(after, S) /\ Debited(u, before) \in Int
    BY DebitedType
<1>2. Debited(u, before) = SumFunctionOnSet(before, S) /\ Debited(u, after) = SumFunctionOnSet(after, S)
    BY DEF Debited
<1>3. CASE Payer[o] = u
    <2>1. o \in S /\ AgreeBut(before, after, S, o)
        BY <1>3 DEF AgreeBut
    <2>2. SumFunctionOnSet(after, S) = SumFunctionOnSet(before, S) - before[o] + after[o]
        BY <1>1, <2>1, SumChange
    <2> QED BY <1>1, <1>2, <1>3, <2>2
<1>4. CASE Payer[o] # u
    <2>1. Agree(before, after, S)
        BY <1>4 DEF Agree
    <2>2. SumFunctionOnSet(before, S) = SumFunctionOnSet(after, S)
        BY <1>1, <2>1, SumSame
    <2> QED BY <1>1, <1>2, <1>4, <2>2
<1> QED BY <1>3, <1>4

\* Stakes of part of an order.
LEMMA PartTotal ==
    ASSUME NEW S \in SUBSET Bets
    PROVE  /\ Summable(Stake, S) /\ Total(S) \in Int
           /\ \A b \in Bets \ S : Total(S \union {b}) = Total(S) + Stake[b]
<1>1. \A T \in SUBSET Bets : Summable(Stake, T) /\ Total(T) \in Int
    <2> TAKE T \in SUBSET Bets
    <2>1. \A b \in T : Stake[b] \in Int
        BY OrdersAssumption
    <2>2. Summable(Stake, T)
        <3>1. IsFiniteSet(T)
            BY OrdersAssumption, FS_Subset
        <3> QED BY <2>1, <3>1 DEF Summable
    <2>3. SumFunctionOnSet(Stake, T) \in Int
        BY <2>2, SumType
    <2> QED BY <2>2, <2>3 DEF Total
<1>2. ASSUME NEW b \in Bets \ S PROVE Total(S \union {b}) = Total(S) + Stake[b]
    <2> PICK T \in SUBSET Bets : T = S \union {b}
        OBVIOUS
    <2>1. Summable(Stake, T) /\ b \in T /\ T \ {b} = S
        BY <1>1
    <2>2. SumFunctionOnSet(Stake, T \ {b}) = SumFunctionOnSet(Stake, T) - Stake[b]
        BY <2>1, SumRemove
    <2>3. Stake[b] \in Int /\ Total(T) \in Int /\ Total(S) \in Int
        BY <1>1, OrdersAssumption
    <2>4. Total(S) = Total(T) - Stake[b]
        BY <2>1, <2>2 DEF Total
    <2> QED BY <2>3, <2>4
<1> QED BY <1>1, <1>2

LEMMA NetType ==
    ASSUME NEW d \in [Orders -> [amount : Int, bets : SUBSET Bets]], NEW deleted
    PROVE  NetOf(d, deleted) \in [Orders -> Int]
<1> SUFFICES ASSUME NEW o \in Orders
             PROVE  d[o].amount - (IF d[o].bets = {} THEN 0
                                   ELSE Total(BetsOf(o) \intersect deleted)) \in Int
    BY DEF NetOf
<1>1. Total(BetsOf(o) \intersect deleted) \in Int
    BY PartTotal DEF BetsOf
<1> QED BY <1>1

LEMMA TermsAreIntegers ==
    ASSUME LedgerInv, NEW u \in Users
    PROVE  /\ Explained(u, wallet[u], Net, credits)
           /\ wallet[u].balance \in Int /\ Funds[u] \in Int
           /\ Net \in [Orders -> Int]
           /\ Debited(u, Net) \in Int /\ PaidTo(u, credits) \in Int
<1>1. Net \in [Orders -> Int]
    BY NetType DEF LedgerInv, DebitsOK, Net
<1>2. PaidTo(u, credits) \in Int
    BY OwnedIsSummable DEF LedgerInv, ExposureInv, TypeOK, PaidTo
<1>3. Debited(u, Net) \in Int
    BY <1>1, DebitedType
<1>4. wallet[u].balance \in Int
    BY DEF LedgerInv, ExposureInv, Amounts
<1>5. Explained(u, wallet[u], Net, credits)
    BY LedgerAsSums DEF LedgerInv
<1>6. Funds[u] \in Int
    BY OrdersAssumption
<1> QED BY <1>1, <1>2, <1>3, <1>4, <1>5, <1>6

\* One order charges more, and its payer has as much less.
LEMMA ChargeKeepsLedger ==
    ASSUME LedgerInv, DebitsOK', NEW o \in Orders, NEW change \in Int, credits' = credits,
           Net'[o] = Net[o] + change, \A p \in Orders : p # o => Net'[p] = Net[p],
           \A u \in Users : wallet'[u].balance
                              = wallet[u].balance - IF Payer[o] = u THEN change ELSE 0
    PROVE  LedgerExplainsBalance'
<1> PICK before, after : before = Net /\ after = Net'
    OBVIOUS
<1>1. before \in [Orders -> Int] /\ after \in [Orders -> Int]
    BY NetType DEF LedgerInv, DebitsOK, Net
<1>2. ASSUME NEW u \in Users PROVE Explained(u, wallet'[u], after, credits')
    <2>1. Debited(u, after) = Debited(u, before) + IF Payer[o] = u THEN after[o] - before[o] ELSE 0
        BY <1>1, DebitChanges
    <2>2. /\ Explained(u, wallet[u], before, credits) /\ wallet[u].balance \in Int
          /\ Funds[u] \in Int /\ Debited(u, before) \in Int /\ PaidTo(u, credits) \in Int
        BY TermsAreIntegers
    <2> PICK paid \in Int : paid = IF Payer[o] = u THEN change ELSE 0
        OBVIOUS
    <2>3. after[o] - before[o] = change
        BY <1>1
    <2>4. Debited(u, after) = Debited(u, before) + paid
        BY <2>1, <2>3
    <2>5. wallet'[u].balance = wallet[u].balance - paid
        OBVIOUS
    <2> QED BY <2>2, <2>4, <2>5 DEF Explained
<1>3. [o2 \in Orders |-> debits[o2].amount - StillCharged(o2)]' = Net'
    BY DEF Net, NetOf, StillCharged
<1> QED BY <1>2, <1>3 DEF LedgerExplainsBalance, Explained, Debited, PaidTo

LEMMA PlaceOrderKeepsLedger ==
    ASSUME LedgerInv, ExposureInv', NEW o \in Orders, PlaceOrder(o)
    PROVE  LedgerInv'
<1> PICK amount : amount = Total(BetsOf(o))
    OBVIOUS
<1>1. /\ wallet \in [Users -> Amounts] /\ Payer[o] \in Users /\ amount \in Int
      /\ BetsOf(o) \in SUBSET Bets /\ BetsOf(o) \subseteq With("none")
      /\ bets \in [Bets -> {"none", "pending", "won", "lost", "deleted"}]
      /\ debits \in [Orders -> [amount : Int, bets : SUBSET Bets]] /\ DebitsOK
    BY OrdersAssumption, OrderTotal DEF LedgerInv, ExposureInv, TypeOK, PlaceOrder, DebitsOK
<1>2. /\ wallet' = [wallet EXCEPT ![Payer[o]] = [balance  |-> @.balance - amount,
                                                exposure |-> @.exposure + amount]]
      /\ debits' = [debits EXCEPT ![o] = [amount |-> amount, bets |-> BetsOf(o)]]
      /\ bets' = [b \in Bets |-> IF OrderOf[b] = o THEN "pending" ELSE bets[b]]
      /\ credits' = credits
    BY DEF PlaceOrder
<1>3. debits[o].bets = {} /\ debits[o].amount = 0
    <2>1. DebitOK(o)
        BY <1>1 DEF DebitsOK
    <2> QED BY <1>1, <2>1 DEF DebitOK, With
<1>4. BetsOf(o) = {} => amount = 0
    BY SumEmpty DEF Total
<1>5. /\ debits' \in [Orders -> [amount : Int, bets : SUBSET Bets]]
      /\ debits'[o] = [amount |-> amount, bets |-> BetsOf(o)]
      /\ \A p \in Orders : p # o => debits'[p] = debits[p]
    BY <1>1, <1>2
<1>6. /\ \A b \in BetsOf(o) : bets'[b] = "pending"
      /\ \A p \in Orders : p # o => \A b \in BetsOf(p) : bets'[b] = bets[b]
    BY <1>2 DEF BetsOf
<1>7. DebitsOK'
    <2>1. DebitOK(o)'
        BY <1>1, <1>4, <1>5, <1>6 DEF DebitOK, With
    <2>2. ASSUME NEW p \in Orders, p # o PROVE DebitOK(p)'
        <3>1. DebitOK(p) /\ BetsOf(p) \subseteq Bets
            BY <1>1 DEF DebitsOK, BetsOf
        <3> QED BY <1>5, <1>6, <2>2, <3>1 DEF DebitOK, With
    <2> QED BY <1>5, <2>1, <2>2 DEF DebitsOK
<1>8. Net'[o] = Net[o] + amount
    <2>1. BetsOf(o) \intersect With("deleted")' = {}
        BY <1>6 DEF With
    <2>2. Total({}) = 0 /\ Total(BetsOf(o) \intersect With("deleted")') = 0
        BY <2>1, SumEmpty DEF Total
    <2>3. Net'[o] = amount - (IF BetsOf(o) = {} THEN 0
                              ELSE Total(BetsOf(o) \intersect With("deleted")'))
        BY <1>5 DEF Net, NetOf
    <2>4. Net'[o] = amount
        <3>1. amount - 0 = amount
            BY <1>1
        <3> QED BY <2>2, <2>3, <3>1
    <2>5. Net[o] = 0
        BY <1>3 DEF Net, NetOf
    <2> QED BY <1>1, <2>4, <2>5
<1>9. ASSUME NEW p \in Orders, p # o PROVE Net'[p] = Net[p]
    <2>1. BetsOf(p) \intersect With("deleted")' = BetsOf(p) \intersect With("deleted")
        BY <1>6, <1>9 DEF With
    <2> QED BY <1>5, <1>9, <2>1 DEF Net, NetOf
<1>10. \A u \in Users : wallet'[u].balance
                          = wallet[u].balance - IF Payer[o] = u THEN amount ELSE 0
    BY <1>1, <1>2 DEF Amounts
<1>11. LedgerExplainsBalance'
    BY <1>1, <1>2, <1>7, <1>8, <1>9, <1>10, ChargeKeepsLedger
<1> QED BY <1>7, <1>11 DEF LedgerInv

LEMMA RefundKeepsLedger ==
    ASSUME LedgerInv, ExposureInv', NEW r \in Runners, NEW b \in Bets, RefundBet(r, b)
    PROVE  LedgerInv'
<1> PICK o : o = OrderOf[b]
    OBVIOUS
<1> PICK back : back = BetsOf(o) \intersect With("deleted")
    OBVIOUS
<1>1. /\ wallet \in [Users -> Amounts] /\ o \in Orders /\ Payer[o] \in Users /\ Stake[b] \in Int
      /\ bets \in [Bets -> {"none", "pending", "won", "lost", "deleted"}] /\ bets[b] = "pending"
      /\ debits \in [Orders -> [amount : Int, bets : SUBSET Bets]] /\ DebitsOK /\ DebitOK(o)
    <2>1. o \in Orders /\ Stake[b] \in Int
        BY OrdersAssumption
    <2>2. Payer[o] \in Users
        BY <2>1, OrdersAssumption
    <2>3. bets[b] = "pending"
        BY DEF RefundBet, CanDelete
    <2>4. debits \in [Orders -> [amount : Int, bets : SUBSET Bets]] /\ DebitsOK /\ DebitOK(o)
        BY <2>1 DEF LedgerInv, DebitsOK
    <2> QED BY <2>1, <2>2, <2>3, <2>4 DEF LedgerInv, ExposureInv, TypeOK
<1>2. /\ b \in BetsOf(o) /\ b \in debits[o].bets /\ b \notin back /\ back \in SUBSET Bets
      /\ debits[o].amount = Total(BetsOf(o))
    BY <1>1 DEF DebitOK, BetsOf, With
<1>3. /\ wallet' = [wallet EXCEPT ![Payer[o]] = [balance  |-> @.balance + Stake[b],
                                                exposure |-> @.exposure - Stake[b]]]
      /\ debits' = [debits EXCEPT ![o] = RemoveFromDebit(@, b)]
      /\ bets' = [bets EXCEPT ![b] = "deleted"]
      /\ credits' = credits
    BY DEF RefundBet, Owner
<1>4. /\ debits' \in [Orders -> [amount : Int, bets : SUBSET Bets]]
      /\ debits'[o].bets = debits[o].bets \ {b}
      /\ debits'[o].amount = IF debits[o].bets = {b} THEN 0 ELSE debits[o].amount
      /\ \A p \in Orders : p # o => debits'[p] = debits[p]
    <2>1. RemoveFromDebit(debits[o], b) \in [amount : Int, bets : SUBSET Bets]
        BY <1>1 DEF RemoveFromDebit
    <2>2. debits'[o] = RemoveFromDebit(debits[o], b)
        BY <1>1, <1>3
    <2> QED BY <1>1, <1>3, <2>1, <2>2 DEF RemoveFromDebit
<1>5. /\ \A c \in Bets : c # b => bets'[c] = bets[c]
      /\ bets'[b] = "deleted"
      /\ \A p \in Orders : p # o => b \notin BetsOf(p)
    BY <1>1, <1>3 DEF BetsOf
<1>6. DebitsOK'
    <2>1. DebitOK(o)'
        <3>1. debits'[o].bets = {c \in BetsOf(o) : bets'[c] \notin {"none", "deleted"}}
            BY <1>1, <1>4, <1>5 DEF DebitOK, BetsOf
        <3>2. \A c \in BetsOf(o) : bets[c] # "none"
            BY <1>1, <1>2 DEF DebitOK, With
        <3>3. \A c \in BetsOf(o) : bets'[c] # "none"
            BY <1>5, <3>2 DEF BetsOf
        <3>4. debits'[o].amount = IF debits'[o].bets = {} THEN 0 ELSE Total(BetsOf(o))
            BY <1>2, <1>4
        <3> QED BY <3>1, <3>3, <3>4 DEF DebitOK
    <2>2. ASSUME NEW p \in Orders, p # o PROVE DebitOK(p)'
        <3>1. DebitOK(p) /\ \A c \in BetsOf(p) : bets'[c] = bets[c]
            BY <1>1, <1>5, <2>2 DEF DebitsOK, BetsOf
        <3>2. BetsOf(p) \subseteq Bets
            BY DEF BetsOf
        <3> QED BY <1>4, <2>2, <3>1, <3>2 DEF DebitOK, With
    <2> QED BY <1>4, <2>1, <2>2 DEF DebitsOK
<1>7. Net'[o] = Net[o] + (0 - Stake[b])
    <2>1. /\ BetsOf(o) \intersect With("deleted")' = back \union {b}
          /\ Total(back \union {b}) = Total(back) + Stake[b] /\ Total(back) \in Int
        <3>1. BetsOf(o) \intersect With("deleted")' = back \union {b}
            BY <1>2, <1>5 DEF With, BetsOf
        <3> QED BY <1>2, <3>1, PartTotal
    <2>2. Net[o] = Total(BetsOf(o)) - Total(back)
        BY <1>1, <1>2 DEF Net, NetOf
    <2>3. Total(BetsOf(o)) \in Int
        BY <1>1, OrderTotal
    <2>4. CASE debits[o].bets = {b}
        <3>1. BetsOf(o) = back \union {b}
            BY <1>1, <1>2, <2>4 DEF DebitOK, With, BetsOf
        <3>2. debits'[o].bets = {} /\ debits'[o].amount = 0
            BY <1>4, <2>4
        <3>3. Net'[o] = 0
            BY <1>1, <3>2 DEF Net, NetOf
        <3>4. Total(BetsOf(o)) = Total(back) + Stake[b]
            BY <2>1, <3>1
        <3> QED BY <1>1, <2>1, <2>2, <2>3, <3>3, <3>4
    <2>5. CASE debits[o].bets # {b}
        <3>1. debits'[o].bets # {} /\ debits'[o].amount = Total(BetsOf(o))
            BY <1>2, <1>4, <2>5
        <3>2. Net'[o] = Total(BetsOf(o)) - Total(back \union {b})
            BY <1>1, <2>1, <3>1 DEF Net, NetOf
        <3> QED BY <1>1, <2>1, <2>2, <2>3, <3>2
    <2> QED BY <2>4, <2>5
<1>8. ASSUME NEW p \in Orders, p # o PROVE Net'[p] = Net[p]
    <2>1. BetsOf(p) \intersect With("deleted")' = BetsOf(p) \intersect With("deleted")
        BY <1>5, <1>8 DEF With, BetsOf
    <2> QED BY <1>4, <1>8, <2>1 DEF Net, NetOf
<1>9. \A u \in Users : wallet'[u].balance
                         = wallet[u].balance - IF Payer[o] = u THEN 0 - Stake[b] ELSE 0
    BY <1>1, <1>3 DEF Amounts
<1>10. LedgerExplainsBalance'
    BY <1>1, <1>3, <1>6, <1>7, <1>8, <1>9, ChargeKeepsLedger
<1> QED BY <1>6, <1>10 DEF LedgerInv

LEMMA SettleBetsKeepsLedger ==
    ASSUME LedgerInv, ExposureInv', NEW winners \in SUBSET settling, SettleBets(winners)
    PROVE  LedgerInv'
<1>1. /\ settling \in SUBSET Bets /\ ReadIsPending /\ DebitsOK /\ debits' = debits
      /\ bets \in [Bets -> {"none", "pending", "won", "lost", "deleted"}]
      /\ credits \in [Bets -> Nat] /\ Payout \in [Bets -> Nat] /\ winners \in SUBSET Bets
    BY OrdersAssumption DEF LedgerInv, ExposureInv, TypeOK, SettleBets
<1>2. CASE UNCHANGED <<bets, credits, wallet>>
    <2>1. DebitsOK'
        BY <1>1, <1>2 DEF DebitsOK, DebitOK, With
    <2>2. LedgerExplainsBalance'
        BY <1>1, <1>2 DEF LedgerInv, LedgerExplainsBalance, StillCharged, With
    <2> QED BY <2>1, <2>2 DEF LedgerInv
<1>3. CASE \A b \in settling : bets[b] # "deleted"
    <2>1. /\ bets' = [b \in Bets |-> CASE b \in winners -> "won"
                                      [] b \in settling \ winners -> "lost"
                                      [] OTHER -> bets[b]]
          /\ credits' = [b \in Bets |-> IF b \in winners THEN credits[b] + Payout[b]
                                        ELSE credits[b]]
          /\ \A u \in Users : wallet'[u].balance
               = wallet[u].balance + SumFunctionOnSet(Payout, OwnedBy(u, winners))
        BY <1>3 DEF SettleBets
    <2>2. ASSUME NEW b \in Bets
          PROVE  /\ bets'[b] = "deleted" <=> bets[b] = "deleted"
                 /\ bets'[b] = "none" <=> bets[b] = "none"
        BY <1>1, <1>3, <2>1 DEF ReadIsPending
    <2>3. DebitsOK'
        <3>1. ASSUME NEW o \in Orders PROVE DebitOK(o)'
            <4>1. DebitOK(o) /\ BetsOf(o) \subseteq Bets
                BY <1>1 DEF DebitsOK, BetsOf
            <4>2. {b \in BetsOf(o) : bets'[b] \notin {"none", "deleted"}}
                    = {b \in BetsOf(o) : bets[b] \notin {"none", "deleted"}}
                BY <2>2, <4>1
            <4>3. (\E b \in BetsOf(o) : bets'[b] = "none") => BetsOf(o) \subseteq With("none")'
                BY <2>2, <4>1 DEF DebitOK, With
            <4> QED BY <1>1, <4>1, <4>2, <4>3 DEF DebitOK
        <3> QED BY <1>1, <3>1 DEF DebitsOK
    <2>4. With("deleted")' = With("deleted")
        BY <2>2 DEF With
    <2>5. Net' = Net
        BY <1>1, <2>4 DEF Net, NetOf
    <2>6. ASSUME NEW u \in Users PROVE Explained(u, wallet'[u], Net, credits')
        <3> PICK S, T : S = OwnedBy(u, Bets) /\ T = OwnedBy(u, winners)
            OBVIOUS
        <3>1. T \in SUBSET S /\ S \subseteq Bets /\ \A b \in S : b \in T <=> b \in winners
            BY <1>1 DEF OwnedBy
        <3>2. Summable(credits, S) /\ Summable(Payout, T) /\ SumFunctionOnSet(Payout, T) \in Int
            BY <1>1, OwnedIsSummable
        <3>3. \A b \in S : credits'[b] = IF b \in T THEN credits[b] + Payout[b] ELSE credits[b]
            BY <2>1, <3>1
        <3>4. PaidTo(u, credits') = PaidTo(u, credits) + SumFunctionOnSet(Payout, T)
            <4> PICK after : after = credits'
                OBVIOUS
            <4>1. SumFunctionOnSet(after, S)
                    = SumFunctionOnSet(credits, S) + SumFunctionOnSet(Payout, T)
                BY <3>1, <3>2, <3>3, SumRaise
            <4> QED BY <4>1 DEF PaidTo
        <3>5. /\ Explained(u, wallet[u], Net, credits) /\ wallet[u].balance \in Int
              /\ Funds[u] \in Int /\ Debited(u, Net) \in Int
              /\ PaidTo(u, credits) \in Int
            BY TermsAreIntegers
        <3> QED BY <2>1, <3>2, <3>4, <3>5 DEF Explained
    <2>7. LedgerExplainsBalance'
        <3>1. [o \in Orders |-> debits[o].amount - StillCharged(o)]' = Net'
            BY DEF Net, NetOf, StillCharged
        <3> QED BY <2>5, <2>6, <3>1 DEF LedgerExplainsBalance, Explained, Debited, PaidTo
    <2> QED BY <2>3, <2>7 DEF LedgerInv
<1> QED BY <1>2, <1>3 DEF SettleBets

LEMMA LedgerNext == LedgerInv /\ [Next]_vars => LedgerInv'
<1> SUFFICES ASSUME LedgerInv, [Next]_vars PROVE LedgerInv'
    OBVIOUS
<1>1. ExposureInv'
    BY ExposureNext DEF LedgerInv
<1>2. CASE ReadPendingBets \/ UNCHANGED <<money, settling>>
    <2>1. UNCHANGED money
        BY <1>2 DEF ReadPendingBets
    <2>2. UNCHANGED <<bets, wallet, debits, credits>>
        BY <2>1 DEF money
    <2>3. DebitsOK' /\ LedgerExplainsBalance'
        BY <2>2 DEF LedgerInv, DebitsOK, DebitOK, With, LedgerExplainsBalance, StillCharged
    <2> QED BY <1>1, <2>3 DEF LedgerInv
<1> QED BY <1>1, <1>2, MoneyCases, PlaceOrderKeepsLedger, SettleBetsKeepsLedger, RefundKeepsLedger

LEMMA LedgerInit == Init => LedgerInv
<1> SUFFICES ASSUME Init PROVE LedgerInv
    OBVIOUS
<1>1. DebitsOK
    BY OrdersAssumption DEF Init, DebitsOK, DebitOK, With, BetsOf
<1>2. ASSUME NEW u \in Users PROVE Explained(u, wallet[u], Net, credits)
    <2>1. IsFiniteSet({o \in Orders : Payer[o] = u}) /\ IsFiniteSet(OwnedBy(u, Bets))
        BY OrdersAssumption, FS_Subset DEF OwnedBy
    <2>2. \A o \in Orders : Net[o] = 0
        BY DEF Init, Net, NetOf
    <2>3. Debited(u, Net) = 0
        <3> PICK net : net = Net
            OBVIOUS
        <3> QED BY <2>1, <2>2, SumZero DEF Debited
    <2>4. PaidTo(u, credits) = 0
        BY <2>1, SumZero DEF Init, PaidTo, OwnedBy
    <2>5. wallet[u].balance = Funds[u] /\ Funds[u] \in Nat
        BY OrdersAssumption DEF Init
    <2> QED BY <2>3, <2>4, <2>5 DEF Explained
<1> QED BY <1>1, <1>2, ExposureInit, LedgerAsSums DEF LedgerInv

\* Every balance is what the debits left and the credits explain, but for the
\* stakes given back of orders that keep their debit: whatever batches,
\* settlements, retries and overlapping runs meet, for orders of any size.
THEOREM BalanceIsExplained == Spec => []LedgerExplainsBalance
<1>1. LedgerInv => LedgerExplainsBalance
    BY DEF LedgerInv
<1> QED BY <1>1, LedgerInit, LedgerNext, PTL DEF Spec
=============================================================================

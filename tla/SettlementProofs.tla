-------------------------- MODULE SettlementProofs --------------------------
(***************************************************************************)
(* Theorems about Settlement: its type invariant; that it implements the  *)
(* bet book, so that bets are decided and paid once unless they are        *)
(* contested; that wallets are what the ledger and the pending bets add up *)
(* to; and on which result bets are decided.  None has a condition on the  *)
(* constants: where runs or requests overtake each other, the history      *)
(* variable says which bets and modes a statement leaves out.              *)
(***************************************************************************)
EXTENDS Settlement, SumLemmas

-----------------------------------------------------------------------------
(* Every write to the session document yields a session document *)

\* The session the daily job creates is well typed.
LEMMA NewSessionType == NewSession \in SessionRow
BY DEF NewSession, SessionRow, Results, EmptyResult, Phases, RunningPhases,
       BettingPhases, SettlementStatuses, WarningCodes

\* The derived consistency flag and warning are a flag and a warning.
LEMMA ResultStateType ==
    ASSUME NEW s \in SessionRow
    PROVE  /\ IsFinanciallyConsistent(s) \in BOOLEAN
           /\ ResultWarning(s) \in WarningCodes
<1>1. IsFinanciallyConsistent(s) \in BOOLEAN
    BY DEF IsFinanciallyConsistent, SessionRow
<1>2. ResultWarning(s) \in WarningCodes
    BY DEF ResultWarning, SessionRow, WarningCodes
<1> QED BY <1>1, <1>2

\* Storing the consistency metadata of one row into another keeps the type.
LEMMA StoreResultStateType ==
    ASSUME NEW s \in SessionRow, NEW from \in SessionRow
    PROVE  StoreResultState(s, from) \in SessionRow
BY ResultStateType DEF StoreResultState, SessionRow

\* The fields a settlement worker reads back are a session row.
LEMMA ResultPartType ==
    ASSUME NEW s \in SessionRow
    PROVE  ResultPart(s) \in SessionRow
BY DEF ResultPart, SessionRow, Phases, RunningPhases, BettingPhases

\* A phase write keeps the type.
LEMMA SetPhaseType ==
    ASSUME NEW s \in SessionRow, NEW p \in Phases
    PROVE  SetPhase(s, p) \in SessionRow
BY DEF SetPhase, SessionRow

\* The phase the lock toggles to is a running one.
LEMMA LockTargetType ==
    ASSUME NEW s \in SessionRow, NEW before \in BOOLEAN
    PROVE  LockTarget(s, before) \in RunningPhases
BY DEF LockTarget, RunningPhases, BettingPhases

\* So does a write of the displayed result, its flag and its revision.
LEMMA ResultWriteType ==
    ASSUME NEW s \in SessionRow, NEW current \in Results,
           NEW declared \in BOOLEAN, NEW revision \in Nat
    PROVE  [s EXCEPT !.current = current, !.openDeclared = declared,
                     !.revision = revision] \in SessionRow
BY DEF SessionRow

\* Declaring keeps the type.
LEMMA DeclareResultType ==
    ASSUME NEW s \in SessionRow, NEW mode \in Modes, NEW pana \in Panas
    PROVE  DeclareResult(s, mode, pana) \in SessionRow
<1> DEFINE d == [StoreResult(s, mode, pana) EXCEPT !.settlement = "processing"]
<1>1. StoreResult(s, mode, pana) \in SessionRow
  <2> DEFINE current  == [s.current EXCEPT ![mode] = pana]
             declared == s.openDeclared \/ mode = "open"
  <2>1. current \in Results
      BY DEF SessionRow, Results
  <2>2. declared \in BOOLEAN
      BY DEF SessionRow
  <2>3. StoreResult(s, mode, pana) =
          [s EXCEPT !.current = current, !.openDeclared = declared,
                    !.revision = s.revision + 1]
      BY DEF StoreResult
  <2>4. s.revision + 1 \in Nat
      BY DEF SessionRow
  <2>5. [s EXCEPT !.current = current, !.openDeclared = declared,
                  !.revision = s.revision + 1] \in SessionRow
    <3> HIDE DEF current, declared
    <3> QED BY <2>1, <2>2, <2>4, ResultWriteType
  <2> QED BY <2>3, <2>5 DEF StoreResult
<1>2. d \in SessionRow
    BY <1>1 DEF SessionRow, SettlementStatuses
<1> QED BY <1>2, StoreResultStateType DEF DeclareResult

\* What a reset computes from the row it read are updates, and storing updates
\* keeps the type.
LEMMA UpdatesOfResetType ==
    ASSUME NEW s \in SessionRow, NEW mode \in Modes
    PROVE  UpdatesOfReset(s, mode) \in ResetUpdates
<1> DEFINE current  == [s.current EXCEPT ![mode] = NoPana]
           declared == s.openDeclared /\ mode # "open"
           status   == IF s.settlement \in {"processing", "pending"} THEN "failed"
                       ELSE s.settlement
           written  == [s EXCEPT !.current = current, !.openDeclared = declared,
                                 !.revision = s.revision + 1]
           cleared  == [s EXCEPT !.current = current, !.openDeclared = declared,
                                 !.revision = s.revision + 1, !.settlement = status]
<1>1. cleared \in SessionRow
  <2>1. current \in Results
      BY DEF SessionRow, Results
  <2>2. declared \in BOOLEAN
      BY DEF SessionRow
  <2>3. status \in SettlementStatuses
      BY DEF SessionRow, SettlementStatuses
  <2>4. s.revision + 1 \in Nat
      BY DEF SessionRow
  <2>5. written \in SessionRow
    <3> HIDE DEF current, declared
    <3> QED BY <2>1, <2>2, <2>4, ResultWriteType
  <2>6. cleared = [written EXCEPT !.settlement = status]
    <3> HIDE DEF current, declared, status
    <3> QED BY DEF SessionRow
  <2> HIDE DEF written, status, cleared
  <2> QED BY <2>3, <2>5, <2>6 DEF SessionRow
<1>2. /\ IsFinanciallyConsistent(cleared) \in BOOLEAN
      /\ ResultWarning(cleared) \in WarningCodes
    BY <1>1, ResultStateType
<1>3. UpdatesOfReset(s, mode) =
        [current      |-> cleared.current,
         openDeclared |-> cleared.openDeclared,
         revision     |-> cleared.revision,
         settlement   |-> cleared.settlement,
         consistent   |-> IsFinanciallyConsistent(cleared),
         warning      |-> ResultWarning(cleared)]
    BY DEF UpdatesOfReset
<1> HIDE DEF cleared
<1> QED BY <1>1, <1>2, <1>3 DEF ResetUpdates, SessionRow

LEMMA ResetResultType ==
    ASSUME NEW s \in SessionRow, NEW updates \in ResetUpdates
    PROVE  ResetResult(s, updates) \in SessionRow
BY DEF ResetResult, SessionRow, ResetUpdates

\* Cancelling keeps the type.
LEMMA CancelSessionType ==
    ASSUME NEW s \in SessionRow, NEW phase \in Phases,
           NEW wasSettled \in BOOLEAN, NEW hadBets \in BOOLEAN
    PROVE  CancelSession(s, phase, wasSettled, hadBets) \in SessionRow
BY DEF CancelSession, SessionRow, Phases, RunningPhases, WarningCodes

\* The writes of the settlement worker keep the type.
LEMMA StoreSettledType ==
    ASSUME NEW s \in SessionRow, NEW seen \in SessionRow,
           NEW mode \in Modes, NEW revision \in Nat
    PROVE  StoreSettled(s, seen, mode, revision) \in SessionRow
BY DEF StoreSettled, SessionRow, Results, SettlementStatuses

LEMMA MarkSettledType ==
    ASSUME NEW s \in SessionRow
    PROVE  MarkSettled(s) \in SessionRow
BY DEF MarkSettled, SessionRow, Phases

LEMMA StoreFailedType ==
    ASSUME NEW s \in SessionRow, NEW seen \in SessionRow
    PROVE  StoreFailed(s, seen) \in SessionRow
<1>1. [seen EXCEPT !.settlement = "failed"] \in SessionRow
    BY DEF SessionRow, SettlementStatuses
<1> QED BY <1>1, ResultStateType DEF StoreFailed, SessionRow, SettlementStatuses

-----------------------------------------------------------------------------
(* Updates of the tasks and of the workers *)

\* Updating one task with a task yields tasks, with the same numbers.
LEMMA TaskUpdateType ==
    ASSUME NEW ts \in Seq(Task), NEW i \in DOMAIN ts, NEW t \in Task
    PROVE  /\ [ts EXCEPT ![i] = t] \in Seq(Task)
           /\ DOMAIN [ts EXCEPT ![i] = t] = DOMAIN ts
<1>1. /\ ts \in [1 .. Len(ts) -> Task]
      /\ Len(ts) \in Nat
      /\ DOMAIN ts = 1 .. Len(ts)
    OBVIOUS
<1>2. [ts EXCEPT ![i] = t] \in [1 .. Len(ts) -> Task]
    BY <1>1
<1> QED BY <1>1, <1>2

\* So does a write to its status, its attempts or its job.
LEMMA TaskWriteType ==
    ASSUME NEW ts \in Seq(Task), NEW i \in DOMAIN ts,
           NEW status \in {"pending", "processing", "completed", "failed"},
           NEW job \in {"processing", "completed", "failed"},
           NEW attempts \in Nat
    PROVE  /\ [ts EXCEPT ![i].status = status] \in Seq(Task)
           /\ DOMAIN [ts EXCEPT ![i].status = status] = DOMAIN ts
           /\ [ts EXCEPT ![i].job = job] \in Seq(Task)
           /\ DOMAIN [ts EXCEPT ![i].job = job] = DOMAIN ts
           /\ [ts EXCEPT ![i].attempts = attempts, ![i].status = status] \in Seq(Task)
           /\ DOMAIN [ts EXCEPT ![i].attempts = attempts, ![i].status = status]
                = DOMAIN ts
<1>1. ts[i] \in Task
    OBVIOUS
<1>2. /\ [ts[i] EXCEPT !.status = status] \in Task
      /\ [ts[i] EXCEPT !.job = job] \in Task
      /\ [ts[i] EXCEPT !.attempts = attempts, !.status = status] \in Task
    BY <1>1 DEF Task
<1>3. /\ [ts EXCEPT ![i].status = status]
           = [ts EXCEPT ![i] = [ts[i] EXCEPT !.status = status]]
      /\ [ts EXCEPT ![i].job = job]
           = [ts EXCEPT ![i] = [ts[i] EXCEPT !.job = job]]
      /\ [ts EXCEPT ![i].attempts = attempts, ![i].status = status]
           = [ts EXCEPT ![i] = [ts[i] EXCEPT !.attempts = attempts, !.status = status]]
    OBVIOUS
<1> QED BY <1>2, <1>3, TaskUpdateType

\* A worker that holds a task holds one of the tasks there are.
HoldsTask(w, ts) ==
    /\ w \in Worker
    /\ w.pc \notin {"idle", "next"} => w.task \in DOMAIN ts
    /\ \A e \in w.queue : e.id \in DOMAIN ts

\* An update of one worker that holds a task keeps the workers' part of TypeOK,
\* while tasks are only written or appended.
LEMMA WorkerUpdateType ==
    ASSUME NEW ws \in [Runners -> Worker], NEW ts, NEW new,
           \A r \in Runners : HoldsTask(ws[r], ts),
           NEW r \in Runners, NEW w, HoldsTask(w, new),
           DOMAIN ts \subseteq DOMAIN new
    PROVE  /\ [ws EXCEPT ![r] = w] \in [Runners -> Worker]
           /\ \A s \in Runners : HoldsTask([ws EXCEPT ![r] = w][s], new)
BY DEF HoldsTask

-----------------------------------------------------------------------------
(* Type correctness *)

LEMMA IdleWorkerType == \A ts : HoldsTask(IdleWorker, ts)
BY NewSessionType DEF HoldsTask, IdleWorker, Worker

\* The initial state is well typed.
LEMMA InitType == Init => TypeOK
<1> SUFFICES ASSUME Init PROVE TypeOK
    OBVIOUS
<1>1. session \in SessionRow
    BY NewSessionType DEF Init
<1>2. worker \in [Runners -> Worker]
    BY IdleWorkerType DEF Init, HoldsTask
<1>3. \A r \in Runners : HoldsTask(worker[r], tasks)
    BY IdleWorkerType DEF Init
<1>4. ledger \in Ledger
    BY DEF Init, Ledger
<1>5. tasks \in Seq(Task) /\ past \in History
    BY DEF Init, History
<1> QED BY <1>1, <1>2, <1>3, <1>4, <1>5 DEF Init, TypeOK, HoldsTask, BetStatuses

\* Steps of the clock, the phases and the users.
LEMMA UserStepType ==
    ASSUME TypeOK, Tick \/ ChangePhase \/ UserStep
    PROVE  TypeOK'
<1>1. CASE Tick
    BY <1>1 DEF TypeOK, Tick
<1>2. CASE ChangePhase
  <2>1. session' \in SessionRow
      BY <1>2, SetPhaseType
      DEF TypeOK, ChangePhase, WritePhase, Phases, RunningPhases, BettingPhases
  <2> QED BY <1>2, <2>1 DEF TypeOK, ChangePhase, WritePhase
<1>3. CASE UserStep
  <2> PICK b \in Bets : ValidateBet(b) \/ PlaceBet(b) \/ RejectBet(b)
      BY <1>3 DEF UserStep
  <2>1. CASE ValidateBet(b)
      BY <2>1 DEF TypeOK, ValidateBet
  <2>2. CASE PlaceBet(b)
      BY <2>2 DEF TypeOK, PlaceBet, BetStatuses, Ledger
  <2>3. CASE RejectBet(b)
      BY <2>3 DEF TypeOK, RejectBet
  <2> QED BY <2>1, <2>2, <2>3
<1> QED BY <1>1, <1>2, <1>3

\* Requests hold what was read of a well-typed session.
LEMMA ReceiveType ==
    ASSUME TypeOK,
           \/ \E mode \in Modes, pana \in Panas : ReceiveDeclare(mode, pana)
           \/ \E mode \in Modes : ReceiveReset(mode)
           \/ ReceiveLock \/ ReceiveCancel
    PROVE  TypeOK'
<1>1. ASSUME NEW q \in Request, Receive(q)
      PROVE  TypeOK'
    BY <1>1 DEF TypeOK, Receive
<1>2. ASSUME NEW mode \in Modes, NEW pana \in Panas
      PROVE  [op |-> "declare", mode |-> mode, pana |-> pana] \in Request
    BY DEF Request
<1>3. ASSUME NEW mode \in Modes
      PROVE  [op |-> "reset", mode |-> mode,
              updates |-> UpdatesOfReset(session, mode)] \in Request
    BY UpdatesOfResetType DEF TypeOK, Request
<1>4. [op |-> "cancel", phase |-> session.phase, wasSettled |-> IsSettled(session),
       hadBets |-> \E b \in Bets : bets[b] # "none"] \in Request
  <2> DEFINE settled == IsSettled(session)
             hadBets == \E b \in Bets : bets[b] # "none"
  <2>1. session.phase \in Phases
      BY DEF TypeOK, SessionRow
  <2>2. settled \in BOOLEAN /\ hadBets \in BOOLEAN
      BY DEF IsSettled
  <2>3. [op |-> "cancel", phase |-> session.phase, wasSettled |-> settled,
         hadBets |-> hadBets] \in Request
    <3> HIDE DEF settled, hadBets
    <3> QED BY <2>1, <2>2 DEF Request
  <2> QED BY <2>3
<1>5. [op |-> "lock", phase |-> LockTarget(session, clock = 0)] \in Request
  <2>1. (clock = 0) \in BOOLEAN
      OBVIOUS
  <2> QED BY <2>1, LockTargetType DEF TypeOK, Request
<1> QED BY <1>1, <1>2, <1>3, <1>4, <1>5
        DEF ReceiveDeclare, ReceiveReset, ReceiveLock, ReceiveCancel

\* Requests write well-typed sessions and queue well-typed tasks.
LEMMA RequestStepType ==
    ASSUME TypeOK, NEW q \in requests,
           \/ DeclareStep(q) \/ ResetStep(q) \/ LockStep(q) \/ CancelStep(q)
           \/ RequestFails(q)
    PROVE  TypeOK'
<1>1. CASE DeclareStep(q)
  <2> DEFINE task == [mode |-> q.mode, pana |-> q.pana, revision |-> session'.revision,
                      status |-> "pending", attempts |-> 0, job |-> "processing"]
  <2>1. q.mode \in Modes /\ q.pana \in Panas
      BY <1>1 DEF TypeOK, Request, DeclareStep
  <2>2. session' \in SessionRow
      BY <1>1, <2>1, DeclareResultType DEF TypeOK, DeclareStep
  <2>3. task \in Task
      BY <2>1, <2>2 DEF Task, SessionRow
  <2>4. tasks' = Append(tasks, task)
      BY <1>1 DEF DeclareStep
  <2> HIDE DEF task
  <2>5. tasks' \in Seq(Task) /\ DOMAIN tasks \subseteq DOMAIN tasks'
      BY <2>3, <2>4 DEF TypeOK
  <2> QED BY <1>1, <2>2, <2>5 DEF TypeOK, DeclareStep
<1>2. CASE ResetStep(q)
  <2>1. q.updates \in ResetUpdates
      BY <1>2 DEF TypeOK, Request, ResetStep
  <2>2. session' \in SessionRow
      BY <1>2, <2>1, ResetResultType DEF TypeOK, ResetStep
  <2>3. session.revision \in Nat /\ q.updates.revision \in Nat
      BY <2>1 DEF TypeOK, SessionRow, ResetUpdates
  <2>4. past' \in History
      BY <1>2, <2>3 DEF TypeOK, ResetStep, History
  <2> QED BY <1>2, <2>2, <2>4 DEF TypeOK, ResetStep
<1>3. CASE CancelStep(q)
  <2>1. q.phase \in Phases /\ q.wasSettled \in BOOLEAN /\ q.hadBets \in BOOLEAN
      BY <1>3 DEF TypeOK, Request, CancelStep
  <2>2. session' \in SessionRow
      BY <1>3, <2>1, CancelSessionType DEF TypeOK, CancelStep
  <2> QED BY <1>3, <2>2 DEF TypeOK, CancelStep
<1>4. CASE RequestFails(q)
    BY <1>4 DEF TypeOK, RequestFails
<1>5. CASE LockStep(q)
  <2>1. q.phase \in Phases
      BY <1>5 DEF TypeOK, Request, LockStep, Phases, RunningPhases, BettingPhases
  <2>2. session' \in SessionRow
      BY <1>5, <2>1, SetPhaseType DEF TypeOK, LockStep
  <2> QED BY <1>5, <2>2 DEF TypeOK, LockStep
<1> QED BY <1>1, <1>2, <1>3, <1>4, <1>5

\* The runner between tasks.
LEMMA RunnerStepType ==
    ASSUME TypeOK, NEW r \in Runners,
           \/ StartRun(r) \/ ClaimTask(r) \/ EndRun(r)
           \/ CompleteTask(r) \/ RetryOrFailTask(r)
    PROVE  TypeOK'
<1> DEFINE w == worker[r]
<1>1. /\ worker \in [Runners -> Worker]
      /\ tasks \in Seq(Task)
      /\ \A s \in Runners : HoldsTask(worker[s], tasks)
    BY DEF TypeOK, HoldsTask
<1>2. ASSUME NEW new, HoldsTask(new, tasks'), worker' = [worker EXCEPT ![r] = new],
             DOMAIN tasks \subseteq DOMAIN tasks', tasks' \in Seq(Task),
             UNCHANGED <<clock, session, bets, wallet, ledger, placing, requests,
                         errors, crashes, past>>
      PROVE  TypeOK'
  <2>1. /\ worker' \in [Runners -> Worker]
        /\ \A s \in Runners : HoldsTask(worker'[s], tasks')
      BY <1>1, <1>2, WorkerUpdateType
  <2> QED BY <1>2, <2>1 DEF TypeOK, HoldsTask
<1>3. CASE StartRun(r)
  <2> DEFINE due == Fetched
             queue == {[id |-> i, attempts |-> tasks[i].attempts] : i \in due}
             new == [IdleWorker EXCEPT !.pc = "next", !.queue = queue]
  <2> \A i \in DOMAIN tasks : i \in Nat /\ tasks[i] \in Task
      BY <1>1
  <2>1. \A i \in due : i \in DOMAIN tasks /\ i \in Nat /\ tasks[i].attempts \in Nat
      BY DEF Task, Fetched
  <2> HIDE DEF due
  <2>2. queue \subseteq [id : Nat, attempts : Nat] /\ \A e \in queue : e.id \in DOMAIN tasks
      BY <2>1
  <2>3. HoldsTask(new, tasks)
    <3> HIDE DEF queue
    <3> QED BY <2>2, IdleWorkerType DEF HoldsTask, Worker
  <2> QED BY <1>1, <1>2, <1>3, <2>3 DEF StartRun, due
<1>4. CASE ClaimTask(r)
  <2> PICK e \in w.queue :
        /\ worker' = [worker EXCEPT ![r].pc = "check", ![r].queue = @ \ {e},
                                    ![r].task = e.id, ![r].tries = e.attempts]
        /\ tasks' = [tasks EXCEPT ![e.id].status = "processing"]
      BY <1>4 DEF ClaimTask
  <2> DEFINE new == [w EXCEPT !.pc = "check", !.queue = @ \ {e}, !.task = e.id,
                              !.tries = e.attempts]
  <2>1. /\ e.id \in DOMAIN tasks
        /\ e \in [id : Nat, attempts : Nat]
      BY <1>1 DEF HoldsTask, Worker
  <2>2. tasks' \in Seq(Task) /\ DOMAIN tasks' = DOMAIN tasks
      BY <1>1, <2>1, TaskWriteType
  <2>3. HoldsTask(new, tasks')
      BY <1>1, <2>1, <2>2 DEF HoldsTask, Worker
  <2>4. worker' = [worker EXCEPT ![r] = new]
      BY <1>1
  <2> HIDE DEF new
  <2> QED BY <1>2, <1>4, <2>2, <2>3, <2>4 DEF ClaimTask
<1>5. CASE EndRun(r)
    BY <1>1, <1>2, <1>5, IdleWorkerType DEF EndRun
<1>6. HoldsTask([IdleWorker EXCEPT !.pc = "next", !.queue = w.queue], tasks)
    BY <1>1, IdleWorkerType DEF HoldsTask, Worker, IdleWorker
<1>7. CASE CompleteTask(r)
  <2>1. w.task \in DOMAIN tasks
      BY <1>1, <1>7 DEF HoldsTask, CompleteTask
  <2>2. tasks' \in Seq(Task) /\ DOMAIN tasks' = DOMAIN tasks
      BY <1>1, <1>7, <2>1, TaskWriteType DEF CompleteTask
  <2>3. HoldsTask([IdleWorker EXCEPT !.pc = "next", !.queue = w.queue], tasks')
      BY <1>6, <2>2 DEF HoldsTask
  <2> QED BY <1>2, <1>7, <2>2, <2>3 DEF CompleteTask, FinishTask
<1>8. CASE RetryOrFailTask(r)
  <2> DEFINE attempts == w.tries + 1
             status == IF attempts >= MaxAttempts THEN "failed" ELSE "pending"
  <2>1. w.task \in DOMAIN tasks /\ attempts \in Nat
    <3>1. w.pc = "failed" /\ HoldsTask(w, tasks)
        BY <1>1, <1>8 DEF RetryOrFailTask
    <3>2. w.tries \in Nat
        BY <3>1 DEF HoldsTask, Worker
    <3> QED BY <3>1, <3>2 DEF HoldsTask
  <2>2. status \in {"pending", "processing", "completed", "failed"}
      OBVIOUS
  <2>3. tasks' = [tasks EXCEPT ![w.task].attempts = attempts, ![w.task].status = status]
      BY <1>8 DEF RetryOrFailTask, StatusAfter
  <2> HIDE DEF status, attempts
  <2>4. tasks' \in Seq(Task) /\ DOMAIN tasks' = DOMAIN tasks
      BY <1>1, <2>1, <2>2, <2>3, TaskWriteType
  <2>5. HoldsTask([IdleWorker EXCEPT !.pc = "next", !.queue = w.queue], tasks')
      BY <1>6, <2>4 DEF HoldsTask
  <2> QED BY <1>2, <1>8, <2>4, <2>5 DEF RetryOrFailTask, StatusAfter, FinishTask
<1> QED BY <1>3, <1>4, <1>5, <1>7, <1>8

\* The settlement of one task, and what fails in it.
LEMMA SettleStepType ==
    ASSUME TypeOK, NEW r \in Runners,
           \/ CheckSession(r) \/ ReadBets(r) \/ RecheckSession(r) \/ SettleBatch(r)
           \/ StoreSettledResult(r) \/ ReadRemaining(r) \/ CloseSession(r)
           \/ WriteResultState(r) \/ CompleteJob(r) \/ CatchError(r) \/ ThrowError(r)
           \/ AbandonRun(r)
    PROVE  TypeOK'
<1> DEFINE w == worker[r]
           MovesTo(pc, seen, row, held) ==
             worker' = [worker EXCEPT ![r].pc = pc, ![r].seen = seen, ![r].row = row,
                                      ![r].bets = held]
<1>1. /\ worker \in [Runners -> Worker]
      /\ tasks \in Seq(Task)
      /\ \A s \in Runners : HoldsTask(worker[s], tasks)
      /\ session \in SessionRow
    BY DEF TypeOK, HoldsTask
<1>2. ASSUME w.pc \notin {"idle", "next"},
             NEW pc \in {"check", "read", "recheck", "commit", "store", "remaining",
                         "close", "state", "job", "catch", "done", "failed"},
             NEW seen \in SessionRow, NEW row \in SessionRow, NEW held \in SUBSET Bets,
             MovesTo(pc, seen, row, held),
             tasks' \in Seq(Task), DOMAIN tasks' = DOMAIN tasks
      PROVE  /\ worker' \in [Runners -> Worker]
             /\ \A s \in Runners : HoldsTask(worker'[s], tasks')
  <2> DEFINE new == [w EXCEPT !.pc = pc, !.seen = seen, !.row = row, !.bets = held]
  <2>1. HoldsTask(new, tasks')
      BY <1>1, <1>2 DEF HoldsTask, Worker
  <2>2. worker' = [worker EXCEPT ![r] = new]
      BY <1>1, <1>2
  <2>3. DOMAIN tasks \subseteq DOMAIN tasks'
      BY <1>2
  <2> HIDE DEF new
  <2> QED BY <1>1, <2>1, <2>2, <2>3, WorkerUpdateType
<1>3. /\ w.seen \in SessionRow /\ w.row \in SessionRow /\ w.bets \in SUBSET Bets
      /\ w.pc \notin {"idle", "next"} =>
           /\ w.task \in DOMAIN tasks
           /\ tasks[w.task] \in Task
    BY <1>1 DEF HoldsTask, Worker
<1>4. ASSUME NEW pc, Goto(r, pc)
      PROVE  MovesTo(pc, w.seen, w.row, w.bets)
  <2>1. [w EXCEPT !.pc = pc]
          = [w EXCEPT !.pc = pc, !.seen = w.seen, !.row = w.row, !.bets = w.bets]
      BY <1>1 DEF Worker
  <2> QED BY <1>1, <1>4, <2>1 DEF Goto
<1>5. ASSUME NEW job \in {"processing", "completed", "failed"},
             w.task \in DOMAIN tasks,
             tasks' = tasks \/ tasks' = [tasks EXCEPT ![w.task].job = job]
      PROVE  tasks' \in Seq(Task) /\ DOMAIN tasks' = DOMAIN tasks
  <2>1. CASE tasks' = tasks
      BY <1>1, <2>1
  <2>2. CASE tasks' = [tasks EXCEPT ![w.task].job = job]
      BY <1>1, <1>5, <2>2, TaskWriteType
  <2> QED BY <1>5, <2>1, <2>2
<1> HIDE DEF MovesTo
<1>6. CASE CheckSession(r)
  <2> DEFINE pc == IF session.status # "active" THEN "failed"
                   ELSE IF session.revision > TaskOf(r).revision THEN "done"
                   ELSE IF ~Declared(session, TaskOf(r).mode) THEN "failed"
                   ELSE "read"
             seen == ResultPart(session)
  <2>1. seen \in SessionRow
      BY <1>1, ResultPartType
  <2>2. MovesTo(pc, seen, w.row, w.bets)
    <3>1. worker' = [worker EXCEPT ![r].pc = pc, ![r].seen = seen]
        BY <1>6 DEF CheckSession, IsStale
    <3> HIDE DEF pc, seen
    <3>2. [w EXCEPT !.pc = pc, !.seen = seen]
            = [w EXCEPT !.pc = pc, !.seen = seen, !.row = w.row, !.bets = w.bets]
        BY <1>1 DEF Worker
    <3> QED BY <1>1, <3>1, <3>2 DEF MovesTo
  <2>3. pc \in {"failed", "done", "read"}
      OBVIOUS
  <2>4. tasks' \in Seq(Task) /\ DOMAIN tasks' = DOMAIN tasks
      BY <1>3, <1>5, <1>6 DEF CheckSession, IsStale
  <2> HIDE DEF pc, seen
  <2>5. /\ worker' \in [Runners -> Worker]
        /\ \A s \in Runners : HoldsTask(worker'[s], tasks')
    <3>1. w.pc = "check"
        BY <1>6 DEF CheckSession
    <3> QED BY <1>2, <1>3, <2>1, <2>2, <2>3, <2>4, <3>1
  <2> QED BY <1>6, <2>4, <2>5 DEF TypeOK, HoldsTask, CheckSession, IsStale
<1>7. CASE ReadBets(r)
  <2> DEFINE found == {b \in Bets : /\ bets[b] = "pending"
                                    /\ TaskOf(r).mode = "close" \/ ModeOf(b) = "open"}
             pc == IF found = {} THEN "store" ELSE "recheck"
  <2>1. MovesTo(pc, w.seen, w.row, found)
    <3>1. worker' = [worker EXCEPT ![r].pc = pc, ![r].bets = found]
        BY <1>7 DEF ReadBets, FindPending
    <3> HIDE DEF pc, found
    <3>2. [w EXCEPT !.pc = pc, !.bets = found]
            = [w EXCEPT !.pc = pc, !.seen = w.seen, !.row = w.row, !.bets = found]
        BY <1>1 DEF Worker
    <3> QED BY <1>1, <3>1, <3>2 DEF MovesTo
  <2>2. pc \in {"store", "recheck"} /\ found \in SUBSET Bets
      OBVIOUS
  <2>3. tasks' \in Seq(Task) /\ DOMAIN tasks' = DOMAIN tasks
      BY <1>3, <1>5, <1>7 DEF ReadBets, FindPending
  <2>5. past' \in History
      BY <1>7 DEF ReadBets, TypeOK, History, FindPending
  <2> HIDE DEF pc, found
  <2>4. /\ worker' \in [Runners -> Worker]
        /\ \A s \in Runners : HoldsTask(worker'[s], tasks')
    <3>1. w.pc = "read"
        BY <1>7 DEF ReadBets
    <3> QED BY <1>2, <1>3, <2>1, <2>2, <2>3, <3>1
  <2>6. UNCHANGED <<clock, session, bets, wallet, ledger, placing, requests, errors, crashes>>
      BY <1>7 DEF ReadBets
  <2> QED BY <2>3, <2>4, <2>5, <2>6 DEF TypeOK, HoldsTask
<1>8. ASSUME NEW pc \in {"recheck", "commit", "store", "remaining", "close", "state",
                        "job", "catch", "failed"},
             Goto(r, pc), w.pc \notin {"idle", "next"},
             tasks' \in Seq(Task), DOMAIN tasks' = DOMAIN tasks
      PROVE  /\ worker' \in [Runners -> Worker]
             /\ \A s \in Runners : HoldsTask(worker'[s], tasks')
  <2>1. MovesTo(pc, w.seen, w.row, w.bets)
      BY <1>4, <1>8
  <2> QED BY <1>2, <1>3, <1>8, <2>1
<1>9. CASE RecheckSession(r)
  <2> DEFINE pc == IF session.status = "active" THEN "commit" ELSE "catch"
  <2>1. Goto(r, pc) /\ pc \in {"commit", "catch"} /\ w.pc = "recheck"
      BY <1>9 DEF RecheckSession
  <2>2. tasks' \in Seq(Task) /\ DOMAIN tasks' = DOMAIN tasks
      BY <1>3, <1>5, <1>9 DEF RecheckSession
  <2> HIDE DEF pc
  <2>3. /\ worker' \in [Runners -> Worker]
        /\ \A s \in Runners : HoldsTask(worker'[s], tasks')
      BY <1>8, <2>1, <2>2
  <2> QED BY <1>9, <2>2, <2>3 DEF TypeOK, HoldsTask, RecheckSession
<1>10. CASE SettleBatch(r)
  <2>1. /\ worker' \in [Runners -> Worker]
        /\ \A s \in Runners : HoldsTask(worker'[s], tasks')
    <3>1. Goto(r, "store") /\ w.pc = "commit" /\ tasks' = tasks
        BY <1>10 DEF SettleBatch
    <3> QED BY <1>1, <1>8, <3>1
  <2>2. ledger' \in Ledger
    <3> DEFINE due     == [b \in Bets |-> PayoutNow(b)]
               credits == [b \in Bets |-> IF b \in Winners(r) THEN ledger.credits[b] + 1
                                         ELSE ledger.credits[b]]
               paid    == [b \in Bets |-> IF b \in Winners(r) THEN ledger.paid[b] + due[b]
                                         ELSE ledger.paid[b]]
    <3>1. ASSUME NEW b \in Bets
          PROVE  PayoutNow(b) \in Nat
      <4>1. session.current[ModeOf(b)] \in Panas \union {NoPana}
          BY <1>1 DEF SessionRow, Results, ModeOf, Modes
      <4> QED BY <4>1, BetsAssumption DEF PayoutNow
    <3>2. /\ ledger.credits \in [Bets -> Nat]
          /\ ledger.paid \in [Bets -> Nat]
        BY DEF TypeOK, Ledger
    <3>3. credits \in [Bets -> Nat] /\ paid \in [Bets -> Nat]
        BY <3>1, <3>2
    <3>4. ledger' = [ledger EXCEPT !.credits = credits, !.paid = paid]
        BY <1>10 DEF SettleBatch
    <3> HIDE DEF credits, paid
    <3> QED BY <3>3, <3>4 DEF TypeOK, Ledger
  <2>3. bets' \in [Bets -> BetStatuses]
      BY <1>10 DEF SettleBatch, TypeOK, BetStatuses
  <2>4. DOMAIN wallet' = Users
      BY <1>10 DEF SettleBatch
  <2> QED BY <1>10, <2>1, <2>2, <2>3, <2>4 DEF TypeOK, HoldsTask, SettleBatch
<1>11. CASE StoreSettledResult(r)
  <2> DEFINE pc == IF TaskOf(r).mode = "open" THEN "state"
                   ELSE IF w.bets = {} THEN "close" ELSE "remaining"
             row == ResultPart(session')
  <2>1. session' \in SessionRow
    <3>1. TaskOf(r).mode \in Modes /\ TaskOf(r).revision \in Nat
        BY <1>3, <1>11 DEF StoreSettledResult, TaskOf, Task
    <3> QED BY <1>1, <1>3, <1>11, <3>1, StoreSettledType DEF StoreSettledResult
  <2>2. row \in SessionRow
      BY <2>1, ResultPartType
  <2>3. MovesTo(pc, w.seen, row, w.bets)
    <3>1. worker' = [worker EXCEPT ![r].pc = pc, ![r].row = row]
        BY <1>11 DEF StoreSettledResult
    <3> HIDE DEF pc, row
    <3>2. [w EXCEPT !.pc = pc, !.row = row]
            = [w EXCEPT !.pc = pc, !.seen = w.seen, !.row = row, !.bets = w.bets]
        BY <1>1 DEF Worker
    <3> QED BY <1>1, <3>1, <3>2 DEF MovesTo
  <2>4. pc \in {"state", "close", "remaining"}
      OBVIOUS
  <2> HIDE DEF pc, row
  <2>5. /\ worker' \in [Runners -> Worker]
        /\ \A s \in Runners : HoldsTask(worker'[s], tasks')
    <3>1. w.pc = "store" /\ tasks' = tasks
        BY <1>11 DEF StoreSettledResult
    <3> QED BY <1>1, <1>2, <1>3, <2>2, <2>3, <2>4, <3>1
  <2> QED BY <1>11, <2>1, <2>5 DEF TypeOK, HoldsTask, StoreSettledResult
<1>12. CASE ReadRemaining(r)
  <2> DEFINE pc == IF \E b \in Bets : bets[b] = "pending" THEN "state" ELSE "close"
  <2>1. Goto(r, pc) /\ pc \in {"state", "close"} /\ w.pc = "remaining" /\ tasks' = tasks
      BY <1>12 DEF ReadRemaining
  <2> HIDE DEF pc
  <2>2. /\ worker' \in [Runners -> Worker]
        /\ \A s \in Runners : HoldsTask(worker'[s], tasks')
      BY <1>1, <1>8, <2>1
  <2> QED BY <1>12, <2>2 DEF TypeOK, HoldsTask, ReadRemaining
<1>13. CASE CloseSession(r)
  <2> DEFINE already == session.phase = "settled"
             pc == IF already THEN "catch" ELSE "state"
             row == IF already THEN w.row ELSE ResultPart(session')
  <2>1. session' \in SessionRow
      BY <1>1, <1>13, MarkSettledType DEF CloseSession
  <2>2. row \in SessionRow /\ pc \in {"catch", "state"}
      BY <1>3, <2>1, ResultPartType
  <2>3. MovesTo(pc, w.seen, row, w.bets)
    <3>1. worker' = [worker EXCEPT ![r].pc = pc, ![r].row = row]
        BY <1>1, <1>13 DEF CloseSession
    <3> HIDE DEF pc, row
    <3>2. [w EXCEPT !.pc = pc, !.row = row]
            = [w EXCEPT !.pc = pc, !.seen = w.seen, !.row = row, !.bets = w.bets]
        BY <1>1 DEF Worker
    <3> QED BY <1>1, <3>1, <3>2 DEF MovesTo
  <2> HIDE DEF pc, row, already
  <2>4. /\ worker' \in [Runners -> Worker]
        /\ \A s \in Runners : HoldsTask(worker'[s], tasks')
    <3>1. w.pc = "close" /\ tasks' = tasks
        BY <1>13 DEF CloseSession
    <3> QED BY <1>1, <1>2, <1>3, <2>2, <2>3, <3>1
  <2> QED BY <1>13, <2>1, <2>4 DEF TypeOK, HoldsTask, CloseSession
<1>14. ASSUME NEW pc \in {"done", "failed"}, EndHandler(r, pc), w.pc \notin {"idle", "next"},
              tasks' \in Seq(Task), DOMAIN tasks' = DOMAIN tasks
       PROVE  /\ worker' \in [Runners -> Worker]
              /\ \A s \in Runners : HoldsTask(worker'[s], tasks')
  <2>1. MovesTo(pc, NewSession, NewSession, {})
      BY <1>14 DEF EndHandler, MovesTo
  <2> QED BY <1>2, <1>14, <2>1, NewSessionType
<1>15. CASE WriteResultState(r)
  <2>1. session' \in SessionRow
      BY <1>1, <1>3, <1>15, StoreResultStateType DEF WriteResultState
  <2>2. Goto(r, "job") /\ w.pc = "state" /\ tasks' = tasks
      BY <1>15 DEF WriteResultState
  <2>3. /\ worker' \in [Runners -> Worker]
        /\ \A s \in Runners : HoldsTask(worker'[s], tasks')
      BY <1>1, <1>8, <2>2
  <2> QED BY <1>15, <2>1, <2>3 DEF TypeOK, HoldsTask, WriteResultState
<1>19. CASE CompleteJob(r)
  <2>1. tasks' \in Seq(Task) /\ DOMAIN tasks' = DOMAIN tasks
      BY <1>3, <1>5, <1>19 DEF CompleteJob
  <2>2. /\ worker' \in [Runners -> Worker]
        /\ \A s \in Runners : HoldsTask(worker'[s], tasks')
      BY <1>14, <1>19, <2>1 DEF CompleteJob
  <2> QED BY <1>19, <2>1, <2>2 DEF TypeOK, HoldsTask, CompleteJob
<1>16. CASE CatchError(r)
  <2>1. session' \in SessionRow
      BY <1>1, <1>3, <1>16, StoreFailedType DEF CatchError
  <2>2. tasks' \in Seq(Task) /\ DOMAIN tasks' = DOMAIN tasks
      BY <1>3, <1>5, <1>16 DEF CatchError
  <2>3. /\ worker' \in [Runners -> Worker]
        /\ \A s \in Runners : HoldsTask(worker'[s], tasks')
      BY <1>14, <1>16, <2>2 DEF CatchError
  <2> QED BY <1>16, <2>1, <2>2, <2>3 DEF TypeOK, HoldsTask, CatchError
<1>17. CASE ThrowError(r)
  <2>1. w.pc \notin {"idle", "next"} /\ tasks' = tasks
      BY <1>17 DEF ThrowError, InTry
  <2>2. Goto(r, "catch") \/ Goto(r, "failed")
      BY <1>17 DEF ThrowError
  <2>3. /\ worker' \in [Runners -> Worker]
        /\ \A s \in Runners : HoldsTask(worker'[s], tasks')
      BY <1>1, <1>8, <2>1, <2>2
  <2> QED BY <1>17, <2>3 DEF TypeOK, HoldsTask, ThrowError
<1>18. CASE AbandonRun(r)
  <2>1. /\ worker' \in [Runners -> Worker]
        /\ \A s \in Runners : HoldsTask(worker'[s], tasks')
    <3>1. worker' = [worker EXCEPT ![r] = IdleWorker] /\ tasks' = tasks
        BY <1>18 DEF AbandonRun
    <3>2. HoldsTask(IdleWorker, tasks)
        BY IdleWorkerType
    <3>3. /\ [worker EXCEPT ![r] = IdleWorker] \in [Runners -> Worker]
          /\ \A s \in Runners : HoldsTask([worker EXCEPT ![r] = IdleWorker][s], tasks)
        BY <1>1, <3>2, WorkerUpdateType
    <3> QED BY <3>1, <3>3
  <2> QED BY <1>18, <2>1 DEF TypeOK, HoldsTask, AbandonRun
<1> QED BY <1>6, <1>7, <1>9, <1>10, <1>11, <1>12, <1>13, <1>15, <1>16, <1>17, <1>18,
        <1>19

\* Every step keeps the type.
LEMMA NextType == TypeOK /\ [Next]_vars => TypeOK'
<1> SUFFICES ASSUME TypeOK, [Next]_vars PROVE TypeOK'
    OBVIOUS
<1>1. CASE Tick \/ ChangePhase \/ UserStep
    BY <1>1, UserStepType
<1>2. CASE AdminStep
    BY <1>2, ReceiveType, RequestStepType DEF AdminStep
<1>3. CASE \E r \in Runners : RunnerStep(r) \/ ThrowError(r) \/ AbandonRun(r)
    BY <1>3, RunnerStepType, SettleStepType DEF RunnerStep
<1>4. CASE UNCHANGED vars
    BY <1>4 DEF TypeOK, vars
<1> QED BY <1>1, <1>2, <1>3, <1>4 DEF Next

\* Type correctness: in every reachable state the documents, the requests in
\* flight and the workers are what the code takes them for, and a worker at
\* work holds a task that exists.
THEOREM TypeCorrect == Spec => []TypeOK
BY InitType, NextType, PTL DEF Spec

-----------------------------------------------------------------------------
(* What a step of a runner does to its worker and to the tasks *)

WorkerStep(r) == RunnerStep(r) \/ ThrowError(r) \/ AbandonRun(r)

LEMMA OtherWorkers ==
    ASSUME TypeOK, NEW r \in Runners, WorkerStep(r), NEW s \in Runners, s # r
    PROVE  worker'[s] = worker[s]
<1>1. worker \in [Runners -> Worker]
    BY DEF TypeOK
<1> QED BY <1>1 DEF WorkerStep, RunnerStep, StartRun, ClaimTask, EndRun, CompleteTask,
       RetryOrFailTask, FinishTask, CheckSession, ReadBets, RecheckSession, SettleBatch,
       StoreSettledResult, ReadRemaining, CloseSession, WriteResultState, CompleteJob,
       CatchError, ThrowError, AbandonRun, Goto, EndHandler

\* A worker comes to hold a batch by reading the pending bets only, and lets it
\* go as a whole.
LEMMA WorkerHolds ==
    ASSUME TypeOK, NEW r \in Runners, WorkerStep(r), NEW s \in Runners
    PROVE  worker'[s].bets \subseteq worker[s].bets \union Pending
<1>1. worker \in [Runners -> Worker] /\ IdleWorker.bets = {}
    BY DEF TypeOK, IdleWorker
<1>2. CASE s # r
    BY <1>2, OtherWorkers
<1>3. CASE s = r
  <2>1. CASE StartRun(r) \/ EndRun(r) \/ CompleteTask(r) \/ RetryOrFailTask(r) \/ AbandonRun(r)
      BY <1>1, <1>3, <2>1 DEF StartRun, EndRun, CompleteTask, RetryOrFailTask, AbandonRun,
         FinishTask, IdleWorker
  <2>2. CASE ClaimTask(r)
      BY <1>1, <1>3, <2>2 DEF ClaimTask, Worker
  <2>3. CASE ReadBets(r)
      BY <1>1, <1>3, <2>3 DEF ReadBets, FindPending, Pending, Worker
  <2>4. CASE CheckSession(r) \/ StoreSettledResult(r) \/ CloseSession(r)
      BY <1>1, <1>3, <2>4 DEF CheckSession, StoreSettledResult, CloseSession, Worker
  <2>5. CASE \/ RecheckSession(r) \/ SettleBatch(r) \/ ReadRemaining(r) \/ WriteResultState(r)
             \/ ThrowError(r)
      BY <1>1, <1>3, <2>5 DEF RecheckSession, SettleBatch, ReadRemaining, WriteResultState,
         ThrowError, Goto, Worker
  <2>6. CASE CompleteJob(r) \/ CatchError(r)
      BY <1>1, <1>3, <2>6 DEF CompleteJob, CatchError, EndHandler, Worker
  <2> QED BY <2>1, <2>2, <2>3, <2>4, <2>5, <2>6 DEF WorkerStep, RunnerStep
<1> QED BY <1>2, <1>3

TasksKept ==
    /\ DOMAIN tasks' = DOMAIN tasks
    /\ \A i \in DOMAIN tasks : /\ tasks'[i].mode = tasks[i].mode
                               /\ tasks'[i].pana = tasks[i].pana
                               /\ tasks'[i].revision = tasks[i].revision

LEMMA TasksKeptWrites ==
    ASSUME NEW ts \in Seq(Task), NEW i, NEW x, NEW y, NEW j \in DOMAIN ts
    PROVE  /\ DOMAIN [ts EXCEPT ![i].status = x] = DOMAIN ts
           /\ DOMAIN [ts EXCEPT ![i].job = x] = DOMAIN ts
           /\ DOMAIN [ts EXCEPT ![i].attempts = y, ![i].status = x] = DOMAIN ts
           /\ [ts EXCEPT ![i].status = x][j].mode = ts[j].mode
           /\ [ts EXCEPT ![i].status = x][j].pana = ts[j].pana
           /\ [ts EXCEPT ![i].status = x][j].revision = ts[j].revision
           /\ [ts EXCEPT ![i].job = x][j].mode = ts[j].mode
           /\ [ts EXCEPT ![i].job = x][j].pana = ts[j].pana
           /\ [ts EXCEPT ![i].job = x][j].revision = ts[j].revision
           /\ [ts EXCEPT ![i].attempts = y, ![i].status = x][j].mode = ts[j].mode
           /\ [ts EXCEPT ![i].attempts = y, ![i].status = x][j].pana = ts[j].pana
           /\ [ts EXCEPT ![i].attempts = y, ![i].status = x][j].revision = ts[j].revision
<1>1. ts \in [1 .. Len(ts) -> Task] /\ ts[j] \in Task
    OBVIOUS
<1> QED BY <1>1 DEF Task

\* A worker writes the progress of tasks, never what was declared.
LEMMA WorkerKeepsTasks ==
    ASSUME TypeOK, NEW r \in Runners, WorkerStep(r)
    PROVE  TasksKept
<1>1. tasks \in Seq(Task)
    BY DEF TypeOK
<1>2. CASE tasks' = tasks
    BY <1>2 DEF TasksKept
<1>3. ASSUME NEW i, NEW x, tasks' = [tasks EXCEPT ![i].status = x] PROVE TasksKept
    BY <1>1, <1>3, TasksKeptWrites DEF TasksKept
<1>4. ASSUME NEW i, NEW x, tasks' = [tasks EXCEPT ![i].job = x] PROVE TasksKept
    BY <1>1, <1>4, TasksKeptWrites DEF TasksKept
<1>5. ASSUME NEW i, NEW x, NEW y, tasks' = [tasks EXCEPT ![i].attempts = y, ![i].status = x]
      PROVE  TasksKept
    BY <1>1, <1>5, TasksKeptWrites DEF TasksKept
<1>6. CASE \/ StartRun(r) \/ EndRun(r) \/ SettleBatch(r) \/ StoreSettledResult(r)
           \/ ReadRemaining(r) \/ CloseSession(r) \/ WriteResultState(r) \/ ThrowError(r)
           \/ AbandonRun(r)
    BY <1>2, <1>6 DEF StartRun, EndRun, SettleBatch, StoreSettledResult, ReadRemaining,
       CloseSession, WriteResultState, ThrowError, AbandonRun
<1>7. CASE ClaimTask(r) \/ CompleteTask(r)
    BY <1>3, <1>7 DEF ClaimTask, CompleteTask
<1>8. CASE RetryOrFailTask(r)
    BY <1>5, <1>8 DEF RetryOrFailTask
<1>9. CASE \/ CheckSession(r) \/ ReadBets(r) \/ RecheckSession(r) \/ CompleteJob(r)
           \/ CatchError(r)
    BY <1>2, <1>4, <1>9 DEF CheckSession, ReadBets, RecheckSession, CompleteJob, CatchError
<1> QED BY <1>6, <1>7, <1>8, <1>9 DEF WorkerStep, RunnerStep

\* The bets of a task that are there to be decided when its worker reads them.
Found(r) == {b \in FindPending(TaskOf(r).mode) : InPass(b, TaskOf(r).mode)}

\* A worker holds a batch from its reading the pending bets to its writing them.
LEMMA HeldAfter ==
    ASSUME TypeOK, NEW r \in Runners, WorkerStep(r), NEW s \in Runners
    PROVE  /\ ReadBets(r) /\ s = r => Held(s)' \subseteq Found(r)
           /\ ~(ReadBets(r) /\ s = r) => Held(s)' \subseteq Held(s)
           /\ SettleBatch(r) /\ s = r => Held(s)' = {}
<1>1. /\ worker \in [Runners -> Worker] /\ tasks \in Seq(Task)
      /\ worker[s].pc \notin {"idle", "next"} => worker[s].task \in DOMAIN tasks
    BY DEF TypeOK
<1>2. TasksKept
    BY WorkerKeepsTasks
<1>3. CASE s # r
  <2>1. worker'[s] = worker[s]
      BY <1>3, OtherWorkers
  <2>2. worker[s].pc \in {"recheck", "commit"} => TaskOf(s)'.mode = TaskOf(s).mode
      BY <1>1, <1>2, <2>1 DEF TasksKept, TaskOf
  <2> QED BY <1>3, <2>1, <2>2 DEF Held, Decided
<1>4. ASSUME s = r, worker'[r].pc \notin {"recheck", "commit"} PROVE Held(s)' = {}
    BY <1>4 DEF Held
<1>5. CASE s = r
  <2>1. CASE StartRun(r) \/ EndRun(r) \/ CompleteTask(r) \/ RetryOrFailTask(r) \/ AbandonRun(r)
    <3>1. ASSUME NEW queue, worker' = [worker EXCEPT ![r] =
                   [IdleWorker EXCEPT !.pc = "next", !.queue = queue]]
          PROVE  worker'[r].pc = "next"
        BY <1>1, <3>1 DEF IdleWorker
    <3>2. ASSUME worker' = [worker EXCEPT ![r] = IdleWorker] PROVE worker'[r].pc = "idle"
        BY <1>1, <3>2 DEF IdleWorker
    <3>3. worker'[r].pc \in {"next", "idle"}
        BY <2>1, <3>1, <3>2 DEF StartRun, EndRun, CompleteTask, RetryOrFailTask, AbandonRun,
           FinishTask
    <3> QED BY <1>4, <1>5, <2>1, <3>3
            DEF StartRun, EndRun, CompleteTask, RetryOrFailTask, AbandonRun, ReadBets, SettleBatch
  <2>2. CASE ClaimTask(r)
      BY <1>1, <1>4, <1>5, <2>2 DEF ClaimTask, Worker, ReadBets, SettleBatch
  <2>3. CASE CheckSession(r)
      BY <1>1, <1>4, <1>5, <2>3 DEF CheckSession, Worker, ReadBets, SettleBatch
  <2>4. CASE ReadBets(r)
    <3>1. worker'[r].bets = FindPending(TaskOf(r).mode) /\ worker'[r].task = worker[r].task
        BY <1>1, <2>4 DEF ReadBets, Worker
    <3>2. TaskOf(r)'.mode = TaskOf(r).mode
        BY <1>1, <1>2, <1>5, <2>4, <3>1 DEF ReadBets, TasksKept, TaskOf
    <3>3. ~SettleBatch(r)
        BY <2>4 DEF ReadBets, SettleBatch
    <3> QED BY <1>5, <2>4, <3>1, <3>2, <3>3 DEF Held, Decided, Found
  <2>5. CASE RecheckSession(r)
    <3>1. worker'[r].bets = worker[r].bets /\ worker'[r].task = worker[r].task
        BY <1>1, <2>5 DEF RecheckSession, Goto, Worker
    <3>2. TaskOf(r)'.mode = TaskOf(r).mode
        BY <1>1, <1>2, <1>5, <2>5, <3>1 DEF RecheckSession, TasksKept, TaskOf
    <3> QED BY <1>5, <2>5, <3>1, <3>2
            DEF Held, Decided, ReadBets, RecheckSession, SettleBatch
  <2>6. CASE SettleBatch(r)
      BY <1>1, <1>4, <1>5, <2>6 DEF SettleBatch, Goto, Worker, ReadBets
  <2>7. CASE StoreSettledResult(r) \/ CloseSession(r)
    <3>1. worker'[r].pc \notin {"recheck", "commit"}
        BY <1>1, <2>7 DEF StoreSettledResult, CloseSession, Worker
    <3> QED BY <1>4, <1>5, <2>7, <3>1 DEF StoreSettledResult, CloseSession, ReadBets, SettleBatch
  <2>8. CASE ReadRemaining(r) \/ WriteResultState(r)
      BY <1>1, <1>4, <1>5, <2>8 DEF ReadRemaining, WriteResultState, Goto, Worker, ReadBets,
         SettleBatch
  <2>9. CASE CompleteJob(r) \/ CatchError(r)
      BY <1>1, <1>4, <1>5, <2>9 DEF CompleteJob, CatchError, EndHandler, Worker, ReadBets,
         SettleBatch
  <2>10. CASE ThrowError(r)
    <3>1. worker'[r].pc \in {"catch", "failed"}
        BY <1>1, <2>10 DEF ThrowError, Goto, Worker
    <3> QED BY <1>4, <1>5, <3>1
  <2> QED BY <1>5, <2>1, <2>2, <2>3, <2>4, <2>5, <2>6, <2>7, <2>8, <2>9, <2>10
          DEF WorkerStep, RunnerStep
<1> QED BY <1>3, <1>5

-----------------------------------------------------------------------------
(* A bet is decided and paid once, unless it is contested *)

Placed == {b \in Bets : bets[b] # "none"}

PlacingIsNew == \A b \in placing : bets[b] = "none"

\* A batch about to be written holds pending bets only, because nothing else
\* decides a bet but a batch that shares it, and such a bet is contested.
HeldIsPending == \A r \in Runners : Held(r) \ past.contested \subseteq Pending

HeldApart ==
    \A r, s \in Runners : r # s => Held(r) \intersect Held(s) \subseteq past.contested

BookInv ==
    /\ TypeOK /\ PlacingIsNew /\ HeldIsPending /\ HeldApart
    /\ past.contested \subseteq Placed
    /\ PaidOnceUncontested

LEMMA BookInvInit == Init => BookInv
<1> SUFFICES ASSUME Init PROVE BookInv
    OBVIOUS
<1>1. \A r \in Runners : Held(r) = {}
    BY DEF Init, Held, IdleWorker
<1>2. HeldIsPending /\ HeldApart
    BY <1>1 DEF HeldIsPending, HeldApart
<1>3. PlacingIsNew /\ PaidOnceUncontested /\ past.contested = {}
    BY DEF Init, PlacingIsNew, PaidOnceUncontested
<1> QED BY <1>2, <1>3, InitType DEF BookInv

\* What a batch decides was pending when it is written, or is contested.
LEMMA SettleBatchIsDecide ==
    ASSUME BookInv, NEW r \in Runners, SettleBatch(r)
    PROVE  /\ Decided(r) = Held(r) /\ Decided(r) \subseteq Placed
           /\ Decided(r) \ past.contested \subseteq Pending
           /\ Winners(r) \subseteq Decided(r)
           /\ ledger'.credits = [b \in Bets |-> IF b \in Winners(r) THEN ledger.credits[b] + 1
                                               ELSE ledger.credits[b]]
           /\ Book!Decide(Winners(r), Decided(r) \ Winners(r))
<1>1. Decided(r) = Held(r)
    BY DEF Held, SettleBatch
<1>2. Decided(r) \ past.contested \subseteq Pending
    BY <1>1 DEF BookInv, HeldIsPending
<1>3. Decided(r) \subseteq Placed
    BY <1>2 DEF BookInv, Pending, Placed
<1>4. Winners(r) \subseteq Decided(r)
    BY DEF Winners
<1>5. ledger'.credits = [b \in Bets |-> IF b \in Winners(r) THEN ledger.credits[b] + 1
                                       ELSE ledger.credits[b]]
    BY DEF SettleBatch, BookInv, TypeOK, Ledger
<1>6. Book!Decide(Winners(r), Decided(r) \ Winners(r))
  <2>1. past'.contested = past.contested
      BY DEF SettleBatch
  <2>2. bets' = [b \in Bets |-> CASE b \in Winners(r) -> "won"
                                  [] b \in Decided(r) \ Winners(r) -> "lost"
                                  [] OTHER -> bets[b]]
      BY DEF SettleBatch
  <2>3. \A b \in (Winners(r) \union (Decided(r) \ Winners(r))) \ past.contested :
          bets[b] = "pending"
      BY <1>2, <1>4 DEF Pending
  <2> QED BY <1>5, <2>1, <2>2, <2>3 DEF Book!Decide
<1> QED BY <1>1, <1>2, <1>3, <1>4, <1>5, <1>6

\* A step that neither places a bet nor writes a batch; it may read one.
QuietStep ==
    /\ UNCHANGED <<bets, ledger, placing>>
    /\ HeldIsPending' /\ HeldApart'
    /\ \E S \in SUBSET Pending : past'.contested = past.contested \union S

LEMMA WorkerStepIsQuiet ==
    ASSUME BookInv, NEW r \in Runners, WorkerStep(r), ~SettleBatch(r)
    PROVE  QuietStep
<1>1. TypeOK /\ HeldIsPending /\ HeldApart /\ past \in History
    BY DEF BookInv, TypeOK
<1>2. UNCHANGED <<bets, ledger, placing>>
    BY DEF WorkerStep, RunnerStep, StartRun, ClaimTask, EndRun, CompleteTask, RetryOrFailTask,
       CheckSession, ReadBets, RecheckSession, StoreSettledResult, ReadRemaining, CloseSession,
       WriteResultState, CompleteJob, CatchError, ThrowError, AbandonRun
<1>3. Pending' = Pending
    BY <1>2 DEF Pending
<1>4. CASE ~ReadBets(r)
  <2>1. past' = past
      BY <1>4 DEF WorkerStep, RunnerStep, StartRun, ClaimTask, EndRun, CompleteTask,
         RetryOrFailTask, CheckSession, RecheckSession, StoreSettledResult, ReadRemaining,
         CloseSession, WriteResultState, CompleteJob, CatchError, ThrowError, AbandonRun
  <2>2. \A s \in Runners : Held(s)' \subseteq Held(s)
      BY <1>1, <1>4, HeldAfter
  <2>3. HeldIsPending' /\ HeldApart'
      BY <1>1, <1>3, <2>1, <2>2 DEF HeldIsPending, HeldApart
  <2>4. past'.contested = past.contested \union {}
      BY <2>1
  <2> QED BY <1>2, <2>3, <2>4 DEF QuietStep
<1>5. CASE ReadBets(r)
  <2> DEFINE shared == {b \in FindPending(TaskOf(r).mode) :
                          /\ InPass(b, TaskOf(r).mode)
                          /\ \E s \in Runners \ {r} : b \in Held(s)}
  <2>1. past'.contested = past.contested \union shared
      BY <1>1, <1>5 DEF ReadBets, History
  <2>2. Held(r)' \subseteq Found(r) /\ \A s \in Runners : s # r => Held(s)' \subseteq Held(s)
      BY <1>1, <1>5, HeldAfter
  <2>3. Found(r) \subseteq Pending /\ shared \in SUBSET Pending
      BY DEF Found, FindPending, Pending
  <2>4. HeldIsPending'
      BY <1>1, <1>3, <2>1, <2>2, <2>3 DEF HeldIsPending
  <2>5. ASSUME NEW s \in Runners, s # r PROVE Held(r)' \intersect Held(s)' \subseteq shared
      BY <2>2, <2>5 DEF Found
  <2>6. HeldApart'
    <3> SUFFICES ASSUME NEW x \in Runners, NEW y \in Runners, x # y
                 PROVE  Held(x)' \intersect Held(y)' \subseteq past'.contested
        BY DEF HeldApart
    <3>1. CASE x = r
        BY <2>1, <2>5, <3>1
    <3>2. CASE y = r
        BY <2>1, <2>5, <3>2
    <3>3. CASE x # r /\ y # r
        BY <1>1, <2>1, <2>2, <3>3 DEF HeldApart
    <3> QED BY <3>1, <3>2, <3>3
  <2> QED BY <1>2, <2>1, <2>3, <2>4, <2>6 DEF QuietStep
<1> QED BY <1>4, <1>5

\* While a worker and its task stay, so does its batch.
LEMMA HeldStays ==
    ASSUME TypeOK, worker' = worker, \A i \in DOMAIN tasks : tasks'[i].mode = tasks[i].mode,
           NEW s \in Runners
    PROVE  Held(s)' = Held(s)
<1>1. worker[s].pc \in {"recheck", "commit"} => TaskOf(s)'.mode = TaskOf(s).mode
    BY DEF TypeOK, TaskOf
<1> QED BY <1>1 DEF Held, Decided

LEMMA AdminKeepsTasks ==
    ASSUME TypeOK, AdminStep
    PROVE  \A i \in DOMAIN tasks : tasks'[i].mode = tasks[i].mode
<1>1. CASE tasks' = tasks
    BY <1>1
<1>2. ASSUME NEW q \in requests, DeclareStep(q)
      PROVE  \A i \in DOMAIN tasks : tasks'[i].mode = tasks[i].mode
    BY <1>2 DEF TypeOK, DeclareStep
<1> QED BY <1>1, <1>2 DEF AdminStep, ReceiveDeclare, ReceiveReset, ReceiveLock, ReceiveCancel,
           Receive, ResetStep, LockStep, CancelStep, RequestFails

\* A step places or validates a bet, writes a batch, or is quiet.
LEMMA NextCases ==
    ASSUME BookInv, [Next]_vars
    PROVE  \/ UserStep
           \/ \E r \in Runners : SettleBatch(r)
           \/ QuietStep
<1>1. ASSUME UNCHANGED <<bets, ledger, placing, worker>>, past'.contested = past.contested,
             \A i \in DOMAIN tasks : tasks'[i].mode = tasks[i].mode
      PROVE  QuietStep
  <2>1. \A s \in Runners : Held(s)' = Held(s)
      BY <1>1, HeldStays DEF BookInv
  <2>2. Pending' = Pending
      BY <1>1 DEF Pending
  <2>3. HeldIsPending' /\ HeldApart'
      BY <1>1, <2>1, <2>2 DEF BookInv, HeldIsPending, HeldApart
  <2>4. past'.contested = past.contested \union {}
      BY <1>1
  <2> QED BY <1>1, <2>3, <2>4 DEF QuietStep
<1>2. CASE Tick \/ ChangePhase
    BY <1>1, <1>2 DEF Tick, ChangePhase, WritePhase
<1>3. CASE AdminStep
  <2>1. UNCHANGED <<bets, ledger, placing, worker>> /\ past'.contested = past.contested
      BY <1>3 DEF AdminStep, ReceiveDeclare, ReceiveReset, ReceiveLock, ReceiveCancel, Receive,
         DeclareStep, ResetStep, LockStep, CancelStep, RequestFails, BookInv, TypeOK, History
  <2> QED BY <1>1, <1>3, <2>1, AdminKeepsTasks DEF BookInv
<1>4. CASE \E r \in Runners : RunnerStep(r) \/ ThrowError(r) \/ AbandonRun(r)
    BY <1>4, WorkerStepIsQuiet DEF WorkerStep
<1>5. CASE UNCHANGED vars
    BY <1>1, <1>5 DEF vars
<1> QED BY <1>2, <1>3, <1>4, <1>5 DEF Next

LEMMA UserStepKeepsBook ==
    ASSUME BookInv, UserStep
    PROVE  /\ PlacingIsNew' /\ HeldIsPending' /\ HeldApart' /\ past' = past
           /\ past'.contested \subseteq Placed' /\ PaidOnceUncontested'
           /\ UNCHANGED <<bets, ledger.credits>> \/ \E b \in Bets : Book!Place(b)
<1> PICK b \in Bets : ValidateBet(b) \/ PlaceBet(b) \/ RejectBet(b)
    BY DEF UserStep
<1>1. worker' = worker /\ tasks' = tasks /\ past' = past
    BY DEF ValidateBet, PlaceBet, RejectBet
<1>2. \A s \in Runners : Held(s)' = Held(s)
    BY <1>1, HeldStays DEF BookInv
<1>3. HeldApart'
    BY <1>1, <1>2 DEF BookInv, HeldApart
<1>4. CASE ValidateBet(b) \/ RejectBet(b)
    BY <1>1, <1>2, <1>3, <1>4 DEF ValidateBet, RejectBet, BookInv, TypeOK, PlacingIsNew,
       HeldIsPending, PaidOnceUncontested, Pending, Placed
<1>5. CASE PlaceBet(b)
  <2>1. bets[b] = "none" /\ bets' = [bets EXCEPT ![b] = "pending"] /\ bets \in [Bets -> BetStatuses]
      BY <1>5 DEF PlaceBet, BookInv, PlacingIsNew, TypeOK
  <2>2. ledger'.credits = ledger.credits /\ placing' = placing \ {b} /\ placing \subseteq Bets
      BY <1>5 DEF PlaceBet, BookInv, TypeOK, Ledger
  <2>3. Book!Place(b)
      BY <1>1, <2>1, <2>2 DEF Book!Place
  <2>4. Pending \subseteq Pending' /\ Placed \subseteq Placed'
      BY <2>1 DEF Pending, Placed
  <2>5. HeldIsPending' /\ past'.contested \subseteq Placed'
      BY <1>1, <1>2, <2>4 DEF BookInv, HeldIsPending
  <2>6. PlacingIsNew'
      BY <2>1, <2>2 DEF BookInv, PlacingIsNew
  <2>7. PaidOnceUncontested'
      BY <1>1, <2>1, <2>2 DEF BookInv, PaidOnceUncontested
  <2> QED BY <1>1, <1>3, <2>3, <2>5, <2>6, <2>7
<1> QED BY <1>4, <1>5

\* Writing a batch decides no bet of another worker's batch that is not contested.
LEMMA SettleBatchKeepsBook ==
    ASSUME BookInv, NEW r \in Runners, SettleBatch(r)
    PROVE  /\ PlacingIsNew' /\ HeldIsPending' /\ HeldApart'
           /\ past'.contested \subseteq Placed' /\ PaidOnceUncontested'
<1>1. /\ Decided(r) = Held(r) /\ Decided(r) \subseteq Placed
      /\ Decided(r) \ past.contested \subseteq Pending
      /\ Winners(r) \subseteq Decided(r)
      /\ ledger'.credits = [b \in Bets |-> IF b \in Winners(r) THEN ledger.credits[b] + 1
                                          ELSE ledger.credits[b]]
    BY SettleBatchIsDecide
<1>2. /\ bets' = [b \in Bets |-> CASE b \in Winners(r) -> "won"
                                  [] b \in Decided(r) \ Winners(r) -> "lost"
                                  [] OTHER -> bets[b]]
      /\ past' = past /\ placing' = placing
    BY DEF SettleBatch
<1>3. PlacingIsNew'
  <2>1. placing \subseteq Bets
      BY DEF BookInv, TypeOK
  <2> QED BY <1>1, <1>2, <2>1 DEF BookInv, PlacingIsNew, Placed
<1>4. Held(r)' = {} /\ \A s \in Runners : Held(s)' \subseteq Held(s)
  <2>1. ~ReadBets(r)
      BY DEF SettleBatch, ReadBets
  <2> QED BY <2>1, HeldAfter DEF BookInv, WorkerStep, RunnerStep
<1>5. HeldIsPending'
  <2> SUFFICES ASSUME NEW s \in Runners, NEW b \in Held(s)' \ past.contested
               PROVE  b \in Pending'
      BY <1>2 DEF HeldIsPending
  <2>1. b \in Held(s) /\ b \notin Held(r) /\ b \in Pending
      BY <1>4 DEF BookInv, HeldIsPending, HeldApart
  <2> QED BY <1>1, <1>2, <2>1 DEF Pending
<1>6. HeldApart'
    BY <1>2, <1>4 DEF BookInv, HeldApart
<1>7. past'.contested \subseteq Placed'
    BY <1>2 DEF BookInv, Placed
<1>8. PaidOnceUncontested'
    BY <1>1, <1>2 DEF BookInv, PaidOnceUncontested, Pending
<1> QED BY <1>3, <1>5, <1>6, <1>7, <1>8

\* Every step keeps the inductive invariant.
LEMMA BookInvNext ==
    ASSUME BookInv, [Next]_vars
    PROVE  BookInv'
<1>1. TypeOK'
    BY NextType DEF BookInv
<1>2. CASE QuietStep
  <2>1. PlacingIsNew' /\ past'.contested \subseteq Placed'
      BY <1>2 DEF QuietStep, BookInv, PlacingIsNew, Placed, Pending
  <2>2. PaidOnceUncontested'
      BY <1>2 DEF QuietStep, BookInv, PaidOnceUncontested
  <2> QED BY <1>1, <1>2, <2>1, <2>2 DEF QuietStep, BookInv
<1> QED BY <1>1, <1>2, NextCases, UserStepKeepsBook, SettleBatchKeepsBook DEF BookInv

\* A contested bet stays contested.
LEMMA ContestedStays ==
    ASSUME BookInv, [Next]_vars
    PROVE  past.contested \subseteq past'.contested
<1>1. CASE \E r \in Runners : SettleBatch(r)
    BY <1>1 DEF SettleBatch
<1> QED BY <1>1, NextCases, UserStepKeepsBook DEF QuietStep

\* Every step of the settlement is a step of the bet book.
LEMMA BookStep ==
    ASSUME BookInv, [Next]_vars
    PROVE  [Book!Next]_(Book!vars)
<1>1. CASE UserStep
    BY <1>1, UserStepKeepsBook DEF Book!Next, Book!vars
<1>2. ASSUME NEW r \in Runners, SettleBatch(r)
      PROVE  [Book!Next]_(Book!vars)
  <2>1. Winners(r) \in SUBSET Bets /\ Decided(r) \ Winners(r) \in SUBSET Bets
      BY <1>2, SettleBatchIsDecide DEF Placed
  <2> QED BY <1>2, <2>1, SettleBatchIsDecide DEF Book!Next
<1>3. CASE QuietStep
  <2> PICK S \in SUBSET Pending : past'.contested = past.contested \union S
      BY <1>3 DEF QuietStep
  <2>1. Book!Contest(S) /\ S \in SUBSET Bets
      BY <1>3 DEF QuietStep, Book!Contest, Pending
  <2> QED BY <2>1 DEF Book!Next
<1> QED BY <1>1, <1>2, <1>3, NextCases

\* A winning bet is credited exactly once and any other bet never, unless two
\* runs had it in their batches at one time: however often runs overlap, die and
\* start again, and tasks are retried, reset or left behind.
THEOREM WinnersPaidOnce == Spec => []PaidOnceUncontested
<1>1. BookInv => PaidOnceUncontested
    BY DEF BookInv
<1> QED BY <1>1, BookInvInit, BookInvNext, PTL DEF Spec

\* A decided bet keeps its outcome, unless two runs had it in their batches at
\* one time.
THEOREM DecidedForGood == Spec => OutcomesAreFinal
<1> DEFINE Final == \A b \in Bets \ past.contested :
                      bets[b] \in {"won", "lost"} => bets'[b] = bets[b]
<1>1. ASSUME BookInv, [Next]_vars
      PROVE  [Final]_vars
  <2>1. CASE UserStep
    <3>1. CASE UNCHANGED bets
        BY <3>1
    <3>2. ASSUME NEW b \in Bets, Book!Place(b)
          PROVE  Final
        BY <3>2 DEF Book!Place, BookInv, TypeOK
    <3> QED BY <1>1, <2>1, <3>1, <3>2, UserStepKeepsBook
  <2>2. ASSUME NEW r \in Runners, SettleBatch(r)
        PROVE  Final
      BY <1>1, <2>2, SettleBatchIsDecide DEF SettleBatch, Pending
  <2>3. CASE QuietStep
      BY <2>3 DEF QuietStep
  <2> QED BY <1>1, <2>1, <2>2, <2>3, NextCases
<1> QED BY <1>1, BookInvInit, BookInvNext, PTL DEF Spec, OutcomesAreFinal

\* The settlement implements the bet book, with the bets that two runs had in
\* their batches at one time as its contested bets.
THEOREM SettlementImplementsBetBook == Spec => IsBetBook
<1>1. Init => Book!Init
    BY DEF Init, Book!Init
<1> QED BY <1>1, BookInvInit, BookInvNext, BookStep, PTL DEF Spec, IsBetBook, Book!Spec

-----------------------------------------------------------------------------
(* The balance, the exposure and the ledger *)

Amounts == [balance : Int, exposure : Int]
Staked(u, S) == SumFunctionOnSet(Stake, OwnedBy(u, S))
PaidTo(u, paid) == SumFunctionOnSet(paid, OwnedBy(u, Bets))

LEMMA OwnedIsSummable ==
    ASSUME NEW u, NEW S \in SUBSET Bets, NEW f \in [Bets -> Nat]
    PROVE  /\ Summable(f, OwnedBy(u, S))
           /\ SumFunctionOnSet(f, OwnedBy(u, S)) \in Int
<1>1. IsFiniteSet(OwnedBy(u, S)) /\ OwnedBy(u, S) \subseteq Bets
    BY BetsAssumption, FS_Subset DEF OwnedBy
<1>2. Summable(f, OwnedBy(u, S))
    BY <1>1 DEF Summable
<1> QED BY <1>2, SumType

LEMMA StakedType ==
    ASSUME NEW u, NEW S \in SUBSET Bets
    PROVE  Summable(Stake, OwnedBy(u, S)) /\ Staked(u, S) \in Int
BY OwnedIsSummable, BetsAssumption DEF Staked

\* One more bet: its owner has its stake more, everybody else what they had.
LEMMA StakedAdd ==
    ASSUME NEW u, NEW S \in SUBSET Bets, NEW b \in Bets, b \notin S
    PROVE  Staked(u, S \union {b}) = Staked(u, S) + IF Owner[b] = u THEN Stake[b] ELSE 0
<1>1. CASE Owner[b] = u
  <2> PICK T : T = OwnedBy(u, S)
      OBVIOUS
  <2>1. OwnedBy(u, S \union {b}) = T \union {b} /\ b \notin T
      BY <1>1 DEF OwnedBy
  <2>2. Summable(Stake, T \union {b})
      BY <2>1, StakedType
  <2> QED BY <1>1, <2>1, <2>2, SumAdd DEF Staked
<1>2. CASE Owner[b] # u
  <2>1. OwnedBy(u, S \union {b}) = OwnedBy(u, S)
      BY <1>2 DEF OwnedBy
  <2> QED BY <1>2, <2>1, StakedType DEF Staked
<1> QED BY <1>1, <1>2

LEMMA StakedMinus ==
    ASSUME NEW u, NEW S \in SUBSET Bets, NEW T \in SUBSET S
    PROVE  Staked(u, S \ T) = Staked(u, S) - Staked(u, T)
<1> PICK mine, part : mine = OwnedBy(u, S) /\ part = OwnedBy(u, T)
    OBVIOUS
<1>1. OwnedBy(u, S \ T) = mine \ part /\ part \in SUBSET mine
    BY DEF OwnedBy
<1>2. Summable(Stake, mine)
    BY StakedType
<1>3. SumFunctionOnSet(Stake, mine \ part)
        = SumFunctionOnSet(Stake, mine) - SumFunctionOnSet(Stake, part)
    BY <1>1, <1>2, SumMinus
<1> QED BY <1>1, <1>3 DEF Staked

\* What a user was paid grows by what the user's winners are due.
LEMMA PaidGrows ==
    ASSUME NEW u, NEW paid \in [Bets -> Nat], NEW due \in [Bets -> Nat],
           NEW winners \in SUBSET Bets, NEW after,
           after = [b \in Bets |-> IF b \in winners THEN paid[b] + due[b] ELSE paid[b]]
    PROVE  PaidTo(u, after) = PaidTo(u, paid) + SumFunctionOnSet(due, OwnedBy(u, winners))
<1> PICK S, T : S = OwnedBy(u, Bets) /\ T = OwnedBy(u, winners)
    OBVIOUS
<1>1. S \subseteq Bets /\ T \in SUBSET S /\ \A b \in S : b \in T <=> b \in winners
    BY DEF OwnedBy
<1>2. Summable(paid, S) /\ Summable(due, T)
    BY OwnedIsSummable
<1>3. \A b \in S : after[b] = IF b \in T THEN paid[b] + due[b] ELSE paid[b]
    BY <1>1
<1>4. SumFunctionOnSet(after, S) = SumFunctionOnSet(paid, S) + SumFunctionOnSet(due, T)
    BY <1>1, <1>2, <1>3, SumRaise
<1> QED BY <1>4 DEF PaidTo

\* A bet that is placed is not placed again, also not one that a worker holds.
WalletInv ==
    /\ TypeOK /\ PlacingIsNew
    /\ wallet \in [Users -> Amounts]
    /\ \A r \in Runners : worker[r].bets \subseteq Placed
    /\ ledger.debits \subseteq Placed
    /\ WalletMatchesLedger

\* A step that moves no money.
MoneylessStep ==
    /\ UNCHANGED <<bets, wallet, ledger, placing>>
    /\ \A r \in Runners : worker'[r].bets \subseteq Placed

LEMMA MoneyCases ==
    ASSUME WalletInv, [Next]_vars
    PROVE  \/ \E b \in Bets : ValidateBet(b) \/ PlaceBet(b) \/ RejectBet(b)
           \/ \E r \in Runners : SettleBatch(r)
           \/ MoneylessStep
<1>1. ASSUME UNCHANGED <<bets, wallet, ledger, placing, worker>>
      PROVE  MoneylessStep
    BY <1>1 DEF WalletInv, MoneylessStep
<1>2. CASE Tick \/ ChangePhase
    BY <1>1, <1>2 DEF Tick, ChangePhase, WritePhase
<1>3. CASE AdminStep
    BY <1>1, <1>3 DEF AdminStep, ReceiveDeclare, ReceiveReset, ReceiveLock, ReceiveCancel, Receive,
                      DeclareStep, ResetStep, LockStep, CancelStep, RequestFails
<1>4. ASSUME NEW r \in Runners, WorkerStep(r), ~SettleBatch(r)
      PROVE  MoneylessStep
  <2>1. UNCHANGED <<bets, wallet, ledger, placing>>
      BY <1>4 DEF WorkerStep, RunnerStep, StartRun, ClaimTask, EndRun, CompleteTask,
         RetryOrFailTask, CheckSession, ReadBets, RecheckSession, StoreSettledResult,
         ReadRemaining, CloseSession, WriteResultState, CompleteJob, CatchError, ThrowError,
         AbandonRun
  <2>2. ASSUME NEW s \in Runners PROVE worker'[s].bets \subseteq Placed
    <3>1. worker'[s].bets \subseteq worker[s].bets \union Pending
        BY <1>4, WorkerHolds DEF WalletInv
    <3> QED BY <3>1 DEF WalletInv, Pending, Placed
  <2> QED BY <2>1, <2>2 DEF MoneylessStep
<1>5. CASE UNCHANGED vars
    BY <1>1, <1>5 DEF vars
<1> QED BY <1>2, <1>3, <1>4, <1>5 DEF Next, UserStep, WorkerStep

\* The wallets after a batch, with the payouts due.
Due == [b \in Bets |-> PayoutNow(b)]

LEMMA DueType == ASSUME TypeOK PROVE Due \in [Bets -> Nat]
<1> SUFFICES ASSUME NEW b \in Bets PROVE PayoutNow(b) \in Nat
    BY DEF Due
<1>1. ModeOf(b) \in Modes
    BY DEF ModeOf, Modes
<1>2. session.current[ModeOf(b)] \in Panas \union {NoPana}
    BY <1>1 DEF TypeOK, SessionRow, Results
<1> QED BY <1>2, BetsAssumption DEF PayoutNow

LEMMA BatchWrites ==
    ASSUME WalletInv, NEW r \in Runners, SettleBatch(r)
    PROVE  /\ Winners(r) \subseteq Decided(r) /\ Decided(r) \subseteq Placed
           /\ \A u \in Users :
                /\ wallet'[u].balance = wallet[u].balance
                                          + SumFunctionOnSet(Due, OwnedBy(u, Winners(r)))
                /\ wallet'[u].exposure = wallet[u].exposure - Staked(u, Decided(r))
           /\ wallet' \in [Users -> Amounts]
           /\ ledger'.debits = ledger.debits
           /\ ledger'.paid = [b \in Bets |-> IF b \in Winners(r) THEN ledger.paid[b] + Due[b]
                                             ELSE ledger.paid[b]]
<1>1. Winners(r) \subseteq Decided(r) /\ Decided(r) \subseteq Placed
    BY DEF Winners, Decided, WalletInv
<1>2. wallet' = [u \in Users |->
        [balance  |-> wallet[u].balance + SumFunctionOnSet(Due, OwnedBy(u, Winners(r))),
         exposure |-> wallet[u].exposure - Staked(u, Decided(r))]]
    BY DEF SettleBatch, Due, Staked
<1>3. ASSUME NEW u \in Users
      PROVE  /\ wallet[u].balance + SumFunctionOnSet(Due, OwnedBy(u, Winners(r))) \in Int
             /\ wallet[u].exposure - Staked(u, Decided(r)) \in Int
  <2>1. Winners(r) \in SUBSET Bets /\ Decided(r) \in SUBSET Bets
      BY <1>1 DEF Placed
  <2>2. SumFunctionOnSet(Due, OwnedBy(u, Winners(r))) \in Int /\ Staked(u, Decided(r)) \in Int
      BY <2>1, DueType, OwnedIsSummable, StakedType DEF WalletInv
  <2>3. wallet[u].balance \in Int /\ wallet[u].exposure \in Int
      BY DEF WalletInv, Amounts
  <2> QED BY <2>2, <2>3
<1>4. wallet' \in [Users -> Amounts]
    BY <1>2, <1>3 DEF Amounts
<1>5. /\ ledger'.debits = ledger.debits
      /\ ledger'.paid = [b \in Bets |-> IF b \in Winners(r) THEN ledger.paid[b] + Due[b]
                                        ELSE ledger.paid[b]]
    BY DEF SettleBatch, Due, WalletInv, TypeOK, Ledger
<1> QED BY <1>1, <1>2, <1>4, <1>5

\* WalletMatchesLedger, by the sums named above.
Explained(u, w, l) == w.balance = Funds[u] - Staked(u, l.debits) + PaidTo(u, l.paid)

LEMMA WalletAsSums == WalletMatchesLedger <=> \A u \in Users : Explained(u, wallet[u], ledger)
BY DEF WalletMatchesLedger, Explained, Staked, PaidTo

LEMMA PlaceBetKeepsWallet ==
    ASSUME WalletInv, TypeOK', NEW b \in Bets, PlaceBet(b)
    PROVE  WalletInv'
<1>1. /\ ledger \in Ledger /\ wallet \in [Users -> Amounts] /\ Owner[b] \in Users
      /\ Stake[b] \in Nat
    BY BetsAssumption DEF WalletInv, TypeOK
<1>2. /\ ledger'.debits = ledger.debits \union {b} /\ ledger'.paid = ledger.paid
      /\ worker' = worker /\ placing' = placing \ {b}
      /\ bets' = [bets EXCEPT ![b] = "pending"] /\ bets \in [Bets -> BetStatuses]
    BY <1>1 DEF PlaceBet, Ledger, WalletInv, TypeOK
<1>3. b \notin ledger.debits /\ ledger.debits \in SUBSET Bets
    BY <1>1 DEF PlaceBet, WalletInv, PlacingIsNew, Placed, Ledger
<1>4. wallet' = [wallet EXCEPT ![Owner[b]] = PlaceBetDebit(@, Stake[b])]
    BY DEF PlaceBet
<1>5. wallet' \in [Users -> Amounts]
    BY <1>1, <1>4 DEF PlaceBetDebit, Amounts
<1>6. ASSUME NEW u \in Users PROVE Explained(u, wallet'[u], ledger')
  <2>1. Explained(u, wallet[u], ledger)
      BY WalletAsSums DEF WalletInv
  <2>2. Staked(u, ledger'.debits)
          = Staked(u, ledger.debits) + IF Owner[b] = u THEN Stake[b] ELSE 0
      BY <1>2, <1>3, StakedAdd
  <2>3. wallet'[u].balance = wallet[u].balance - IF Owner[b] = u THEN Stake[b] ELSE 0
      BY <1>1, <1>4 DEF PlaceBetDebit, Amounts
  <2>4. /\ wallet[u].balance \in Int /\ Funds[u] \in Int
        /\ Staked(u, ledger.debits) \in Int /\ PaidTo(u, ledger.paid) \in Int
    <3>1. ledger.paid \in [Bets -> Nat]
        BY <1>1 DEF Ledger
    <3> QED BY <1>1, <1>3, <3>1, StakedType, OwnedIsSummable, BetsAssumption DEF Amounts, PaidTo
  <2>5. PICK stake \in Int : stake = IF Owner[b] = u THEN Stake[b] ELSE 0
      BY <1>1
  <2> QED BY <1>2, <2>1, <2>2, <2>3, <2>4, <2>5 DEF Explained
<1>7. WalletMatchesLedger'
    BY <1>6 DEF WalletMatchesLedger, Explained, Staked, PaidTo
<1>8. Placed' = Placed \union {b}
    BY <1>2 DEF Placed
<1>9. PlacingIsNew'
    BY <1>2 DEF WalletInv, PlacingIsNew, TypeOK
<1> QED BY <1>2, <1>5, <1>7, <1>8, <1>9 DEF WalletInv

LEMMA SettleBatchKeepsWallet ==
    ASSUME WalletInv, TypeOK', NEW r \in Runners, SettleBatch(r)
    PROVE  WalletInv'
<1>1. ledger \in Ledger /\ ledger.paid \in [Bets -> Nat] /\ Due \in [Bets -> Nat]
    BY DueType DEF WalletInv, TypeOK, Ledger
<1>2. Winners(r) \in SUBSET Bets /\ ledger.debits \in SUBSET Bets
    BY <1>1, BatchWrites DEF Placed, Ledger
<1>3. ASSUME NEW u \in Users PROVE Explained(u, wallet'[u], ledger')
  <2>1. Explained(u, wallet[u], ledger)
      BY WalletAsSums DEF WalletInv
  <2>2. PaidTo(u, ledger'.paid)
          = PaidTo(u, ledger.paid) + SumFunctionOnSet(Due, OwnedBy(u, Winners(r)))
    <3>1. ledger'.paid = [b \in Bets |-> IF b \in Winners(r) THEN ledger.paid[b] + Due[b]
                                         ELSE ledger.paid[b]]
        BY BatchWrites
    <3> QED BY <1>1, <1>2, <3>1, PaidGrows
  <2>3. /\ wallet'[u].balance
             = wallet[u].balance + SumFunctionOnSet(Due, OwnedBy(u, Winners(r)))
        /\ ledger'.debits = ledger.debits
      BY BatchWrites
  <2>4. /\ wallet[u].balance \in Int /\ Funds[u] \in Int
        /\ Staked(u, ledger.debits) \in Int /\ PaidTo(u, ledger.paid) \in Int
        /\ SumFunctionOnSet(Due, OwnedBy(u, Winners(r))) \in Int
    <3>1. PaidTo(u, ledger.paid) \in Int
        BY <1>1, OwnedIsSummable DEF PaidTo
    <3>2. SumFunctionOnSet(Due, OwnedBy(u, Winners(r))) \in Int
        BY <1>1, <1>2, OwnedIsSummable
    <3>3. Staked(u, ledger.debits) \in Int
        BY <1>2, StakedType
    <3> QED BY <3>1, <3>2, <3>3, BetsAssumption DEF WalletInv, Amounts
  <2> QED BY <2>1, <2>2, <2>3, <2>4 DEF Explained
<1>4. WalletMatchesLedger'
    BY <1>3 DEF WalletMatchesLedger, Explained, Staked, PaidTo
<1>5. Placed \subseteq Placed'
    BY DEF SettleBatch, Placed
<1>6. \A s \in Runners : worker'[s].bets \subseteq Placed'
  <2> TAKE s \in Runners
  <2>1. worker'[s].bets = worker[s].bets
      BY DEF SettleBatch, Goto, WalletInv, TypeOK, Worker
  <2> QED BY <1>5, <2>1 DEF WalletInv
<1>7. PlacingIsNew'
  <2>1. ASSUME NEW b \in placing PROVE bets'[b] = "none"
    <3>1. b \in Bets /\ bets[b] = "none"
        BY DEF WalletInv, TypeOK, PlacingIsNew
    <3>2. b \notin Decided(r) /\ b \notin Winners(r)
        BY <3>1, BatchWrites DEF Placed
    <3> QED BY <3>1, <3>2 DEF SettleBatch
  <2> QED BY <2>1 DEF SettleBatch, PlacingIsNew
<1> QED BY <1>4, <1>5, <1>6, <1>7, BatchWrites DEF WalletInv

LEMMA WalletInvNext == ASSUME WalletInv, [Next]_vars PROVE WalletInv'
<1>1. TypeOK'
    BY NextType DEF WalletInv
<1>2. CASE MoneylessStep
    BY <1>1, <1>2 DEF MoneylessStep, WalletInv, PlacingIsNew, Placed, WalletMatchesLedger
<1>3. ASSUME NEW b \in Bets, ValidateBet(b) \/ RejectBet(b) PROVE WalletInv'
    BY <1>1, <1>3 DEF ValidateBet, RejectBet, WalletInv, PlacingIsNew, Placed, WalletMatchesLedger
<1> QED BY <1>1, <1>2, <1>3, MoneyCases, PlaceBetKeepsWallet, SettleBatchKeepsWallet

LEMMA WalletInvInit == Init => WalletInv
<1> SUFFICES ASSUME Init PROVE WalletInv
    OBVIOUS
<1>1. TypeOK /\ PlacingIsNew /\ wallet \in [Users -> Amounts]
    BY InitType, BetsAssumption DEF Init, PlacingIsNew, Amounts
<1>2. \A r \in Runners : worker[r].bets \subseteq Placed
    BY DEF Init, IdleWorker
<1>3. ASSUME NEW u \in Users PROVE Explained(u, wallet[u], ledger)
  <2>1. ledger.debits = {} /\ \A b \in Bets : ledger.paid[b] = 0
      BY DEF Init
  <2>2. Staked(u, ledger.debits) = 0
    <3>1. OwnedBy(u, {}) = {}
        BY DEF OwnedBy
    <3> QED BY <2>1, <3>1, SumEmpty DEF Staked
  <2>3. PaidTo(u, ledger.paid) = 0
    <3>1. IsFiniteSet(OwnedBy(u, Bets)) /\ OwnedBy(u, Bets) \subseteq Bets
        BY BetsAssumption, FS_Subset DEF OwnedBy
    <3> QED BY <2>1, <3>1, SumZero DEF PaidTo
  <2>4. wallet[u].balance = Funds[u] /\ Funds[u] \in Nat
      BY BetsAssumption DEF Init
  <2> QED BY <2>2, <2>3, <2>4 DEF Explained
<1> QED BY <1>1, <1>2, <1>3, WalletAsSums DEF WalletInv, Init

\* Every balance is the funds less the BET_DEBITs plus the WIN_CREDITs, for any
\* number of users, bets and panas, however runs overlap, crash and retry:
\* whatever is paid, also what is paid twice, has its entry.
THEOREM WalletIsExplained == Spec => []WalletMatchesLedger
<1>1. WalletInv => WalletMatchesLedger
    BY DEF WalletInv
<1> QED BY <1>1, WalletInvInit, WalletInvNext, PTL DEF Spec

ExposureInv == BookInv /\ WalletInv /\ ExposureMatchesPending

\* What is claimed of a user: a user with contested bets is left out.
ExposedFor(u) == OwnedBy(u, past.contested) = {} => wallet[u].exposure = Staked(u, Pending)

LEMMA ExposureInvNext ==
    ASSUME ExposureInv, [Next]_vars
    PROVE  ExposureInv'
<1>1. BookInv' /\ WalletInv' /\ BookInv /\ WalletInv
    BY BookInvNext, WalletInvNext DEF ExposureInv
<1>2. \A u \in Users : ExposedFor(u) /\ wallet[u].exposure \in Int
    BY <1>1 DEF ExposureInv, ExposureMatchesPending, ExposedFor, Staked, WalletInv, Amounts
<1>3. ASSUME \A u \in Users :
               OwnedBy(u, past.contested) = {} => wallet'[u].exposure = Staked(u, Pending')
      PROVE  ExposureMatchesPending'
  <2>1. past.contested \subseteq past'.contested
      BY <1>1, ContestedStays
  <2>2. \A u \in Users : OwnedBy(u, past'.contested) = {} => OwnedBy(u, past.contested) = {}
      BY <2>1 DEF OwnedBy
  <2> QED BY <1>3, <2>2 DEF ExposureMatchesPending, Staked, OwnedBy
<1>4. ASSUME NEW b \in Bets, PlaceBet(b) PROVE ExposureMatchesPending'
  <2>1. bets[b] = "none" /\ bets \in [Bets -> BetStatuses]
      BY <1>1, <1>4 DEF PlaceBet, BookInv, PlacingIsNew, TypeOK
  <2>2. Pending' = Pending \union {b} /\ b \notin Pending /\ Pending \in SUBSET Bets
      BY <1>4, <2>1 DEF PlaceBet, Pending
  <2>3. wallet \in [Users -> Amounts] /\ Stake[b] \in Nat
      BY <1>1, BetsAssumption DEF WalletInv
  <2>4. ASSUME NEW u \in Users, OwnedBy(u, past.contested) = {}
        PROVE  wallet'[u].exposure = Staked(u, Pending')
    <3>1. wallet'[u].exposure = wallet[u].exposure + IF Owner[b] = u THEN Stake[b] ELSE 0
        BY <1>4, <2>3 DEF PlaceBet, PlaceBetDebit, Amounts
    <3>2. wallet[u].exposure = Staked(u, Pending)
        BY <1>2, <2>4 DEF ExposedFor
    <3> QED BY <2>2, <3>1, <3>2, StakedAdd
  <2> QED BY <1>3, <2>4
<1>5. ASSUME NEW r \in Runners, SettleBatch(r) PROVE ExposureMatchesPending'
  <2> DEFINE mine == Decided(r) \ past.contested
  <2>1. mine \in SUBSET Pending /\ Winners(r) \subseteq Decided(r)
      BY <1>1, <1>5, SettleBatchIsDecide
  <2>2. Pending' = Pending \ Decided(r) /\ Pending \in SUBSET Bets
      BY <1>5, <2>1 DEF SettleBatch, Pending
  <2>3. ASSUME NEW u \in Users, OwnedBy(u, past.contested) = {}
        PROVE  wallet'[u].exposure = Staked(u, Pending')
    <3>1. wallet'[u].exposure = wallet[u].exposure - Staked(u, Decided(r))
        BY <1>1, <1>5, BatchWrites
    <3>2. /\ OwnedBy(u, Decided(r)) = OwnedBy(u, mine)
          /\ OwnedBy(u, Pending \ Decided(r)) = OwnedBy(u, Pending \ mine)
        BY <2>3 DEF OwnedBy
    <3>3. Staked(u, Decided(r)) = Staked(u, mine) /\ Staked(u, Pending') = Staked(u, Pending \ mine)
        BY <2>2, <3>2 DEF Staked
    <3>4. Staked(u, Pending \ mine) = Staked(u, Pending) - Staked(u, mine)
        BY <2>1, <2>2, StakedMinus
    <3>5. wallet[u].exposure = Staked(u, Pending)
        BY <1>2, <2>3 DEF ExposedFor
    <3> QED BY <3>1, <3>3, <3>4, <3>5
  <2> QED BY <1>3, <2>3
<1>6. ASSUME UNCHANGED <<bets, wallet>> PROVE ExposureMatchesPending'
  <2>1. Pending' = Pending
      BY <1>6 DEF Pending
  <2> QED BY <1>2, <1>3, <1>6, <2>1 DEF ExposedFor
<1> QED BY <1>1, <1>4, <1>5, <1>6, MoneyCases
        DEF ExposureInv, MoneylessStep, ValidateBet, RejectBet

\* The exposure of every wallet is the stakes of the user's undecided bets, unless
\* two runs had one of the user's bets in their batches at one time.
THEOREM ExposureIsPending == Spec => []ExposureMatchesPending
<1>1. Init => ExposureInv
  <2> SUFFICES ASSUME Init PROVE ExposureMatchesPending
      BY BookInvInit, WalletInvInit DEF ExposureInv
  <2>1. \A u \in Users : OwnedBy(u, Pending) = {}
      BY DEF Init, Pending, OwnedBy
  <2> QED BY <2>1, SumEmpty DEF Init, ExposureMatchesPending
<1>2. ExposureInv => ExposureMatchesPending
    BY DEF ExposureInv
<1> QED BY <1>1, <1>2, ExposureInvNext, PTL DEF Spec

-----------------------------------------------------------------------------
(* The displayed result, and the result that bets are decided on *)

ResultKept == /\ session'.current = session.current
              /\ session'.revision = session.revision
              /\ session'.openDeclared = session.openDeclared

\* Of the session it writes the settled result, the statuses and the warning.
LEMMA WorkerKeepsResult ==
    ASSUME TypeOK, NEW r \in Runners, WorkerStep(r)
    PROVE  /\ ResultKept /\ requests' = requests
           /\ session'.settled = session.settled \/ StoreSettledResult(r)
<1>1. session \in SessionRow
    BY DEF TypeOK
<1>2. CASE session' = session /\ requests' = requests
    BY <1>2 DEF ResultKept
<1>3. CASE \/ StartRun(r) \/ ClaimTask(r) \/ EndRun(r) \/ CompleteTask(r) \/ RetryOrFailTask(r)
           \/ CheckSession(r) \/ ReadBets(r) \/ RecheckSession(r) \/ SettleBatch(r)
           \/ ReadRemaining(r) \/ CompleteJob(r) \/ ThrowError(r) \/ AbandonRun(r)
    BY <1>2, <1>3 DEF StartRun, ClaimTask, EndRun, CompleteTask, RetryOrFailTask, CheckSession,
       ReadBets, RecheckSession, SettleBatch, ReadRemaining, CompleteJob, ThrowError, AbandonRun
<1>4. CASE StoreSettledResult(r)
    BY <1>1, <1>4 DEF StoreSettledResult, StoreSettled, ResultKept, SessionRow
<1>5. CASE CloseSession(r)
    BY <1>1, <1>5 DEF CloseSession, MarkSettled, ResultKept, SessionRow
<1>6. CASE WriteResultState(r)
    BY <1>1, <1>6 DEF WriteResultState, StoreResultState, ResultKept, SessionRow
<1>7. CASE CatchError(r)
    BY <1>1, <1>7 DEF CatchError, StoreFailed, ResultKept, SessionRow
<1> QED BY <1>3, <1>4, <1>5, <1>6, <1>7 DEF WorkerStep, RunnerStep

\* A worker between its check of the session and its commit.
Settling(w) == w.pc \in {"read", "recheck", "commit"}

\* It got there by the check, which found the task current and its result
\* declared, and keeps the task and the row it read then.
CheckPassed(r) ==
    /\ session.revision <= TaskOf(r).revision
    /\ Declared(session, TaskOf(r).mode)
    /\ worker'[r].seen = ResultPart(session)

LEMMA WorkerSettles ==
    ASSUME TypeOK, NEW r \in Runners, WorkerStep(r), NEW s \in Runners, Settling(worker'[s])
    PROVE  /\ worker'[s].task = worker[s].task
           /\ worker[s].task \in DOMAIN tasks
           /\ \/ Settling(worker[s]) /\ worker'[s].seen = worker[s].seen
              \/ s = r /\ CheckPassed(r)
<1>1. /\ worker \in [Runners -> Worker] /\ tasks \in Seq(Task) /\ session \in SessionRow
      /\ worker[s].pc \notin {"idle", "next"} => worker[s].task \in DOMAIN tasks
    BY DEF TypeOK
<1>2. CASE s # r
  <2>1. worker'[s] = worker[s]
      BY <1>2, OtherWorkers
  <2> QED BY <1>1, <2>1 DEF Settling
<1>3. CASE s = r
  <2>1. CASE StartRun(r) \/ EndRun(r) \/ CompleteTask(r) \/ RetryOrFailTask(r) \/ AbandonRun(r)
    <3>1. ASSUME NEW queue, worker' = [worker EXCEPT ![r] =
                   [IdleWorker EXCEPT !.pc = "next", !.queue = queue]]
          PROVE  worker'[r].pc = "next"
        BY <1>1, <3>1 DEF IdleWorker
    <3>2. CASE worker' = [worker EXCEPT ![r] = IdleWorker]
        BY <1>1, <1>3, <3>2 DEF IdleWorker, Settling
    <3>3. worker'[r].pc = "next" \/ worker' = [worker EXCEPT ![r] = IdleWorker]
        BY <2>1, <3>1 DEF StartRun, EndRun, CompleteTask, RetryOrFailTask, AbandonRun, FinishTask
    <3> QED BY <1>3, <3>2, <3>3 DEF Settling
  <2>2. CASE ClaimTask(r)
      BY <1>1, <1>3, <2>2 DEF ClaimTask, Worker, Settling
  <2>3. CASE CheckSession(r)
    <3>1. worker[r].pc = "check" /\ worker[r].task \in DOMAIN tasks
        BY <1>1, <1>3, <2>3 DEF CheckSession
    <3>2. worker'[r].task = worker[r].task /\ worker'[r].seen = ResultPart(session)
        BY <1>1, <2>3 DEF CheckSession, Worker
    <3>3. ~IsStale(TaskOf(r)) /\ Declared(session, TaskOf(r).mode)
        BY <1>1, <1>3, <2>3 DEF CheckSession, Worker, Settling
    <3>4. tasks[worker[r].task] \in Task
        BY <1>1, <3>1
    <3>5. session.revision \in Nat /\ TaskOf(r).revision \in Nat
        BY <1>1, <3>4 DEF SessionRow, Task, TaskOf
    <3> QED BY <1>3, <3>1, <3>2, <3>3, <3>5 DEF CheckPassed, IsStale
  <2>4. CASE ReadBets(r)
      BY <1>1, <1>3, <2>4 DEF ReadBets, Worker, Settling
  <2>5. CASE RecheckSession(r)
      BY <1>1, <1>3, <2>5 DEF RecheckSession, Goto, Worker, Settling
  <2>6. CASE StoreSettledResult(r) \/ CloseSession(r)
      BY <1>1, <1>3, <2>6 DEF StoreSettledResult, CloseSession, Worker, Settling
  <2>7. CASE SettleBatch(r) \/ ReadRemaining(r) \/ WriteResultState(r) \/ ThrowError(r)
      BY <1>1, <1>3, <2>7 DEF SettleBatch, ReadRemaining, WriteResultState, ThrowError, Goto,
         Worker, Settling
  <2>8. CASE CompleteJob(r) \/ CatchError(r)
      BY <1>1, <1>3, <2>8 DEF CompleteJob, CatchError, EndHandler, Worker, Settling
  <2> QED BY <2>1, <2>2, <2>3, <2>4, <2>5, <2>6, <2>7, <2>8 DEF WorkerStep, RunnerStep
<1> QED BY <1>2, <1>3

\* Writes of the session other than the two admin writes of the result: what is
\* displayed stays, and of the settled result only a worker's store changes it.
LEMMA AdminOrUserStep ==
    ASSUME TypeOK, Tick \/ ChangePhase \/ UserStep \/ AdminStep \/ UNCHANGED vars,
           \A q \in requests : ~DeclareStep(q) /\ ~ResetStep(q)
    PROVE  /\ ResultKept /\ session'.settled = session.settled
           /\ UNCHANGED <<tasks, worker, past>>
<1>1. session \in SessionRow
    BY DEF TypeOK
<1>2. CASE session' = session /\ UNCHANGED <<tasks, worker, past>>
    BY <1>2 DEF ResultKept
<1>3. CASE Tick \/ UserStep \/ UNCHANGED vars
    BY <1>2, <1>3 DEF Tick, UserStep, ValidateBet, PlaceBet, RejectBet, vars
<1>4. CASE ChangePhase
    BY <1>1, <1>4 DEF ChangePhase, WritePhase, SetPhase, ResultKept, SessionRow
<1>5. CASE AdminStep
  <2>1. ASSUME NEW q \in requests, CancelStep(q)
        PROVE  /\ ResultKept /\ session'.settled = session.settled
               /\ UNCHANGED <<tasks, worker, past>>
      BY <1>1, <2>1 DEF CancelStep, CancelSession, ResultKept, SessionRow
  <2>2. ASSUME NEW q \in requests, LockStep(q)
        PROVE  /\ ResultKept /\ session'.settled = session.settled
               /\ UNCHANGED <<tasks, worker, past>>
      BY <1>1, <2>2 DEF LockStep, SetPhase, ResultKept, SessionRow
  <2> QED BY <1>2, <1>5, <2>1, <2>2 DEF AdminStep, ReceiveDeclare, ReceiveReset, ReceiveLock,
             ReceiveCancel, Receive, RequestFails
<1> QED BY <1>3, <1>4, <1>5

\* Requests are received and answered one by one.
LEMMA RequestCases ==
    ASSUME Tick \/ ChangePhase \/ UserStep \/ AdminStep \/ UNCHANGED vars
    PROVE  \/ requests' \subseteq requests
           \/ \E mode \in Modes, pana \in Panas : ReceiveDeclare(mode, pana)
           \/ \E mode \in Modes : ReceiveReset(mode)
           \/ ReceiveLock \/ ReceiveCancel
BY DEF Tick, ChangePhase, WritePhase, UserStep, ValidateBet, PlaceBet, RejectBet,
       AdminStep, DeclareStep, ResetStep, LockStep, CancelStep, RequestFails, vars

\* What is contested, reset or lost stays so.
LEMMA PastGrows ==
    ASSUME TypeOK, [Next]_vars
    PROVE  past.reset \subseteq past'.reset /\ (past.lost => past'.lost)
<1>1. past \in History
    BY DEF TypeOK
<1>2. CASE past' = past
    BY <1>2
<1>3. ASSUME NEW q \in requests, ResetStep(q)
      PROVE  past.reset \subseteq past'.reset /\ (past.lost => past'.lost)
    BY <1>1, <1>3 DEF ResetStep, History
<1>4. ASSUME NEW r \in Runners, ReadBets(r)
      PROVE  past.reset \subseteq past'.reset /\ (past.lost => past'.lost)
    BY <1>1, <1>4 DEF ReadBets, History
<1>5. CASE Tick \/ ChangePhase \/ UserStep \/ UNCHANGED vars
    BY <1>2, <1>5 DEF Tick, ChangePhase, WritePhase, UserStep, ValidateBet, PlaceBet, RejectBet, vars
<1>6. CASE AdminStep
    BY <1>2, <1>3, <1>6 DEF AdminStep, ReceiveDeclare, ReceiveReset, ReceiveLock, ReceiveCancel,
       Receive, DeclareStep, LockStep, CancelStep, RequestFails
<1>7. ASSUME NEW r \in Runners, WorkerStep(r)
      PROVE  past.reset \subseteq past'.reset /\ (past.lost => past'.lost)
    BY <1>2, <1>4, <1>7 DEF WorkerStep, RunnerStep, StartRun, ClaimTask, EndRun, CompleteTask,
       RetryOrFailTask, CheckSession, RecheckSession, SettleBatch, StoreSettledResult,
       ReadRemaining, CloseSession, WriteResultState, CompleteJob, CatchError, ThrowError,
       AbandonRun
<1> QED BY <1>5, <1>6, <1>7 DEF Next, WorkerStep

\* A task of the revision in force is of the result displayed.
TasksCurrent ==
    \A i \in DOMAIN tasks :
      /\ tasks[i].revision <= session.revision
      /\ tasks[i].revision = session.revision => session.current[tasks[i].mode] = tasks[i].pana

SettlesPana ==
    \A r \in Runners : Settling(worker[r]) =>
      /\ worker[r].seen.revision = TaskOf(r).revision
      /\ worker[r].seen.current[TaskOf(r).mode] = TaskOf(r).pana

PanaInv == TypeOK /\ (~past.lost => TasksCurrent /\ SettlesPana)

\* A declaration outdates every task there is, and so does a reset that has read
\* the revision it replaces.
LEMMA AdminWritesOutdate ==
    ASSUME PanaInv, NEW q \in requests, DeclareStep(q) \/ ResetStep(q), ~past'.lost
    PROVE  TasksCurrent' /\ SettlesPana'
<1>1. /\ session \in SessionRow /\ session.revision \in Nat /\ tasks \in Seq(Task)
      /\ q \in Request /\ past \in History
      /\ \A r \in Runners : worker[r] \in Worker
      /\ \A r \in Runners : worker[r].pc \notin {"idle", "next"} => worker[r].task \in DOMAIN tasks
    BY DEF PanaInv, TypeOK, SessionRow
<1>6. TasksCurrent /\ SettlesPana
  <2>1. ~past.lost
      BY <1>1 DEF DeclareStep, ResetStep, History
  <2> QED BY <2>1 DEF PanaInv
<1>2. ASSUME NEW i \in DOMAIN tasks PROVE tasks[i].revision \in Nat
  <2>1. tasks[i] \in Task
      BY <1>1
  <2> QED BY <2>1 DEF Task
<1>3. session'.revision = session.revision + 1
  <2>1. CASE DeclareStep(q)
      BY <1>1, <2>1 DEF DeclareStep, DeclareResult, StoreResult, StoreResultState, SessionRow
  <2>2. CASE ResetStep(q)
    <3>1. q.updates.revision = session.revision + 1
        BY <1>1, <2>2 DEF ResetStep, History
    <3> QED BY <1>1, <2>2, <3>1 DEF ResetStep, ResetResult, SessionRow
  <2> QED BY <2>1, <2>2
<1>4. CASE ResetStep(q)
  <2>1. tasks' = tasks /\ worker' = worker
      BY <1>4 DEF ResetStep
  <2>2. TasksCurrent'
      BY <1>6, <1>1, <1>2, <1>3, <2>1 DEF TasksCurrent
  <2> QED BY <1>6, <1>1, <2>1, <2>2 DEF SettlesPana, TaskOf
<1>5. CASE DeclareStep(q)
  <2>1. q.mode \in Modes /\ q.pana \in Panas
      BY <1>1, <1>5 DEF DeclareStep, Request
  <2>2. session'.current[q.mode] = q.pana
      BY <1>1, <1>5, <2>1 DEF DeclareStep, DeclareResult, StoreResult, StoreResultState,
         SessionRow, Results
  <2> PICK task : task = [mode |-> q.mode, pana |-> q.pana, revision |-> session'.revision,
                          status |-> "pending", attempts |-> 0, job |-> "processing"]
      OBVIOUS
  <2>3. tasks' = Append(tasks, task) /\ worker' = worker
      BY <1>5 DEF DeclareStep
  <2>4. /\ DOMAIN tasks' = DOMAIN tasks \union {Len(tasks) + 1}
        /\ \A i \in DOMAIN tasks : tasks'[i] = tasks[i]
        /\ tasks'[Len(tasks) + 1] = task
      BY <1>1, <2>3
  <2>5. TasksCurrent'
    <3>1. ASSUME NEW i \in DOMAIN tasks
          PROVE  tasks'[i].revision <= session'.revision /\ tasks'[i].revision # session'.revision
        BY <1>6, <1>1, <1>2, <1>3, <2>4 DEF TasksCurrent
    <3>2. task.revision = session'.revision /\ session'.revision \in Nat
        BY <1>1, <1>3
    <3>3. session'.current[task.mode] = task.pana
        BY <2>2
    <3> QED BY <2>4, <3>1, <3>2, <3>3 DEF TasksCurrent
  <2>6. SettlesPana'
    <3> SUFFICES ASSUME NEW r \in Runners, Settling(worker[r])
                 PROVE  /\ worker[r].seen.revision = tasks'[worker[r].task].revision
                        /\ worker[r].seen.current[tasks'[worker[r].task].mode]
                             = tasks'[worker[r].task].pana
        BY <2>3 DEF SettlesPana, TaskOf, Settling
    <3>1. worker[r].task \in DOMAIN tasks
        BY <1>1 DEF Settling
    <3> QED BY <1>6, <2>4, <3>1 DEF SettlesPana, TaskOf
  <2> QED BY <2>5, <2>6
<1> QED BY <1>4, <1>5

LEMMA PanaInvNext ==
    ASSUME PanaInv, [Next]_vars
    PROVE  PanaInv'
<1>1. TypeOK' /\ TypeOK
    BY NextType DEF PanaInv
<1> SUFFICES ASSUME ~past'.lost PROVE TasksCurrent' /\ SettlesPana'
    BY <1>1 DEF PanaInv
<1>2. TasksCurrent /\ SettlesPana
    BY <1>1, PastGrows DEF PanaInv
<1>3. CASE \E q \in requests : DeclareStep(q) \/ ResetStep(q)
    BY <1>3, AdminWritesOutdate
<1>4. ASSUME NEW r \in Runners, WorkerStep(r) PROVE TasksCurrent' /\ SettlesPana'
  <2>1. ResultKept /\ TasksKept
      BY <1>1, <1>4, WorkerKeepsResult, WorkerKeepsTasks
  <2>2. TasksCurrent'
      BY <1>2, <2>1 DEF TasksCurrent, ResultKept, TasksKept
  <2>3. ASSUME NEW s \in Runners, Settling(worker'[s])
        PROVE  /\ worker'[s].seen.revision = tasks'[worker'[s].task].revision
               /\ worker'[s].seen.current[tasks'[worker'[s].task].mode]
                    = tasks'[worker'[s].task].pana
    <3>1. /\ worker'[s].task = worker[s].task /\ worker[s].task \in DOMAIN tasks
          /\ \/ Settling(worker[s]) /\ worker'[s].seen = worker[s].seen
             \/ s = r /\ CheckPassed(r)
        BY <1>1, <1>4, <2>3, WorkerSettles
    <3>2. CASE Settling(worker[s]) /\ worker'[s].seen = worker[s].seen
        BY <1>2, <2>1, <3>1, <3>2 DEF SettlesPana, TasksKept, TaskOf
    <3>3. CASE s = r /\ CheckPassed(r)
      <4>1. tasks[worker[r].task] \in Task /\ session \in SessionRow
          BY <1>1, <3>1, <3>3 DEF TypeOK
      <4>2. TaskOf(r).revision = session.revision
          BY <1>2, <3>1, <3>3, <4>1 DEF CheckPassed, TasksCurrent, TaskOf, Task, SessionRow
      <4>3. session.current[TaskOf(r).mode] = TaskOf(r).pana
          BY <1>2, <3>1, <3>3, <4>2 DEF TasksCurrent, TaskOf
      <4>4. worker'[r].seen.current = session.current /\ worker'[r].seen.revision = session.revision
          BY <3>3, <4>1 DEF CheckPassed, ResultPart, SessionRow
      <4> QED BY <2>1, <3>1, <3>3, <4>2, <4>3, <4>4 DEF TasksKept, TaskOf
    <3> QED BY <3>1, <3>2, <3>3
  <2>4. SettlesPana'
      BY <2>3 DEF SettlesPana, TaskOf, Settling
  <2> QED BY <2>2, <2>4
<1>5. CASE /\ Tick \/ ChangePhase \/ UserStep \/ AdminStep \/ UNCHANGED vars
           /\ \A q \in requests : ~DeclareStep(q) /\ ~ResetStep(q)
  <2>1. ResultKept /\ UNCHANGED <<tasks, worker>>
      BY <1>1, <1>5, AdminOrUserStep
  <2>2. TasksCurrent'
      BY <1>2, <2>1 DEF TasksCurrent, ResultKept
  <2>3. SettlesPana'
      BY <1>2, <2>1 DEF SettlesPana, TaskOf, Settling
  <2> QED BY <2>2, <2>3
<1> QED BY <1>3, <1>4, <1>5 DEF Next, WorkerStep

\* Bets are decided by writing a batch only.
LEMMA DecidedByBatch ==
    ASSUME TypeOK, [Next]_vars, NEW b \in Bets, bets[b] = "pending", bets'[b] \in {"won", "lost"}
    PROVE  \E r \in Runners : SettleBatch(r)
<1>1. bets' # bets
    OBVIOUS
<1>2. CASE Tick \/ ChangePhase \/ AdminStep \/ UNCHANGED vars
    BY <1>1, <1>2 DEF Tick, ChangePhase, WritePhase, AdminStep, ReceiveDeclare, ReceiveReset,
       ReceiveLock, ReceiveCancel, Receive, DeclareStep, ResetStep, LockStep, CancelStep,
       RequestFails, vars
<1>3. CASE UserStep
    BY <1>1, <1>3 DEF UserStep, ValidateBet, PlaceBet, RejectBet, TypeOK
<1>4. ASSUME NEW r \in Runners, WorkerStep(r) PROVE SettleBatch(r)
    BY <1>1, <1>4 DEF WorkerStep, RunnerStep, StartRun, ClaimTask, EndRun, CompleteTask,
       RetryOrFailTask, CheckSession, ReadBets, RecheckSession, StoreSettledResult,
       ReadRemaining, CloseSession, WriteResultState, CompleteJob, CatchError, ThrowError,
       AbandonRun
<1> QED BY <1>2, <1>3, <1>4 DEF Next, WorkerStep

\* A bet is decided for a task that was the latest change of the result when its
\* handler looked at the session, and on the pana of that task, for any number of
\* declarations, resets and overlapping runs, until a reset is stored over a
\* revision it had not read.
THEOREM DecidedOnItsPana == Spec => DecidesOnItsPana
<1> DEFINE ByItsTask(b, r) ==
             /\ b \in Held(r) /\ worker'[r].pc = "store"
             /\ worker[r].seen.revision = TaskOf(r).revision
             /\ Kind[b] # "final" => (bets'[b] = "won" <=> TaskOf(r).pana \in Covers[b])
           Decides == ~past.lost => \A b \in Bets :
             bets[b] = "pending" /\ bets'[b] \in {"won", "lost"} =>
               \E r \in Runners : ByItsTask(b, r)
<1>1. Init => PanaInv
  <2> SUFFICES ASSUME Init PROVE PanaInv
      OBVIOUS
  <2>1. TasksCurrent /\ SettlesPana
      BY DEF Init, TasksCurrent, SettlesPana, Settling, IdleWorker
  <2> QED BY <2>1, InitType DEF PanaInv
<1>2. ASSUME PanaInv, [Next]_vars PROVE [Decides]_vars
  <2> SUFFICES ASSUME ~past.lost, NEW b \in Bets, bets[b] = "pending", bets'[b] \in {"won", "lost"}
               PROVE  \E r \in Runners : ByItsTask(b, r)
      OBVIOUS
  <2>1. PICK r \in Runners : SettleBatch(r)
      BY <1>2, DecidedByBatch DEF PanaInv
  <2>2. /\ worker \in [Runners -> Worker] /\ worker[r].pc = "commit"
        /\ worker[r].task \in DOMAIN tasks /\ tasks \in Seq(Task)
      BY <1>2, <2>1 DEF PanaInv, TypeOK, SettleBatch
  <2>3. Settling(worker[r]) /\ TaskOf(r).mode \in Modes
    <3>1. TaskOf(r) \in Task
        BY <2>2 DEF TaskOf
    <3> QED BY <2>2, <3>1 DEF Settling, Task
  <2>4. /\ worker[r].seen.revision = TaskOf(r).revision
        /\ worker[r].seen.current[TaskOf(r).mode] = TaskOf(r).pana
      BY <1>2, <2>3 DEF PanaInv, SettlesPana
  <2>5. b \in Decided(r) /\ (bets'[b] = "won" <=> b \in Winners(r))
      BY <2>1 DEF SettleBatch, Winners
  <2>6. b \in Held(r) /\ worker'[r].pc = "store"
      BY <2>1, <2>2, <2>5 DEF Held, SettleBatch, Goto, Worker
  <2>7. ASSUME Kind[b] # "final" PROVE bets'[b] = "won" <=> TaskOf(r).pana \in Covers[b]
    <3>1. ModeOf(b) = TaskOf(r).mode
        BY <2>3, <2>5, <2>7 DEF Decided, InPass, ModeOf, Modes
    <3>2. Wins(b, worker[r].seen.current) <=> TaskOf(r).pana \in Covers[b]
        BY <2>4, <2>7, <3>1 DEF Wins
    <3> QED BY <2>5, <3>2 DEF Winners
  <2> QED BY <2>4, <2>6, <2>7
<1> QED BY <1>1, <1>2, PanaInvNext, PTL DEF Spec, DecidesOnItsPana

-----------------------------------------------------------------------------
(* The settled result and the outcomes, of modes that no reset has changed *)

\* Every result read or stored so far agrees with the displayed one, where no
\* reset has changed it.
PartOf(result, s, reset) ==
    \A m \in Modes \ reset : result[m] # NoPana => result[m] = s.current[m]

ResultsAgree ==
    /\ PartOf(session.settled, session, past.reset)
    /\ \A r \in Runners : /\ PartOf(worker[r].seen.settled, session, past.reset)
                          /\ PartOf(worker[r].seen.current, session, past.reset)

\* The open result is declared before the close one, and stays unless it is reset.
OpenStands == "open" \in past.reset \/ Declared(session, "open")

OpenFirst ==
    /\ session.openDeclared <=> Declared(session, "open")
    /\ Declared(session, "close") => OpenStands
    /\ \A q \in requests : q.op = "declare" /\ q.mode = "close" => OpenStands
    /\ \A q \in requests : q.op = "reset" =>
         /\ q.updates.openDeclared <=> q.updates.current["open"] # NoPana
         /\ q.updates.current["close"] # NoPana => OpenStands

SettlesDeclared ==
    \A r \in Runners : Settling(worker[r]) =>
      /\ Declared(worker[r].seen, TaskOf(r).mode)
      /\ "open" \in past.reset \/ Declared(worker[r].seen, "open")

Standing(b) == ModesOf(b) \intersect past.reset = {}

DecidedByCurrent ==
    \A b \in Bets : bets[b] \in {"won", "lost"} /\ Standing(b) =>
      /\ \A m \in ModesOf(b) : Declared(session, m)
      /\ bets[b] = "won" <=> Wins(b, session.current)

OutcomeInv == TypeOK /\ ResultsAgree /\ OpenFirst /\ SettlesDeclared /\ DecidedByCurrent

\* Whether a bet wins depends on the panas it is decided on only.
LEMMA WinsByItsModes ==
    ASSUME NEW b \in Bets, NEW x, NEW y, \A m \in ModesOf(b) : x[m] = y[m]
    PROVE  Wins(b, x) <=> Wins(b, y)
<1>1. CASE Kind[b] = "final"
  <2>1. x["open"] = y["open"] /\ x["close"] = y["close"]
      BY <1>1 DEF ModesOf, Modes
  <2> QED BY <1>1, <2>1 DEF Wins
<1>2. CASE Kind[b] # "final"
  <2>1. x[ModeOf(b)] = y[ModeOf(b)]
      BY <1>2 DEF ModesOf
  <2> QED BY <1>2, <2>1 DEF Wins
<1> QED BY <1>1, <1>2

LEMMA PartAgrees ==
    ASSUME NEW b \in Bets, NEW x, NEW s, NEW reset, PartOf(x, s, reset),
           ModesOf(b) \intersect reset = {}, \A m \in ModesOf(b) : x[m] # NoPana
    PROVE  /\ Wins(b, x) <=> Wins(b, s.current)
           /\ \A m \in ModesOf(b) : s.current[m] # NoPana
<1>1. ModesOf(b) \subseteq Modes \ reset
    BY DEF ModesOf, ModeOf, Modes
<1>2. \A m \in ModesOf(b) : x[m] = s.current[m]
    BY <1>1 DEF PartOf
<1> QED BY <1>2, WinsByItsModes

\* A pass decides bets whose panas its worker has seen declared.
LEMMA DecidedHaveResults ==
    ASSUME OutcomeInv, NEW r \in Runners, Settling(worker[r]), NEW b \in Decided(r), Standing(b)
    PROVE  /\ Wins(b, worker[r].seen.current) <=> Wins(b, session.current)
           /\ \A m \in ModesOf(b) : Declared(session, m)
<1>1. /\ "open" \in past.reset \/ Declared(worker[r].seen, "open")
      /\ Declared(worker[r].seen, TaskOf(r).mode)
      /\ PartOf(worker[r].seen.current, session, past.reset)
    BY DEF OutcomeInv, SettlesDeclared, ResultsAgree
<1>2. TaskOf(r).mode \in Modes
  <2>1. worker[r].task \in DOMAIN tasks /\ tasks \in Seq(Task)
      BY DEF OutcomeInv, TypeOK, Settling
  <2>2. tasks[worker[r].task] \in Task
      BY <2>1
  <2> QED BY <2>2 DEF TaskOf, Task
<1>3. b \in Bets /\ InPass(b, TaskOf(r).mode)
    BY DEF Decided, OutcomeInv, TypeOK, Worker
<1>4. Kind[b] \in {"open", "close", "final"}
    BY <1>3, BetsAssumption
<1>5. ModesOf(b) = IF Kind[b] = "final" THEN Modes ELSE {TaskOf(r).mode}
    BY <1>2, <1>3, <1>4 DEF InPass, ModesOf, ModeOf, Modes
<1>6. Kind[b] = "final" => TaskOf(r).mode = "close" /\ "open" \notin past.reset
    BY <1>2, <1>3, <1>5 DEF InPass, Modes, Standing
<1>7. \A m \in ModesOf(b) : worker[r].seen.current[m] # NoPana
    BY <1>1, <1>5, <1>6 DEF Modes, Declared
<1> QED BY <1>1, <1>3, <1>7, PartAgrees DEF Declared, Standing

\* What a worker has seen of the session is empty, or was read of it.
LEMMA WorkerSees ==
    ASSUME TypeOK, NEW r \in Runners, WorkerStep(r), NEW s \in Runners
    PROVE  worker'[s].seen \in {worker[s].seen, NewSession, ResultPart(session)}
<1>1. worker \in [Runners -> Worker]
    BY DEF TypeOK
<1>2. CASE s # r
    BY <1>2, OtherWorkers
<1>3. CASE s = r
  <2>1. CASE StartRun(r) \/ EndRun(r) \/ CompleteTask(r) \/ RetryOrFailTask(r) \/ AbandonRun(r)
    <3>1. ASSUME NEW queue, worker' = [worker EXCEPT ![r] =
                   [IdleWorker EXCEPT !.pc = "next", !.queue = queue]]
          PROVE  worker'[r].seen = NewSession
        BY <1>1, <3>1 DEF IdleWorker
    <3>2. CASE worker' = [worker EXCEPT ![r] = IdleWorker]
        BY <1>1, <1>3, <3>2 DEF IdleWorker
    <3>3. worker'[r].seen = NewSession \/ worker' = [worker EXCEPT ![r] = IdleWorker]
        BY <2>1, <3>1 DEF StartRun, EndRun, CompleteTask, RetryOrFailTask, AbandonRun, FinishTask
    <3> QED BY <1>3, <3>2, <3>3
  <2>2. CASE ClaimTask(r)
      BY <1>1, <1>3, <2>2 DEF ClaimTask, Worker
  <2>3. CASE ReadBets(r)
      BY <1>1, <1>3, <2>3 DEF ReadBets, Worker
  <2>4. CASE CheckSession(r) \/ StoreSettledResult(r)
      BY <1>1, <1>3, <2>4 DEF CheckSession, StoreSettledResult, Worker
  <2>5. CASE CloseSession(r)
      BY <1>1, <1>3, <2>5 DEF CloseSession, Worker
  <2>6. CASE \/ RecheckSession(r) \/ SettleBatch(r) \/ ReadRemaining(r) \/ WriteResultState(r)
             \/ ThrowError(r)
      BY <1>1, <1>3, <2>6 DEF RecheckSession, SettleBatch, ReadRemaining, WriteResultState,
         ThrowError, Goto, Worker
  <2>7. CASE CompleteJob(r) \/ CatchError(r)
      BY <1>1, <1>3, <2>7 DEF CompleteJob, CatchError, EndHandler, Worker
  <2> QED BY <2>1, <2>2, <2>3, <2>4, <2>5, <2>6, <2>7 DEF WorkerStep, RunnerStep
<1> QED BY <1>2, <1>3

LEMMA WorkerKeepsReset ==
    ASSUME TypeOK, NEW r \in Runners, WorkerStep(r)
    PROVE  past'.reset = past.reset
<1>1. past \in History
    BY DEF TypeOK
<1> QED BY <1>1 DEF History, WorkerStep, RunnerStep, StartRun, ClaimTask, EndRun, CompleteTask,
       RetryOrFailTask, CheckSession, ReadBets, RecheckSession, SettleBatch, StoreSettledResult,
       ReadRemaining, CloseSession, WriteResultState, CompleteJob, CatchError, ThrowError,
       AbandonRun

LEMMA WorkerKeepsAgreement ==
    ASSUME OutcomeInv, NEW r \in Runners, WorkerStep(r)
    PROVE  ResultsAgree'
<1>1. TypeOK /\ ResultsAgree /\ session \in SessionRow /\ worker[r].seen \in SessionRow
    BY DEF OutcomeInv, TypeOK, Worker
<1>2. session'.current = session.current
    BY <1>1, WorkerKeepsResult DEF ResultKept
<1>3. past'.reset = past.reset
    BY <1>1, WorkerKeepsReset
<1>4. PartOf(session'.settled, session, past.reset)
  <2>1. CASE session'.settled = session.settled
      BY <1>1, <2>1 DEF ResultsAgree
  <2>2. CASE StoreSettledResult(r)
    <3> PICK mode : mode = TaskOf(r).mode
        OBVIOUS
    <3>1. session'.settled = [worker[r].seen.settled EXCEPT ![mode] = worker[r].seen.current[mode]]
        BY <1>1, <2>2 DEF StoreSettledResult, StoreSettled, SessionRow
    <3>2. /\ PartOf(worker[r].seen.settled, session, past.reset)
          /\ PartOf(worker[r].seen.current, session, past.reset)
          /\ worker[r].seen.settled \in Results
        BY <1>1 DEF ResultsAgree, SessionRow
    <3> QED BY <3>1, <3>2 DEF PartOf, Results
  <2> QED BY <1>1, <2>1, <2>2, WorkerKeepsResult
<1>5. ASSUME NEW s \in Runners
      PROVE  /\ PartOf(worker'[s].seen.settled, session, past.reset)
             /\ PartOf(worker'[s].seen.current, session, past.reset)
  <2>1. CASE worker'[s].seen = worker[s].seen
      BY <1>1, <2>1 DEF ResultsAgree
  <2>2. CASE worker'[s].seen = NewSession
      BY <2>2 DEF NewSession, EmptyResult, PartOf
  <2>3. CASE worker'[s].seen = ResultPart(session)
    <3>1. ResultPart(session).settled = session.settled /\ ResultPart(session).current = session.current
        BY <1>1 DEF ResultPart, SessionRow
    <3> QED BY <1>1, <2>3, <3>1 DEF ResultsAgree, PartOf
  <2> QED BY <1>1, <2>1, <2>2, <2>3, WorkerSees
<1> QED BY <1>2, <1>3, <1>4, <1>5 DEF ResultsAgree, PartOf

LEMMA WorkerKeepsOutcomes ==
    ASSUME OutcomeInv, NEW r \in Runners, WorkerStep(r)
    PROVE  OpenFirst' /\ SettlesDeclared' /\ DecidedByCurrent'
<1>1. /\ TypeOK /\ OpenFirst /\ SettlesDeclared /\ DecidedByCurrent
      /\ ResultKept /\ requests' = requests /\ TasksKept /\ session \in SessionRow
    BY WorkerKeepsResult, WorkerKeepsTasks DEF OutcomeInv, TypeOK
<1>6. past'.reset = past.reset
    BY <1>1, WorkerKeepsReset
<1>2. OpenFirst'
    BY <1>1, <1>6 DEF OpenFirst, OpenStands, ResultKept, Declared
<1>3. SettlesDeclared'
  <2> SUFFICES ASSUME NEW s \in Runners, Settling(worker'[s])
               PROVE  /\ "open" \in past.reset \/ Declared(worker'[s].seen, "open")
                      /\ Declared(worker'[s].seen, tasks'[worker'[s].task].mode)
      BY <1>6 DEF SettlesDeclared, TaskOf, Settling
  <2>1. /\ worker'[s].task = worker[s].task /\ worker[s].task \in DOMAIN tasks
        /\ \/ Settling(worker[s]) /\ worker'[s].seen = worker[s].seen
           \/ s = r /\ CheckPassed(r)
      BY <1>1, WorkerSettles
  <2>2. tasks'[worker'[s].task].mode = TaskOf(s).mode
      BY <1>1, <2>1 DEF TasksKept, TaskOf
  <2>3. CASE Settling(worker[s]) /\ worker'[s].seen = worker[s].seen
      BY <1>1, <2>2, <2>3 DEF SettlesDeclared
  <2>4. CASE s = r /\ CheckPassed(r)
    <3>1. worker'[r].seen.current = session.current
        BY <1>1, <2>4 DEF CheckPassed, ResultPart, SessionRow
    <3>2. Declared(session, TaskOf(r).mode) /\ TaskOf(r).mode \in Modes
      <4>1. tasks[worker[r].task] \in Task
          BY <1>1, <2>1, <2>4 DEF TypeOK
      <4> QED BY <2>4, <4>1 DEF CheckPassed, TaskOf, Task
    <3>3. "open" \in past.reset \/ Declared(session, "open")
        BY <1>1, <3>2 DEF OpenFirst, OpenStands, Modes
    <3> QED BY <2>2, <2>4, <3>1, <3>2, <3>3 DEF Declared
  <2> QED BY <2>1, <2>3, <2>4
<1>4. CASE ~SettleBatch(r)
  <2>1. bets' = bets
      BY <1>4 DEF WorkerStep, RunnerStep, StartRun, ClaimTask, EndRun, CompleteTask,
         RetryOrFailTask, CheckSession, ReadBets, RecheckSession, StoreSettledResult,
         ReadRemaining, CloseSession, WriteResultState, CompleteJob, CatchError, ThrowError,
         AbandonRun
  <2>2. DecidedByCurrent'
      BY <1>1, <1>6, <2>1 DEF DecidedByCurrent, Standing, ResultKept, Declared
  <2> QED BY <1>2, <1>3, <2>2
<1>5. CASE SettleBatch(r)
  <2>1. Settling(worker[r])
      BY <1>5 DEF SettleBatch, Settling
  <2>2. ASSUME NEW b \in Bets, bets'[b] \in {"won", "lost"}, Standing(b)
        PROVE  /\ \A m \in ModesOf(b) : Declared(session, m)
               /\ bets'[b] = "won" <=> Wins(b, session.current)
    <3>1. CASE b \in Decided(r)
      <4>1. bets'[b] = "won" <=> Wins(b, worker[r].seen.current)
          BY <1>5, <3>1 DEF SettleBatch, Winners
      <4> QED BY <2>1, <2>2, <3>1, <4>1, DecidedHaveResults
    <3>2. CASE b \notin Decided(r)
      <4>1. bets'[b] = bets[b]
          BY <1>5, <3>2 DEF SettleBatch, Winners
      <4> QED BY <1>1, <2>2, <4>1 DEF DecidedByCurrent
    <3> QED BY <3>1, <3>2
  <2>3. DecidedByCurrent'
      BY <1>1, <1>6, <2>2 DEF DecidedByCurrent, Standing, ResultKept, Declared
  <2> QED BY <1>2, <1>3, <2>3
<1> QED BY <1>4, <1>5

\* Declaring adds a pana where there was none.
LEMMA DeclareKeepsOutcomes ==
    ASSUME OutcomeInv, NEW q \in requests, DeclareStep(q)
    PROVE  ResultsAgree' /\ OpenFirst' /\ SettlesDeclared' /\ DecidedByCurrent'
<1>1. /\ TypeOK /\ session \in SessionRow /\ q \in Request /\ tasks \in Seq(Task)
      /\ ResultsAgree /\ OpenFirst /\ SettlesDeclared /\ DecidedByCurrent
    BY DEF OutcomeInv, TypeOK
<1>2. q.mode \in Modes /\ q.pana \in Panas /\ q.pana # NoPana
    BY <1>1, NoPanaAssumption DEF DeclareStep, Request
<1>3. /\ session'.current = [session.current EXCEPT ![q.mode] = q.pana]
      /\ session'.settled = session.settled
      /\ session'.openDeclared = (session.openDeclared \/ q.mode = "open")
    BY <1>1 DEF DeclareStep, DeclareResult, StoreResult, StoreResultState, SessionRow
<1>4. session.current \in [Modes -> Panas \union {NoPana}]
    BY <1>1 DEF SessionRow, Results
<1>5. session.current[q.mode] = NoPana
    BY <1>1, <1>2 DEF DeclareStep, CanStoreResult, OpenFirst, Declared, Modes
<1>6. /\ worker' = worker /\ bets' = bets /\ past' = past /\ requests' \subseteq requests
      /\ \A i \in DOMAIN tasks : tasks'[i] = tasks[i]
    BY <1>1 DEF DeclareStep
<1>7. \A m \in Modes : session.current[m] # NoPana => session'.current[m] = session.current[m]
    BY <1>3, <1>4, <1>5
<1>8. \A x : PartOf(x, session, past.reset) => PartOf(x, session', past.reset)
    BY <1>7 DEF PartOf
<1>9. ResultsAgree'
    BY <1>1, <1>3, <1>6, <1>8 DEF ResultsAgree
<1>10. OpenFirst'
  <2>1. "open" \in Modes /\ "close" \in Modes /\ (q.mode = "open" \/ q.mode = "close")
      BY <1>2 DEF Modes
  <2>2. Declared(session, "open") => Declared(session', "open")
      BY <1>7, <2>1 DEF Declared
  <2>3. OpenStands => OpenStands'
      BY <1>6, <2>2 DEF OpenStands
  <2>4. session'.openDeclared <=> Declared(session', "open")
    <3>1. CASE q.mode = "open"
        BY <1>2, <1>3, <1>4, <3>1 DEF Declared
    <3>2. CASE q.mode = "close"
      <4>1. session'.current["open"] = session.current["open"]
          BY <1>3, <1>4, <2>1, <3>2
      <4> QED BY <1>1, <1>3, <3>2, <4>1 DEF OpenFirst, Declared
    <3> QED BY <2>1, <3>1, <3>2
  <2>5. OpenStands'
    <3>1. CASE q.mode = "open"
        BY <1>2, <1>3, <1>4, <3>1 DEF OpenStands, Declared
    <3>2. CASE q.mode = "close"
        BY <1>1, <2>3, <3>2 DEF DeclareStep, OpenFirst
    <3> QED BY <2>1, <3>1, <3>2
  <2> QED BY <1>1, <1>6, <2>4, <2>5 DEF OpenFirst
<1>11. SettlesDeclared'
  <2> SUFFICES ASSUME NEW r \in Runners, Settling(worker[r])
               PROVE  /\ Declared(worker[r].seen, tasks'[worker[r].task].mode)
                      /\ "open" \in past.reset \/ Declared(worker[r].seen, "open")
      BY <1>6 DEF SettlesDeclared, TaskOf, Settling
  <2>1. worker[r].task \in DOMAIN tasks
      BY <1>1 DEF TypeOK, Settling
  <2> QED BY <1>1, <1>6, <2>1 DEF SettlesDeclared, TaskOf
<1>12. DecidedByCurrent'
  <2> SUFFICES ASSUME NEW b \in Bets, bets[b] \in {"won", "lost"}, Standing(b)
               PROVE  /\ \A m \in ModesOf(b) : Declared(session', m)
                      /\ bets[b] = "won" <=> Wins(b, session'.current)
      BY <1>6 DEF DecidedByCurrent, Standing
  <2>1. /\ \A m \in ModesOf(b) : Declared(session, m)
        /\ bets[b] = "won" <=> Wins(b, session.current)
      BY <1>1 DEF DecidedByCurrent
  <2>2. PartOf(session.current, session', past.reset)
      BY <1>7 DEF PartOf
  <2> QED BY <2>1, <2>2, PartAgrees DEF Declared, Standing
<1> QED BY <1>9, <1>10, <1>11, <1>12

\* A reset changes what is displayed only of the modes that are reset then.
LEMMA ResetKeepsOutcomes ==
    ASSUME OutcomeInv, NEW q \in requests, ResetStep(q)
    PROVE  ResultsAgree' /\ OpenFirst' /\ SettlesDeclared' /\ DecidedByCurrent'
<1>1. /\ TypeOK /\ session \in SessionRow /\ q \in Request /\ past \in History
      /\ ResultsAgree /\ OpenFirst /\ SettlesDeclared /\ DecidedByCurrent
    BY DEF OutcomeInv, TypeOK
<1>2. /\ session'.current = q.updates.current /\ session'.settled = session.settled
      /\ session'.openDeclared = q.updates.openDeclared
    BY <1>1 DEF ResetStep, ResetResult, SessionRow
<1>3. /\ past'.reset = past.reset \union {m \in Modes : session'.current[m] # session.current[m]}
      /\ requests' \subseteq requests
      /\ UNCHANGED <<bets, tasks, worker>>
    BY <1>1 DEF ResetStep, History
<1>4. \A m \in Modes \ past'.reset :
        m \notin past.reset /\ session'.current[m] = session.current[m]
    BY <1>3
<1>5. \A x : PartOf(x, session, past.reset) => PartOf(x, session', past'.reset)
    BY <1>4 DEF PartOf
<1>6. ResultsAgree'
    BY <1>1, <1>2, <1>3, <1>5 DEF ResultsAgree
<1>7. OpenStands => OpenStands'
  <2>1. "open" \in Modes
      BY DEF Modes
  <2> QED BY <1>3, <1>4, <2>1 DEF OpenStands, Declared
<1>8. OpenFirst'
  <2>1. /\ q.updates.openDeclared <=> q.updates.current["open"] # NoPana
        /\ q.updates.current["close"] # NoPana => OpenStands
      BY <1>1 DEF OpenFirst, ResetStep
  <2> QED BY <1>1, <1>2, <1>3, <1>7, <2>1 DEF OpenFirst, Declared
<1>9. SettlesDeclared'
    BY <1>1, <1>3 DEF SettlesDeclared, TaskOf, Settling
<1>10. DecidedByCurrent'
  <2> SUFFICES ASSUME NEW b \in Bets, bets[b] \in {"won", "lost"},
                      ModesOf(b) \intersect past'.reset = {}
               PROVE  /\ \A m \in ModesOf(b) : Declared(session', m)
                      /\ bets[b] = "won" <=> Wins(b, session'.current)
      BY <1>3 DEF DecidedByCurrent, Standing
  <2>1. ModesOf(b) \subseteq Modes \ past'.reset
      BY DEF ModesOf, ModeOf, Modes
  <2>2. Standing(b)
      BY <1>4, <2>1 DEF Standing
  <2>3. /\ \A m \in ModesOf(b) : Declared(session, m)
        /\ bets[b] = "won" <=> Wins(b, session.current)
      BY <1>1, <2>2 DEF DecidedByCurrent
  <2>4. \A m \in ModesOf(b) : session'.current[m] = session.current[m]
      BY <1>4, <2>1
  <2> QED BY <2>3, <2>4, WinsByItsModes DEF Declared
<1> QED BY <1>6, <1>8, <1>9, <1>10

\* The other steps of users and admins decide no bet and change no result.
LEMMA OthersKeepOutcomes ==
    ASSUME OutcomeInv, Tick \/ ChangePhase \/ UserStep \/ AdminStep \/ UNCHANGED vars,
           \A q \in requests : ~DeclareStep(q) /\ ~ResetStep(q)
    PROVE  ResultsAgree' /\ OpenFirst' /\ SettlesDeclared' /\ DecidedByCurrent'
<1>1. TypeOK /\ ResultsAgree /\ OpenFirst /\ SettlesDeclared /\ DecidedByCurrent
    BY DEF OutcomeInv
<1>2. ResultKept /\ session'.settled = session.settled /\ UNCHANGED <<tasks, worker, past>>
    BY <1>1, AdminOrUserStep
<1>3. ResultsAgree' /\ SettlesDeclared'
    BY <1>1, <1>2 DEF ResultsAgree, PartOf, ResultKept, SettlesDeclared, TaskOf, Settling
<1>4. ASSUME NEW b \in Bets, bets'[b] \in {"won", "lost"} PROVE bets[b] = bets'[b]
    BY <1>1, <1>4 DEF Tick, ChangePhase, WritePhase, UserStep, ValidateBet, PlaceBet,
       RejectBet, AdminStep, ReceiveDeclare, ReceiveReset, ReceiveLock, ReceiveCancel, Receive,
       LockStep, CancelStep, RequestFails, vars, TypeOK
<1>5. DecidedByCurrent'
    BY <1>1, <1>2, <1>4 DEF DecidedByCurrent, Standing, ResultKept, Declared
<1>6. OpenFirst'
  <2>1. ASSUME requests' \subseteq requests PROVE OpenFirst'
      BY <1>1, <1>2, <2>1 DEF OpenFirst, OpenStands, ResultKept, Declared
  <2>2. ASSUME NEW new, Receive(new),
               new.op = "declare" /\ new.mode = "close" => OpenStands,
               new.op = "reset" =>
                 /\ new.updates.openDeclared <=> new.updates.current["open"] # NoPana
                 /\ new.updates.current["close"] # NoPana => OpenStands
        PROVE  OpenFirst'
      BY <1>1, <1>2, <2>2 DEF OpenFirst, OpenStands, ResultKept, Declared, Receive
  <2>3. ASSUME NEW mode \in Modes, NEW pana \in Panas, ReceiveDeclare(mode, pana) PROVE OpenFirst'
      BY <2>2, <2>3 DEF ReceiveDeclare, MayDeclare, OpenStands
  <2>4. CASE ReceiveLock \/ ReceiveCancel
      BY <2>2, <2>4 DEF ReceiveLock, ReceiveCancel
  <2>5. ASSUME NEW mode \in Modes, ReceiveReset(mode) PROVE OpenFirst'
    <3> DEFINE updates == UpdatesOfReset(session, mode)
               new == [op |-> "reset", mode |-> mode, updates |-> updates]
    <3>1. /\ updates.current = [session.current EXCEPT ![mode] = NoPana]
          /\ updates.openDeclared = (session.openDeclared /\ mode # "open")
      <4>1. session \in SessionRow
          BY <1>1 DEF TypeOK
      <4> QED BY <4>1 DEF UpdatesOfReset, SessionRow
    <3>2. session.current \in [Modes -> Panas \union {NoPana}] /\ "open" \in Modes /\ "close" \in Modes
        BY <1>1 DEF TypeOK, SessionRow, Results, Modes
    <3>3. updates.openDeclared <=> updates.current["open"] # NoPana
        BY <1>1, <3>1, <3>2 DEF OpenFirst, Declared
    <3>4. updates.current["close"] # NoPana => OpenStands
        BY <1>1, <3>1, <3>2 DEF OpenFirst, Declared
    <3>5. Receive(new) /\ new.op = "reset" /\ new.updates = updates
        BY <2>5 DEF ReceiveReset
    <3> HIDE DEF updates, new
    <3> QED BY <2>2, <3>3, <3>4, <3>5
  <2> QED BY <2>1, <2>3, <2>4, <2>5, RequestCases
<1> QED BY <1>3, <1>5, <1>6

LEMMA OutcomeInvNext ==
    ASSUME OutcomeInv, [Next]_vars
    PROVE  OutcomeInv'
<1>1. TypeOK'
    BY NextType DEF OutcomeInv
<1>2. CASE \E r \in Runners : WorkerStep(r)
    BY <1>1, <1>2, WorkerKeepsAgreement, WorkerKeepsOutcomes DEF OutcomeInv
<1>3. CASE Tick \/ ChangePhase \/ UserStep \/ AdminStep \/ UNCHANGED vars
    BY <1>1, <1>3, DeclareKeepsOutcomes, ResetKeepsOutcomes, OthersKeepOutcomes DEF OutcomeInv
<1> QED BY <1>2, <1>3 DEF Next, WorkerStep

\* The settled result is the one every decided bet was decided on, at every
\* moment and also with runs that overlap, as long as no reset has changed what
\* is displayed of it: what a worker read before its commit is still what is
\* displayed when it stores it.
THEOREM SettledExplainsOutcomes == Spec => []OutcomesMatchSettled
<1>1. Init => OutcomeInv
  <2> SUFFICES ASSUME Init PROVE OutcomeInv
      OBVIOUS
  <2>1. ResultsAgree /\ OpenFirst
      BY DEF Init, ResultsAgree, OpenFirst, PartOf, IdleWorker, NewSession, EmptyResult, Declared,
         Modes
  <2>2. SettlesDeclared /\ DecidedByCurrent
      BY DEF Init, SettlesDeclared, DecidedByCurrent, Settling, IdleWorker
  <2> QED BY <2>1, <2>2, InitType DEF OutcomeInv
<1>2. OutcomeInv => OutcomesMatchSettled
  <2> SUFFICES ASSUME OutcomeInv, NEW b \in Bets, bets[b] \in {"won", "lost"}, Standing(b),
                      \A m \in ModesOf(b) : session.settled[m] # NoPana
               PROVE  bets[b] = "won" <=> Wins(b, session.settled)
      BY DEF OutcomesMatchSettled, Standing
  <2>1. /\ PartOf(session.settled, session, past.reset)
        /\ bets[b] = "won" <=> Wins(b, session.current)
      BY DEF OutcomeInv, ResultsAgree, DecidedByCurrent
  <2> QED BY <2>1, PartAgrees DEF Standing
<1> QED BY <1>1, <1>2, OutcomeInvNext, PTL DEF Spec
=============================================================================

----------------------------- MODULE Settlement -----------------------------
(***************************************************************************)
(* One betting session from the first bet to the last payout: users place  *)
(* bets, admins declare, reset and cancel, and the task runner executes    *)
(* the settlement tasks that the declarations queue.                       *)
(*                                                                         *)
(* A database transaction is one step, because MongoDB commits it as one.  *)
(* Whatever the code reads outside the transaction is a step of its own,   *)
(* and what was read is kept (worker[r].seen, a request's seen) until it   *)
(* is used, so that other actors move in between.                          *)
(***************************************************************************)
EXTENDS SessionDoc, Sequences, FiniteSets, Functions

CONSTANTS
    Users,
    Bets,           \* the bets users may place, one per order
    Owner,          \* the user of a bet
    Kind,           \* "open", "close", or "final": an open bet that needs both panas
    Covers,         \* the panas a bet wins on; for a final bet, <<open, close>> pairs
    Stake,          \* amount of a bet
    Payout,         \* what a bet pays when it wins: a motor bet has a stake per pana
    Funds,          \* a user's balance before the first bet
    Runners,        \* TaskRunner.run() calls that may overlap
    FetchLimit,     \* tasks a run fetches
    MaxAttempts,    \* maxAttempts of a task
    MaxTasks,       \* bound: declarations in a behaviour
    AdminOps,       \* the requests there are besides declarations: lock, reset, cancel
    MaxInFlight,    \* bound: admin requests between their read and their write
    MaxErrors,      \* bound: database errors thrown into a worker
    MaxCrashes      \* bound: runs that die half way

ASSUME BetsAssumption ==
    /\ IsFiniteSet(Bets)
    /\ Owner \in [Bets -> Users]
    /\ Kind \in [Bets -> {"open", "close", "final"}]
    /\ Stake \in [Bets -> Nat]
    /\ Payout \in [Bets -> [Panas \union {NoPana} -> Nat]]
    /\ Funds \in [Users -> Nat]

ASSUME BoundsAssumption ==
    /\ AdminOps \subseteq {"lock", "reset", "cancel"}
    /\ {FetchLimit, MaxAttempts} \subseteq Nat \ {0}
    /\ MaxTasks \in Nat
    /\ MaxInFlight \in Nat
    /\ MaxErrors \in Nat
    /\ MaxCrashes \in Nat

VARIABLES
    clock,      \* 0 before openTime, 1 before closeTime, 2 after it
    session,    \* the GameSession document
    bets,       \* status of each bet document, "none" while there is none
    wallet,     \* balance and exposure of each user
    ledger,     \* BET_DEBITs, and number and total amount of a bet's WIN_CREDITs
    placing,    \* bets validated but not yet committed
    requests,   \* admin requests between their read and their write
    tasks,      \* EventTask documents, each with its SettlementJob
    worker,     \* what each runner is doing
    errors,     \* database errors so far
    crashes,    \* runs that died so far
    past        \* history, read by no action: what two actors did to each other

vars == <<clock, session, bets, wallet, ledger, placing, requests, tasks,
          worker, errors, crashes, past>>

-----------------------------------------------------------------------------
(* Types *)

BetStatuses == {"none", "pending", "won", "lost"}

Task ==
    [mode     : Modes,
     pana     : Panas,
     revision : Nat,
     status   : {"pending", "processing", "completed", "failed"},
     attempts : Nat,
     job      : {"processing", "completed", "failed"}]

Request ==
    [op : {"declare"}, mode : Modes, pana : Panas]
      \union [op : {"reset"}, mode : Modes, updates : ResetUpdates]
      \union [op : {"lock"}, phase : RunningPhases]
      \union [op : {"cancel"}, phase : Phases, wasSettled : BOOLEAN, hadBets : BOOLEAN]

Worker ==
    [pc    : {"idle", "next", "check", "read", "recheck", "commit", "store",
              "remaining", "close", "state", "job", "catch", "done", "failed"},
     queue : SUBSET [id : Nat, attempts : Nat],
     task  : Nat,
     tries : Nat,
     seen  : SessionRow,       \* as the check has read it
     row   : SessionRow,       \* as the last write of the handler left it
     bets  : SUBSET Bets]

Ledger == [debits : SUBSET Bets, credits : [Bets -> Nat], paid : [Bets -> Nat]]

IdleWorker ==
    [pc |-> "idle", queue |-> {}, task |-> 0, tries |-> 0,
     seen |-> NewSession, row |-> NewSession, bets |-> {}]

\* A bet is contested once two runs have had it in their batches at one time; a
\* mode is reset once a reset has changed what is displayed of it; a write is
\* lost once a reset has been stored over a revision it had not read.
History == [contested : SUBSET Bets, reset : SUBSET Modes, lost : BOOLEAN]

TypeOK ==
    /\ clock \in 0 .. 2
    /\ session \in SessionRow
    /\ bets \in [Bets -> BetStatuses]
    /\ DOMAIN wallet = Users     \* its amounts: see the money invariants
    /\ ledger \in Ledger
    /\ placing \subseteq Bets
    /\ requests \subseteq Request
    /\ tasks \in Seq(Task)
    /\ worker \in [Runners -> Worker]
    /\ \A r \in Runners :
         worker[r].pc \notin {"idle", "next"} => worker[r].task \in DOMAIN tasks
    /\ \A r \in Runners : \A e \in worker[r].queue : e.id \in DOMAIN tasks
    /\ errors \in Nat
    /\ crashes \in Nat
    /\ past \in History

Init ==
    /\ clock = 0
    /\ session = NewSession
    /\ bets = [b \in Bets |-> "none"]
    /\ wallet = [u \in Users |-> [balance |-> Funds[u], exposure |-> 0]]
    /\ ledger = [debits |-> {}, credits |-> [b \in Bets |-> 0],
                 paid |-> [b \in Bets |-> 0]]
    /\ placing = {}
    /\ requests = {}
    /\ tasks = <<>>
    /\ worker = [r \in Runners |-> IdleWorker]
    /\ errors = 0
    /\ crashes = 0
    /\ past = [contested |-> {}, reset |-> {}, lost |-> FALSE]

-----------------------------------------------------------------------------
(* Time and the scheduled phase change *)

Tick ==
    /\ clock < 2
    /\ clock' = clock + 1
    /\ UNCHANGED <<session, bets, wallet, ledger, placing, requests, tasks,
                   worker, errors, crashes, past>>

WritePhase(p) ==
    /\ session.status = "active"
    /\ session.phase # p
    /\ session' = SetPhase(session, p)
    /\ UNCHANGED <<clock, bets, wallet, ledger, placing, requests, tasks,
                   worker, errors, crashes, past>>

\* MARKET_PHASE_CHANGE is due at openTime and looks at no phase.
ChangePhase == clock >= 1 /\ WritePhase("close_running")

-----------------------------------------------------------------------------
(* Bet placement *)

ModeOf(b) == IF Kind[b] = "close" THEN "close" ELSE "open"

AcceptsBet(s, b) ==
    /\ s.status = "active"
    /\ s.phase \in BettingPhases
    /\ IF ModeOf(b) = "open" THEN ~s.openDeclared /\ clock = 0 ELSE clock < 2

\* The session is read and the bet validated before the transaction writes.
ValidateBet(b) ==
    /\ bets[b] = "none"
    /\ b \notin placing
    /\ AcceptsBet(session, b)
    /\ placing' = placing \union {b}
    /\ UNCHANGED <<clock, session, bets, wallet, ledger, requests, tasks,
                   worker, errors, crashes, past>>

DebitBalanceOnly(w, amount) ==                                  \* Mutant
    [w EXCEPT !.balance = @ - amount]
LockExposureOnly(w, amount) ==                                  \* Mutant
    [w EXCEPT !.exposure = @ + amount]
PlaceBetDebit(w, amount) ==
    [balance |-> w.balance - amount, exposure |-> w.exposure + amount]

PlaceBet(b) ==
    /\ b \in placing
    /\ wallet[Owner[b]].balance >= Stake[b]
    /\ wallet' = [wallet EXCEPT ![Owner[b]] = PlaceBetDebit(@, Stake[b])]
    /\ bets' = [bets EXCEPT ![b] = "pending"]
    /\ ledger' = [ledger EXCEPT !.debits = @ \union {b}]
    /\ placing' = placing \ {b}
    /\ UNCHANGED <<clock, session, requests, tasks, worker, errors, crashes, past>>

\* Insufficient balance, or the transaction aborts.
RejectBet(b) ==
    /\ b \in placing
    /\ placing' = placing \ {b}
    /\ UNCHANGED <<clock, session, bets, wallet, ledger, requests, tasks,
                   worker, errors, crashes, past>>

-----------------------------------------------------------------------------
(* Admin requests: a read with its checks, then the write *)

MayDeclare(s, mode) ==
    /\ s.status = "active"
    /\ IF mode = "open"
       THEN /\ s.phase \in RunningPhases
            /\ clock >= 1
       ELSE /\ s.phase \in {"close_running", "market_closed"}
            /\ s.openDeclared
            /\ Declared(s, "open")
            /\ clock = 2
    /\ ~Declared(s, mode)   \* declared before: replayed or refused, no write

\* A reset checks no more than that there is a result to clear.
MayReset(s, mode) == Declared(s, mode)

MayCancel(s) == s.settlement # "processing" /\ s.status # "cancelled"

Receive(request) ==
    /\ Cardinality(requests) < MaxInFlight
    /\ requests' = requests \union {request}
    /\ UNCHANGED <<clock, session, bets, wallet, ledger, placing, tasks,
                   worker, errors, crashes, past>>

ReceiveDeclare(mode, pana) ==
    /\ Len(tasks) < MaxTasks
    /\ MayDeclare(session, mode)
    /\ Receive([op |-> "declare", mode |-> mode, pana |-> pana])

ReceiveReset(mode) ==
    /\ "reset" \in AdminOps
    /\ MayReset(session, mode)
    /\ Receive([op |-> "reset", mode |-> mode,
                updates |-> UpdatesOfReset(session, mode)])

ReceiveCancel ==
    /\ "cancel" \in AdminOps
    /\ MayCancel(session)
    /\ Receive([op |-> "cancel", phase |-> session.phase,
                wasSettled |-> IsSettled(session),
                hadBets |-> \E b \in Bets : bets[b] # "none"])

\* The lock is a toggle, for a task at closeTime and for an admin at any time.
ReceiveLock ==
    /\ "lock" \in AdminOps
    /\ session.status = "active"
    /\ session.phase \in RunningPhases
    /\ Receive([op |-> "lock", phase |-> LockTarget(session, clock = 0)])

\* The declaration transaction: the result, the settlement job and its task.
DeclareStep(q) ==
    /\ q \in requests
    /\ q.op = "declare"
    /\ Len(tasks) < MaxTasks
    /\ CanStoreResult(session, q.mode)
    /\ session' = DeclareResult(session, q.mode, q.pana)
    /\ tasks' = Append(tasks, [mode |-> q.mode, pana |-> q.pana,
                               revision |-> session'.revision, status |-> "pending",
                               attempts |-> 0, job |-> "processing"])
    /\ requests' = requests \ {q}
    /\ UNCHANGED <<clock, bets, wallet, ledger, placing, worker, errors, crashes, past>>

ResetStep(q) ==
    /\ q \in requests
    /\ q.op = "reset"
    /\ session' = ResetResult(session, q.updates)
    /\ requests' = requests \ {q}
    /\ past' = [past EXCEPT
         !.reset = @ \union {m \in Modes : session'.current[m] # session.current[m]},
         !.lost  = @ \/ q.updates.revision # session.revision + 1]
    /\ UNCHANGED <<clock, bets, wallet, ledger, placing, tasks, worker, errors, crashes>>

LockStep(q) ==
    /\ q \in requests
    /\ q.op = "lock"
    /\ session' = SetPhase(session, q.phase)
    /\ requests' = requests \ {q}
    /\ UNCHANGED <<clock, bets, wallet, ledger, placing, tasks, worker, errors,
                   crashes, past>>

CancelStep(q) ==
    /\ q \in requests
    /\ q.op = "cancel"
    /\ session.status # "cancelled"
    /\ session' = CancelSession(session, q.phase, q.wasSettled, q.hadBets)
    /\ requests' = requests \ {q}
    /\ UNCHANGED <<clock, bets, wallet, ledger, placing, tasks, worker, errors,
                   crashes, past>>

\* The conditional update matches no document, or the transaction aborts.
RequestFails(q) ==
    /\ q \in requests
    /\ requests' = requests \ {q}
    /\ UNCHANGED <<clock, session, bets, wallet, ledger, placing, tasks, worker,
                   errors, crashes, past>>

-----------------------------------------------------------------------------
(* The task runner: one query for the pending tasks, then one task at a     *)
(* time, each claimed by saving the document that the query had returned.   *)

Goto(r, pc) == worker' = [worker EXCEPT ![r].pc = pc]

EndHandler(r, pc) ==
    worker' = [worker EXCEPT ![r].pc = pc, ![r].seen = NewSession, ![r].row = NewSession,
                             ![r].bets = {}]

TaskOf(r) == tasks[worker[r].task]

\* The pending tasks that were queued first.
Fetched ==
    LET due == {i \in DOMAIN tasks : tasks[i].status = "pending"}
    IN  {i \in due : Cardinality({j \in due : j < i}) < FetchLimit}

StartRun(r) ==
    /\ worker[r].pc = "idle"
    /\ Fetched # {}
    /\ worker' = [worker EXCEPT ![r] =
         [IdleWorker EXCEPT
            !.pc = "next",
            !.queue = {[id |-> i, attempts |-> tasks[i].attempts] : i \in Fetched}]]
    /\ UNCHANGED <<clock, session, bets, wallet, ledger, placing, requests,
                   tasks, errors, crashes, past>>

ClaimTask(r) ==
    /\ worker[r].pc = "next"
    /\ \E e \in worker[r].queue :
         /\ \A other \in worker[r].queue : e.id <= other.id
         /\ worker' = [worker EXCEPT ![r].pc = "check",
                                     ![r].queue = @ \ {e},
                                     ![r].task = e.id,
                                     ![r].tries = e.attempts]
         /\ tasks' = [tasks EXCEPT ![e.id].status = "processing"]
    /\ UNCHANGED <<clock, session, bets, wallet, ledger, placing, requests,
                   errors, crashes, past>>

EndRun(r) ==
    /\ worker[r].pc = "next"
    /\ worker[r].queue = {}
    /\ worker' = [worker EXCEPT ![r] = IdleWorker]
    /\ UNCHANGED <<clock, session, bets, wallet, ledger, placing, requests,
                   tasks, errors, crashes, past>>

FinishTask(r) ==
    [worker EXCEPT ![r] = [IdleWorker EXCEPT !.pc = "next", !.queue = worker[r].queue]]

CompleteTask(r) ==
    /\ worker[r].pc = "done"
    /\ tasks' = [tasks EXCEPT ![worker[r].task].status = "completed"]
    /\ worker' = FinishTask(r)
    /\ UNCHANGED <<clock, session, bets, wallet, ledger, placing, requests,
                   errors, crashes, past>>

StaysClaimed(attempts) ==                                       \* Mutant
    IF attempts >= MaxAttempts THEN "failed" ELSE "processing"
StatusAfter(attempts) == IF attempts >= MaxAttempts THEN "failed" ELSE "pending"

RetryOrFailTask(r) ==
    LET attempts == worker[r].tries + 1
    IN  /\ worker[r].pc = "failed"
        /\ tasks' = [tasks EXCEPT
             ![worker[r].task].attempts = attempts,
             ![worker[r].task].status = StatusAfter(attempts)]
        /\ worker' = FinishTask(r)
        /\ UNCHANGED <<clock, session, bets, wallet, ledger, placing, requests,
                       errors, crashes, past>>

-----------------------------------------------------------------------------
(* settleResult *)

\* The panas a bet is decided on.
ModesOf(b) == IF Kind[b] = "final" THEN Modes ELSE {ModeOf(b)}

\* Which pending bets a pass decides.
DecideFinalEarly(b, mode) ==                                    \* Mutant
    IF mode = "open" THEN ModeOf(b) = "open" ELSE Kind[b] = "close"
InPass(b, mode) ==
    IF mode = "open" THEN Kind[b] = "open" ELSE Kind[b] \in {"close", "final"}

Wins(b, result) ==
    CASE Kind[b] = "final" -> /\ result["open"] # NoPana
                              /\ result["close"] # NoPana
                              /\ <<result["open"], result["close"]>> \in Covers[b]
      [] OTHER -> result[ModeOf(b)] \in Covers[b]

\* A later declaration or reset has taken a newer revision.
NeverStale(task) == FALSE                                       \* Mutant
IsStale(task) == session.revision > task.revision

\* The session must be active, the task's revision current, its result declared.
CheckSession(r) ==
    LET stale  == IsStale(TaskOf(r))
        active == session.status = "active"
        pc     == IF ~active THEN "failed"
                  ELSE IF stale THEN "done"
                  ELSE IF ~Declared(session, TaskOf(r).mode) THEN "failed"
                  ELSE "read"
    IN  /\ worker[r].pc = "check"
        /\ worker' = [worker EXCEPT ![r].pc = pc,
                                    ![r].seen = ResultPart(session)]
        /\ tasks' = IF ~active \/ stale
                    THEN [tasks EXCEPT ![worker[r].task].job = "failed"]
                    ELSE tasks
        /\ UNCHANGED <<clock, session, bets, wallet, ledger, placing, requests,
                       errors, crashes, past>>

PlacedBets(mode) ==                                             \* Mutant
    {b \in Bets : bets[b] # "none" /\ (mode = "close" \/ ModeOf(b) = "open")}
FindPending(mode) ==
    {b \in Bets : bets[b] = "pending" /\ (mode = "close" \/ ModeOf(b) = "open")}

\* The bets a run is about to decide.
Decided(r) == {b \in worker[r].bets : InPass(b, TaskOf(r).mode)}

Held(r) == IF worker[r].pc \in {"recheck", "commit"} THEN Decided(r) ELSE {}

ReadBets(r) ==
    LET found  == FindPending(TaskOf(r).mode)
        shared == {b \in found : /\ InPass(b, TaskOf(r).mode)
                                /\ \E s \in Runners \ {r} : b \in Held(s)}
    IN  /\ worker[r].pc = "read"
        /\ worker' = [worker EXCEPT
             ![r].pc = IF found = {} THEN "store" ELSE "recheck",
             ![r].bets = found]
        /\ tasks' = [tasks EXCEPT ![worker[r].task].job = "processing"]
        /\ past' = [past EXCEPT !.contested = @ \union shared]
        /\ UNCHANGED <<clock, session, bets, wallet, ledger, placing, requests,
                       errors, crashes>>

RecheckSession(r) ==
    LET active == session.status = "active"
    IN  /\ worker[r].pc = "recheck"
        /\ Goto(r, IF active THEN "commit" ELSE "catch")
        /\ tasks' = IF active THEN tasks
                    ELSE [tasks EXCEPT ![worker[r].task].job = "failed"]
        /\ UNCHANGED <<clock, session, bets, wallet, ledger, placing, requests,
                       errors, crashes, past>>

Winners(r) == {b \in Decided(r) : Wins(b, worker[r].seen.current)}

OwnedBy(u, S) == {b \in S : Owner[b] = u}

\* calculatePayout takes the result from the session as it is at the commit.
PayoutNow(b) == Payout[b][session.current[ModeOf(b)]]

\* processBatchSettlement: one transaction, and no look at what the bets are now.
SettleBatch(r) ==
    LET decided == Decided(r)
        winners == Winners(r)
        due     == [b \in Bets |-> PayoutNow(b)]
    IN  /\ worker[r].pc = "commit"
        /\ wallet' = [u \in Users |->
             [balance  |-> wallet[u].balance + SumFunctionOnSet(due, OwnedBy(u, winners)),
              exposure |-> wallet[u].exposure - SumFunctionOnSet(Stake, OwnedBy(u, decided))]]
        /\ ledger' = [ledger EXCEPT
             !.credits = [b \in Bets |-> IF b \in winners THEN @[b] + 1 ELSE @[b]],
             !.paid    = [b \in Bets |-> IF b \in winners THEN @[b] + due[b] ELSE @[b]]]
        /\ bets' = [b \in Bets |-> CASE b \in winners -> "won"
                                     [] b \in decided \ winners -> "lost"
                                     [] OTHER -> bets[b]]
        /\ Goto(r, "store")
        /\ UNCHANGED <<clock, session, placing, requests, tasks, errors, crashes, past>>

StoreSettledResult(r) ==
    LET next == IF TaskOf(r).mode = "open" THEN "state"
                ELSE IF worker[r].bets = {} THEN "close" ELSE "remaining"
    IN  /\ worker[r].pc = "store"
        /\ session' = StoreSettled(session, worker[r].seen, TaskOf(r).mode,
                                   TaskOf(r).revision)
        /\ worker' = [worker EXCEPT ![r].pc = next, ![r].row = ResultPart(session')]
        /\ UNCHANGED <<clock, bets, wallet, ledger, placing, requests, tasks,
                       errors, crashes, past>>

ReadRemaining(r) ==
    /\ worker[r].pc = "remaining"
    /\ Goto(r, IF \E b \in Bets : bets[b] = "pending" THEN "state" ELSE "close")
    /\ UNCHANGED <<clock, session, bets, wallet, ledger, placing, requests,
                   tasks, errors, crashes, past>>

\* markSettled returns null on a session in phase settled: the next line throws.
CloseSession(r) ==
    LET already == session.phase = "settled"
    IN  /\ worker[r].pc = "close"
        /\ session' = IF already THEN session ELSE MarkSettled(session)
        /\ worker' = [worker EXCEPT ![r].pc = IF already THEN "catch" ELSE "state",
                                    ![r].row = IF already THEN @
                                               ELSE ResultPart(session')]
        /\ UNCHANGED <<clock, bets, wallet, ledger, placing, requests, tasks,
                       errors, crashes, past>>

WriteResultState(r) ==
    /\ worker[r].pc = "state"
    /\ session' = StoreResultState(session, worker[r].row)
    /\ Goto(r, "job")
    /\ UNCHANGED <<clock, bets, wallet, ledger, placing, requests, tasks,
                   errors, crashes, past>>

CompleteJob(r) ==
    /\ worker[r].pc = "job"
    /\ tasks' = [tasks EXCEPT ![worker[r].task].job = "completed"]
    /\ EndHandler(r, "done")
    /\ UNCHANGED <<clock, session, bets, wallet, ledger, placing, requests,
                   errors, crashes, past>>

CatchError(r) ==
    /\ worker[r].pc = "catch"
    /\ session' = StoreFailed(session, worker[r].seen)
    /\ tasks' = [tasks EXCEPT ![worker[r].task].job = "failed"]
    /\ EndHandler(r, "failed")
    /\ UNCHANGED <<clock, bets, wallet, ledger, placing, requests, errors, crashes, past>>

-----------------------------------------------------------------------------
(* Failures *)

InTry == {"recheck", "commit", "store", "remaining", "close", "state", "job"}

\* An await rejects: inside the try block the catch block runs first.
ThrowError(r) ==
    /\ errors < MaxErrors
    /\ worker[r].pc \in InTry \union {"check", "read", "catch"}
    /\ Goto(r, IF worker[r].pc \in InTry THEN "catch" ELSE "failed")
    /\ errors' = errors + 1
    /\ UNCHANGED <<clock, session, bets, wallet, ledger, placing, requests,
                   tasks, crashes, past>>

\* The process dies, or the save after the handler throws out of run().
AbandonRun(r) ==
    /\ crashes < MaxCrashes
    /\ worker[r].pc # "idle"
    /\ worker' = [worker EXCEPT ![r] = IdleWorker]
    /\ crashes' = crashes + 1
    /\ UNCHANGED <<clock, session, bets, wallet, ledger, placing, requests,
                   tasks, errors, past>>

-----------------------------------------------------------------------------
UserStep == \E b \in Bets : ValidateBet(b) \/ PlaceBet(b) \/ RejectBet(b)

AdminStep ==
    \/ \E mode \in Modes, pana \in Panas : ReceiveDeclare(mode, pana)
    \/ \E mode \in Modes : ReceiveReset(mode)
    \/ ReceiveLock \/ ReceiveCancel
    \/ \E q \in requests :
         \/ DeclareStep(q) \/ ResetStep(q) \/ LockStep(q) \/ CancelStep(q)
         \/ RequestFails(q)

RunnerStep(r) ==
    \/ StartRun(r) \/ ClaimTask(r) \/ EndRun(r)
    \/ CompleteTask(r) \/ RetryOrFailTask(r)
    \/ CheckSession(r) \/ ReadBets(r) \/ RecheckSession(r) \/ SettleBatch(r)
    \/ StoreSettledResult(r) \/ ReadRemaining(r) \/ CloseSession(r)
    \/ WriteResultState(r) \/ CompleteJob(r) \/ CatchError(r)

Next ==
    \/ Tick
    \/ ChangePhase
    \/ UserStep
    \/ AdminStep
    \/ \E r \in Runners : RunnerStep(r) \/ ThrowError(r) \/ AbandonRun(r)

Spec == Init /\ [][Next]_vars

\* The scheduler ticks for ever and a started run goes on by itself.
FairSpec == Spec /\ \A r \in Runners : WF_vars(RunnerStep(r))
-----------------------------------------------------------------------------
(* Money *)

Pending == {b \in Bets : bets[b] = "pending"}

\* Every change of a balance has its ledger entry, whatever crashes, fails or
\* runs twice: a balance is the funds less the BET_DEBITs plus the WIN_CREDITs.
WalletMatchesLedger ==
    \A u \in Users :
      wallet[u].balance =
        Funds[u] - SumFunctionOnSet(Stake, OwnedBy(u, ledger.debits))
          + SumFunctionOnSet(ledger.paid, OwnedBy(u, Bets))

\* The exposure of a wallet is the stakes of the user's undecided bets: nothing
\* stays locked for a decided bet and nothing is released twice, unless two runs
\* had one of the user's bets in their batches at one time.
ExposureMatchesPending ==
    \A u \in Users : OwnedBy(u, past.contested) = {} =>
      wallet[u].exposure = SumFunctionOnSet(Stake, OwnedBy(u, Pending))

\* A winning bet is paid once, a losing or undecided bet never, however often
\* its settlement task is retried.
PaidOnce ==
    \A b \in Bets : ledger.credits[b] = IF bets[b] = "won" THEN 1 ELSE 0

\* Only a bet that two runs had in their batches at one time can be paid twice:
\* runs may overlap, die, be retried and start again, declarations and resets
\* may leave their tasks behind, and every other bet is paid as PaidOnce says.
PaidOnceUncontested ==
    \A b \in Bets \ past.contested :
      ledger.credits[b] = IF bets[b] = "won" THEN 1 ELSE 0

\* Such a bet is also decided once, for good.
OutcomesAreFinal ==
    [][\A b \in Bets \ past.contested :
         bets[b] \in {"won", "lost"} => bets'[b] = bets[b]]_vars

\* A bet is decided for a task that was the latest change of the result when its
\* handler looked at the session, and on the pana of that task: one that a reset
\* or a later declaration had overtaken by then decides nothing.  (One that is
\* overtaken after this look decides as if it were not: nothing looks at the
\* revision again.)  It holds until a reset is stored over a revision it has not
\* read, because then two results have one revision.
DecidesOnItsPana ==
    [][~past.lost => \A b \in Bets :
         bets[b] = "pending" /\ bets'[b] \in {"won", "lost"} =>
           \E r \in Runners :
             /\ b \in Held(r) /\ worker'[r].pc = "store"
             /\ worker[r].seen.revision = TaskOf(r).revision
             /\ Kind[b] # "final" =>
                  (bets'[b] = "won" <=> TaskOf(r).pana \in Covers[b])]_vars

\* The settlement of the code is a bet book: a step of it places a bet, decides
\* a batch and pays its winners, or touches no bet; and no bet is decided again
\* but a contested one.
Book == INSTANCE BetBook WITH status <- bets, credits <- ledger.credits,
                               contested <- past.contested

IsBetBook == Book!Spec

-----------------------------------------------------------------------------
(* The session document *)

\* The settled result is the one the bets were decided on: a decided bet won
\* exactly if it wins on the settled panas, once its panas are stored, as long as
\* no reset has changed what is displayed of them.
OutcomesMatchSettled ==
    \A b \in Bets :
      /\ bets[b] \in {"won", "lost"}
      /\ ModesOf(b) \intersect past.reset = {}
      /\ \A m \in ModesOf(b) : session.settled[m] # NoPana
      => (bets[b] = "won" <=> Wins(b, session.settled))

-----------------------------------------------------------------------------
(* Progress *)

\* Every queued settlement task is worked off: it completes, or it fails after
\* its attempts, unless the run that had claimed it died.
Abandoned(i) ==
    crashes > 0 /\ tasks[i].status = "processing" /\ \A r \in Runners : worker[r].task # i

TasksEnd ==
    \A i \in 1 .. MaxTasks :
      i \in DOMAIN tasks ~>
        /\ i \in DOMAIN tasks
        /\ tasks[i].status \in {"completed", "failed"} \/ Abandoned(i)

-----------------------------------------------------------------------------
(* Statements the code refutes; the README tells how *)

\* A winning bet is paid for the pana it was found to win on, although the
\* payout is computed from another read of the session than the decision.
PaidAsDecided ==
    [][\A b \in Bets :
         bets[b] = "pending" /\ bets'[b] = "won" =>
           \E r \in Runners :
             ledger'.paid[b] = Payout[b][worker[r].seen.current[ModeOf(b)]]]_vars

\* Each change of the displayed result takes a new, higher revision.
ResultChangeTakesRevision ==
    [][session'.current # session.current => session'.revision > session.revision]_vars

\* A session never claims consistency while the displayed result and the one
\* paid on differ, or while a settlement is under way.
NeverHidesDivergence ==
    session.consistent =>
      /\ session.current = session.settled
      /\ session.settlement \notin {"processing", "failed"}

\* With the settlement completed, the flag is down only if the results differ.
FlagMeansDivergence ==
    /\ session.status # "cancelled"
    /\ session.settlement = "completed"
    /\ \A r \in Runners : worker[r].pc = "idle"
    /\ ~session.consistent
    => session.current # session.settled

\* A settlement task of the displayed result that has used up its attempts
\* shows on the session.
FailureIsVisible ==
    \A i \in DOMAIN tasks :
      tasks[i].status = "failed" /\ tasks[i].revision = session.revision
        => session.settlement = "failed"

\* A session is not cancelled while its settlement is processing.
NoCancelDuringSettlement ==
    [][session'.status = "cancelled" /\ session.status # "cancelled"
         => session.settlement # "processing"]_vars
=============================================================================

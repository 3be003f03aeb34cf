---------------------------- MODULE RevertBatch ----------------------------
(***************************************************************************)
(* Revert batches: an admin has the pending bets of a session refunded and *)
(* removed, chunk by chunk, in a task that may fail, die or run twice,     *)
(* while bets are placed and settled.                                      *)
(*                                                                         *)
(* All batches are of one session.  Bets are numbered in the order of      *)
(* their ids.  Placing, declaring and settling are as module Settlement    *)
(* has them, reduced to what a revert can meet.                            *)
(***************************************************************************)
EXTENDS Integers, Sequences, FiniteSets, Functions

CONSTANTS
    Users,
    Bets,           \* 1 .. n, in id order
    Orders,         \* placements: the bets of an order share one BET_DEBIT
    OrderOf,        \* the order of a bet
    Payer,          \* the user of an order
    Mode,           \* "open" or "close", of a bet
    Stake,          \* amount of a bet
    Payout,         \* what a bet pays when it wins
    Funds,          \* a user's balance before the first order
    Keys,           \* idempotency keys of create requests
    ChunkSize,      \* bets per chunk
    Runners,        \* TaskRunner.run() calls that may overlap
    MaxAttempts,    \* maxAttempts of a task
    MaxTasks,       \* bound: tasks queued in a behaviour
    MaxInFlight,    \* bound: create requests between preflight and create
    MaxErrors,      \* bound: database errors thrown into a worker
    MaxCrashes      \* bound: runs that die half way

ASSUME OrdersAssumption ==
    /\ Bets \subseteq Nat \ {0}     \* 0 stands for the null cursor
    /\ IsFiniteSet(Bets) /\ IsFiniteSet(Orders)
    /\ OrderOf \in [Bets -> Orders]
    /\ Payer \in [Orders -> Users]
    /\ Mode \in [Bets -> {"open", "close"}]
    /\ Stake \in [Bets -> Nat]
    /\ Payout \in [Bets -> Nat]
    /\ Funds \in [Users -> Nat]

ASSUME LimitsAssumption ==
    /\ ChunkSize \in Nat \ {0}
    /\ MaxAttempts \in Nat \ {0}
    /\ {MaxTasks, MaxInFlight, MaxErrors, MaxCrashes} \subseteq Nat

VARIABLES
    bets,       \* what became of each bet
    wallet,     \* balance and exposure of each user
    debits,     \* the BET_DEBIT of each order: its amount and the bets it names
    credits,    \* what each bet was paid
    refunds,    \* history: how often the stake of a bet was given back
    declared,   \* modes whose result is declared
    settling,   \* pending bets a settlement pass has read
    batches,    \* the RevertBatch document of each key
    creating,   \* create requests: past the preflight, or with the batch stored
    tasks,      \* PROCESS_REVERT_BATCH tasks
    worker,     \* what each runner is doing
    errors,     \* database errors so far
    crashes     \* runs that died so far

money == <<bets, wallet, debits, credits, refunds>>
world == <<declared, settling>>
faults == <<errors, crashes>>
vars == <<money, world, batches, creating, tasks, worker, faults>>

-----------------------------------------------------------------------------
Owner(b) == Payer[OrderOf[b]]

BetsOf(o) == {b \in Bets : OrderOf[b] = o}

OwnedBy(u, S) == {b \in S : Owner(b) = u}

With(status) == {b \in Bets : bets[b] = status}

Total(S) == SumFunctionOnSet(Stake, S)

Counts == [refunded : Nat, skipped : Nat, failed : Nat]

NoCounts == [refunded |-> 0, skipped |-> 0, failed |-> 0]

Plus(c, d) == [k \in DOMAIN c |-> c[k] + d[k]]

NoBatch ==
    [status |-> "none", cursor |-> 0, counts |-> NoCounts, observed |-> {}, eligible |-> {}]

Batch ==
    [status   : {"none", "pending", "processing", "completed", "failed"},
     cursor   : Nat,
     counts   : Counts,
     observed : SUBSET {"open", "close"},   \* for resultRevisionObserved
     eligible : SUBSET Bets]                \* for eligibleCount

\* A create request keeps what its preflight has read.
Request ==
    [key      : Keys,
     stored   : BOOLEAN,
     observed : SUBSET {"open", "close"},
     eligible : SUBSET Bets]

Task ==
    [key      : Keys,
     status   : {"pending", "processing", "completed", "failed"},
     attempts : Nat]

Worker ==
    [pc     : {"idle", "next", "load", "mark", "chunk", "bet", "save", "complete",
               "catch", "done", "failed"},
     queue  : SUBSET [id : Nat, attempts : Nat],
     task   : Nat,
     tries  : Nat,
     cursor : Nat,
     chunk  : SUBSET Bets,      \* bets of the chunk still to be looked at
     last   : Nat,              \* id of its last bet
     counts : Counts,           \* of the chunk
     total  : Counts,           \* of the chunks before
     base   : Counts]           \* of the batch when it was loaded

IdleWorker ==
    [pc |-> "idle", queue |-> {}, task |-> 0, tries |-> 0, cursor |-> 0, chunk |-> {},
     last |-> 0, counts |-> NoCounts, total |-> NoCounts, base |-> NoCounts]

TypeOK ==
    /\ bets \in [Bets -> {"none", "pending", "won", "lost", "deleted"}]
    /\ DOMAIN wallet = Users    \* amounts are sums: see the money invariants
    /\ DOMAIN debits = Orders
    /\ \A o \in Orders : debits[o].bets \subseteq BetsOf(o)
    /\ credits \in [Bets -> Nat]
    /\ refunds \in [Bets -> Nat]
    /\ declared \subseteq {"open", "close"}
    /\ settling \subseteq Bets
    /\ batches \in [Keys -> Batch]
    /\ creating \subseteq Request
    /\ tasks \in Seq(Task)
    /\ worker \in [Runners -> Worker]
    /\ \A r \in Runners :
         worker[r].pc \notin {"idle", "next"} => worker[r].task \in DOMAIN tasks
    /\ \A r \in Runners : \A e \in worker[r].queue : e.id \in DOMAIN tasks
    /\ errors \in Nat
    /\ crashes \in Nat

Init ==
    /\ bets = [b \in Bets |-> "none"]
    /\ wallet = [u \in Users |-> [balance |-> Funds[u], exposure |-> 0]]
    /\ debits = [o \in Orders |-> [amount |-> 0, bets |-> {}]]
    /\ credits = [b \in Bets |-> 0]
    /\ refunds = [b \in Bets |-> 0]
    /\ declared = {}
    /\ settling = {}
    /\ batches = [k \in Keys |-> NoBatch]
    /\ creating = {}
    /\ tasks = <<>>
    /\ worker = [r \in Runners |-> IdleWorker]
    /\ errors = 0
    /\ crashes = 0

-----------------------------------------------------------------------------
(* The rest of the session *)

\* Ids grow: an order is placed after every order with smaller bets.
PlaceOrder(o) ==
    LET amount == Total(BetsOf(o))
        payer  == Payer[o]
    IN  /\ BetsOf(o) \subseteq With("none")
        /\ \A b \in BetsOf(o), c \in Bets : c > b => bets[c] = "none" \/ OrderOf[c] = o
        /\ \A b \in BetsOf(o) : Mode[b] \notin declared
        /\ wallet[payer].balance >= amount
        /\ wallet' = [wallet EXCEPT ![payer] = [balance  |-> @.balance - amount,
                                                exposure |-> @.exposure + amount]]
        /\ debits' = [debits EXCEPT ![o] = [amount |-> amount, bets |-> BetsOf(o)]]
        /\ bets' = [b \in Bets |-> IF OrderOf[b] = o THEN "pending" ELSE bets[b]]
        /\ UNCHANGED <<credits, refunds, world, batches, creating, tasks, worker, faults>>

DeclareResult(mode) ==
    /\ mode \notin declared
    /\ declared' = declared \union {mode}
    /\ UNCHANGED <<money, settling, batches, creating, tasks, worker, faults>>

ReadPendingBets ==
    /\ settling = {}
    /\ settling' = {b \in With("pending") : Mode[b] \in declared}
    /\ settling' # {}
    /\ UNCHANGED <<money, declared, batches, creating, tasks, worker, faults>>

\* The update of a bet that was removed meanwhile finds no document and aborts
\* the transaction of the whole batch of bets.
SettleBets(winners) ==
    LET found == \A b \in settling : bets[b] # "deleted"
    IN  /\ settling # {}
        /\ winners \subseteq settling
        /\ settling' = {}
        /\ IF found
           THEN /\ bets' = [b \in Bets |-> CASE b \in winners -> "won"
                                             [] b \in settling \ winners -> "lost"
                                             [] OTHER -> bets[b]]
                /\ credits' = [b \in Bets |-> IF b \in winners THEN credits[b] + Payout[b]
                                             ELSE credits[b]]
                /\ wallet' = [u \in Users |->
                     [balance  |-> wallet[u].balance
                                     + SumFunctionOnSet(Payout, OwnedBy(u, winners)),
                      exposure |-> wallet[u].exposure - Total(OwnedBy(u, settling))]]
           ELSE UNCHANGED <<bets, credits, wallet>>
        /\ UNCHANGED <<debits, refunds, declared, batches, creating, tasks, worker, faults>>

-----------------------------------------------------------------------------
(* Creating a batch *)

Active == {k \in Keys : batches[k].status \in {"pending", "processing"}}

Schedule(k) ==
    /\ Len(tasks) < MaxTasks
    /\ tasks' = Append(tasks, [key |-> k, status |-> "pending", attempts |-> 0])

\* createRevertBatch up to its create: no batch of this key, none active, and
\* something to revert.  That a result is declared is read, not refused.  The
\* unique index on the key lets one request of a key create.
Preflight(k) ==
    /\ Cardinality(creating) < MaxInFlight
    /\ \A q \in creating : q.key # k
    /\ batches[k].status = "none"
    /\ Active = {}
    /\ With("pending") # {}
    /\ creating' = creating \union
         {[key |-> k, stored |-> FALSE, observed |-> declared, eligible |-> With("pending")]}
    /\ UNCHANGED <<money, world, batches, tasks, worker, faults>>

CreateBatch(k) ==
    \E request \in creating :
      /\ request.key = k /\ ~request.stored
      /\ creating' = (creating \ {request}) \union {[request EXCEPT !.stored = TRUE]}
      /\ batches' = [batches EXCEPT ![k] =
           [NoBatch EXCEPT !.status = "pending", !.observed = request.observed,
                           !.eligible = request.eligible]]
      /\ UNCHANGED <<money, world, tasks, worker, faults>>

ScheduleBatch(k) ==
    \E request \in creating :
      /\ request.key = k /\ request.stored
      /\ creating' = creating \ {request}
      /\ Schedule(k)
      /\ UNCHANGED <<money, world, batches, worker, faults>>

\* The task of a stored batch cannot be queued.
ScheduleFails(k) ==
    \E request \in creating :
      /\ request.key = k /\ request.stored
      /\ errors < MaxErrors
      /\ creating' = creating \ {request}
      /\ batches' = [batches EXCEPT ![k].status = "failed"]
      /\ errors' = errors + 1
      /\ UNCHANGED <<money, world, tasks, worker, crashes>>

\* The create is rejected, or the process dies before the batch is scheduled.
CreateEnds(k) ==
    \E q \in creating :
      /\ q.key = k
      /\ q.stored => crashes < MaxCrashes
      /\ creating' = creating \ {q}
      /\ crashes' = IF q.stored THEN crashes + 1 ELSE crashes
      /\ UNCHANGED <<money, world, batches, tasks, worker, errors>>

\* The same key again: only a failed batch is scheduled once more.  (The
\* revert-all endpoint asks the preflight questions first and so allows less.)
Repost(k) ==
    /\ batches[k].status = "failed"
    /\ Schedule(k)
    /\ UNCHANGED <<money, world, batches, creating, worker, faults>>

-----------------------------------------------------------------------------
(* The task runner *)

StartRun(r) ==
    /\ worker[r].pc = "idle"
    /\ \E i \in DOMAIN tasks : tasks[i].status = "pending"
    /\ worker' = [worker EXCEPT ![r].pc = "next",
                    ![r].queue = {[id |-> i, attempts |-> tasks[i].attempts] :
                                  i \in {j \in DOMAIN tasks : tasks[j].status = "pending"}}]
    /\ UNCHANGED <<money, world, batches, creating, tasks, faults>>

ClaimTask(r) ==
    /\ worker[r].pc = "next"
    /\ \E e \in worker[r].queue :
         /\ \A other \in worker[r].queue : e.id <= other.id
         /\ tasks' = [tasks EXCEPT ![e.id].status = "processing"]
         /\ worker' = [worker EXCEPT ![r].pc = "load", ![r].task = e.id,
                                     ![r].tries = e.attempts, ![r].queue = @ \ {e}]
    /\ UNCHANGED <<money, world, batches, creating, faults>>

EndRun(r) ==
    /\ worker[r].pc = "next"
    /\ worker[r].queue = {}
    /\ worker' = [worker EXCEPT ![r] = IdleWorker]
    /\ UNCHANGED <<money, world, batches, creating, tasks, faults>>

FinishTask(r) ==
    worker' = [worker EXCEPT ![r] = [IdleWorker EXCEPT !.pc = "next",
                                                       !.queue = worker[r].queue]]

CompleteTask(r) ==
    /\ worker[r].pc = "done"
    /\ tasks' = [tasks EXCEPT ![worker[r].task].status = "completed"]
    /\ FinishTask(r)
    /\ UNCHANGED <<money, world, batches, creating, faults>>

StaysClaimed(attempts) ==                                       \* Mutant
    IF attempts >= MaxAttempts THEN "failed" ELSE "processing"
StatusAfter(attempts) == IF attempts >= MaxAttempts THEN "failed" ELSE "pending"

RetryOrFailTask(r) ==
    LET attempts == worker[r].tries + 1
    IN  /\ worker[r].pc = "failed"
        /\ tasks' = [tasks EXCEPT
             ![worker[r].task].attempts = attempts,
             ![worker[r].task].status = StatusAfter(attempts)]
        /\ FinishTask(r)
        /\ UNCHANGED <<money, world, batches, creating, faults>>

-----------------------------------------------------------------------------
(* executeRevertBatch *)

KeyOf(r) == tasks[worker[r].task].key

\* A completed batch is left alone, any other is processed from its cursor.
LoadBatch(r) ==
    LET batch == batches[KeyOf(r)]
    IN  /\ worker[r].pc = "load"
        /\ worker' = [worker EXCEPT
             ![r].pc     = IF batch.status = "completed" THEN "done" ELSE "mark",
             ![r].cursor = batch.cursor,
             ![r].base   = batch.counts]
        /\ UNCHANGED <<money, world, batches, creating, tasks, faults>>

MarkProcessing(r) ==
    /\ worker[r].pc = "mark"
    /\ batches' = [batches EXCEPT ![KeyOf(r)].status = "processing"]
    /\ worker' = [worker EXCEPT ![r].pc = "chunk"]
    /\ UNCHANGED <<money, world, creating, tasks, faults>>

\* The first ChunkSize pending bets after the cursor.
ChunkPastNext(cursor) ==                                        \* Mutant
    LET after == {b \in With("pending") : b > cursor + 1}
    IN  {b \in after : Cardinality({c \in after : c < b}) < ChunkSize}
NextChunk(cursor) ==
    LET after == {b \in With("pending") : b > cursor}
    IN  {b \in after : Cardinality({c \in after : c < b}) < ChunkSize}

ReadChunk(r) ==
    LET chunk == NextChunk(worker[r].cursor)
    IN  /\ worker[r].pc = "chunk"
        /\ IF chunk = {}
           THEN worker' = [worker EXCEPT ![r].pc = "complete"]
           ELSE \E last \in chunk :
                  /\ \A b \in chunk : b <= last
                  /\ worker' = [worker EXCEPT ![r].pc = "bet", ![r].chunk = chunk,
                                              ![r].last = last, ![r].counts = NoCounts]
        /\ UNCHANGED <<money, world, batches, creating, tasks, faults>>

NextBet(r, b) ==
    /\ worker[r].pc = "bet"
    /\ b \in worker[r].chunk
    /\ \A c \in worker[r].chunk : b <= c

Count(r, b, what) ==
    LET left == worker[r].chunk \ {b}
    IN  worker' = [worker EXCEPT ![r].chunk = left,
                                 ![r].pc = IF left = {} THEN "save" ELSE "bet",
                                 ![r].counts[what] = @ + 1]

\* removeBetFromDebitTransaction: the debit goes with its last bet; until then
\* it keeps its amount.
KeepDebit(debit, b) == [debit EXCEPT !.bets = @ \ {b}]          \* Mutant
RemoveFromDebit(debit, b) ==
    IF debit.bets = {b} THEN [amount |-> 0, bets |-> {}]
    ELSE [debit EXCEPT !.bets = @ \ {b}]

\* deleteBet finds the bet only while it is pending.
DeleteAny(b) == bets[b] # "none"                                \* Mutant
CanDelete(b) == bets[b] = "pending"

RefundBet(r, b) ==
    /\ NextBet(r, b)
    /\ CanDelete(b)
    /\ bets' = [bets EXCEPT ![b] = "deleted"]
    /\ refunds' = [refunds EXCEPT ![b] = @ + 1]
    /\ wallet' = [wallet EXCEPT ![Owner(b)] = [balance  |-> @.balance + Stake[b],
                                              exposure |-> @.exposure - Stake[b]]]
    /\ debits' = [debits EXCEPT ![OrderOf[b]] = RemoveFromDebit(@, b)]
    /\ Count(r, b, "refunded")
    /\ UNCHANGED <<credits, world, batches, creating, tasks, faults>>

SkipBet(r, b) ==
    /\ NextBet(r, b)
    /\ ~CanDelete(b)
    /\ Count(r, b, "skipped")
    /\ UNCHANGED <<money, world, batches, creating, tasks, faults>>

\* An error in the transaction of one bet aborts that transaction only.
FailBet(r, b) ==
    /\ NextBet(r, b)
    /\ errors < MaxErrors
    /\ errors' = errors + 1
    /\ Count(r, b, "failed")
    /\ UNCHANGED <<money, world, batches, creating, tasks, crashes>>

SaveChunkProgress(r) ==
    /\ worker[r].pc = "save"
    /\ batches' = [batches EXCEPT ![KeyOf(r)].cursor = worker[r].last,
                                  ![KeyOf(r)].counts = Plus(@, worker[r].counts)]
    /\ worker' = [worker EXCEPT ![r].pc = "chunk", ![r].cursor = worker[r].last,
                                ![r].total = Plus(@, worker[r].counts)]
    /\ UNCHANGED <<money, world, creating, tasks, faults>>

MarkCompleted(r) ==
    /\ worker[r].pc = "complete"
    /\ batches' = [batches EXCEPT ![KeyOf(r)].status = "completed",
                                  ![KeyOf(r)].counts = Plus(worker[r].base, worker[r].total)]
    /\ worker' = [worker EXCEPT ![r].pc = "done"]
    /\ UNCHANGED <<money, world, creating, tasks, faults>>

\* The handler returns normally: the task of a failed batch is completed.
MarkFailed(r) ==
    /\ worker[r].pc = "catch"
    /\ batches' = [batches EXCEPT ![KeyOf(r)].status = "failed"]
    /\ worker' = [worker EXCEPT ![r].pc = "done"]
    /\ UNCHANGED <<money, world, creating, tasks, faults>>

-----------------------------------------------------------------------------
(* Failures *)

\* An await outside the transaction of a bet rejects; the session of the next
\* bet that cannot be started leaves the chunk with its progress unsaved.
ThrowError(r) ==
    /\ errors < MaxErrors
    /\ worker[r].pc \in {"load", "mark", "chunk", "bet", "save", "complete", "catch"}
    /\ worker' = [worker EXCEPT ![r].pc =
         IF @ \in {"load", "mark", "catch"} THEN "failed" ELSE "catch"]
    /\ errors' = errors + 1
    /\ UNCHANGED <<money, world, batches, creating, tasks, crashes>>

\* The process dies.
AbandonRun(r) ==
    /\ crashes < MaxCrashes
    /\ worker[r].pc # "idle"
    /\ worker' = [worker EXCEPT ![r] = IdleWorker]
    /\ crashes' = crashes + 1
    /\ UNCHANGED <<money, world, batches, creating, tasks, errors>>

-----------------------------------------------------------------------------
SessionStep ==
    \/ \E o \in Orders : PlaceOrder(o)
    \/ \E mode \in {"open", "close"} : DeclareResult(mode)
    \/ ReadPendingBets
    \/ \E winners \in SUBSET settling : SettleBets(winners)

AdminStep(k) ==
    \/ Preflight(k) \/ CreateBatch(k) \/ ScheduleBatch(k) \/ ScheduleFails(k)
    \/ CreateEnds(k) \/ Repost(k)

RunnerStep(r) ==
    \/ StartRun(r) \/ ClaimTask(r) \/ EndRun(r) \/ CompleteTask(r) \/ RetryOrFailTask(r)
    \/ LoadBatch(r) \/ MarkProcessing(r) \/ ReadChunk(r)
    \/ \E b \in Bets : RefundBet(r, b) \/ SkipBet(r, b)
    \/ SaveChunkProgress(r) \/ MarkCompleted(r) \/ MarkFailed(r)

Next ==
    \/ SessionStep
    \/ \E k \in Keys : AdminStep(k)
    \/ \E r \in Runners :
         \/ RunnerStep(r) \/ ThrowError(r) \/ AbandonRun(r)
         \/ \E b \in Bets : FailBet(r, b)

Spec == Init /\ [][Next]_vars

\* The scheduler ticks for ever, a started run goes on by itself, and so does
\* the request that has stored its batch.
FairSpec ==
    /\ Spec
    /\ \A r \in Runners : WF_vars(RunnerStep(r))
    /\ \A k \in Keys : WF_vars(ScheduleBatch(k))

-----------------------------------------------------------------------------
(* Money *)

\* The stake of a bet is given back at most once, and exactly when the bet is
\* removed, whatever batches, runs and retries process it.
RefundedOnce ==
    \A b \in Bets : refunds[b] = IF bets[b] = "deleted" THEN 1 ELSE 0

\* Exposure is the stakes of the pending bets: a revert and a settlement that
\* meet on a bet never both release it.
ExposureMatchesPending ==
    \A u \in Users : wallet[u].exposure = Total(OwnedBy(u, With("pending")))

\* What the debit of an order still charges for bets already given back: all of
\* them while it names another bet, none once it went with its last bet.
StillCharged(o) ==
    IF debits[o].bets = {} THEN 0 ELSE Total(BetsOf(o) \intersect With("deleted"))

\* The balance is what the transaction documents left explain, and they are off
\* by nothing but the stakes given back of orders that keep a debit.
LedgerExplainsBalance ==
    \A u \in Users :
      wallet[u].balance =
        Funds[u] - SumFunctionOnSet([o \in Orders |-> debits[o].amount - StillCharged(o)],
                                    {o \in Orders : Payer[o] = u})
          + SumFunctionOnSet(credits, OwnedBy(u, Bets))

-----------------------------------------------------------------------------
(* Batches *)

\* A completed batch leaves no bet it was created for pending, but those it
\* counts as failed: the cursor skips none, in whatever chunks, runs and
\* retries it advanced.
CompletedLeavesNone ==
    \A k \in Keys :
      batches[k].status = "completed" =>
        Cardinality(batches[k].eligible \intersect With("pending"))
          <= batches[k].counts.failed

\* A batch that was started ends.
BatchesEnd ==
    \A k \in Keys :
      batches[k].status \in {"pending", "processing"}
        ~> batches[k].status \in {"completed", "failed"}

-----------------------------------------------------------------------------
(* Statements the code refutes; the README tells how *)

\* The cursor of a batch passes no bet that is still to be refunded.
CursorPassesNone ==
    \A k \in Keys : \A b \in batches[k].eligible :
      b <= batches[k].cursor => bets[b] # "pending"

\* At rest, the counters of the completed batches add up to the refunds made.
CountersAddUp ==
    /\ \A k \in Keys : batches[k].status \in {"none", "completed"}
    /\ \A r \in Runners : worker[r].pc = "idle"
    => SumFunctionOnSet([k \in Keys |-> batches[k].counts.refunded], Keys)
         = Cardinality(With("deleted"))

\* A balance is what the transaction documents left explain.
DocumentsExplainBalance ==
    \A u \in Users :
      wallet[u].balance =
        Funds[u] - SumFunctionOnSet([o \in Orders |-> debits[o].amount],
                                    {o \in Orders : Payer[o] = u})
          + SumFunctionOnSet(credits, OwnedBy(u, Bets))

\* No two batches of a session are active at a time.
OneActiveBatch == Cardinality(Active) <= 1

\* A batch created after the result of a mode refunds no bet of that mode.
NoRefundAfterDeclaration ==
    [][\A b \in Bets :
         bets'[b] = "deleted" /\ bets[b] # "deleted" =>
           \E r \in Runners : /\ b \in worker[r].chunk
                              /\ Mode[b] \notin batches[KeyOf(r)].observed]_vars
=============================================================================

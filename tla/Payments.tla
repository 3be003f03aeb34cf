------------------------------ MODULE Payments ------------------------------
(***************************************************************************)
(* The deposits and withdrawals of one user against one wallet balance.    *)
(*                                                                         *)
(* A deposit is confirmed by the payment gateway's webhook, by the user's  *)
(* verify call or by the callback of the UPI app; each may come late, twice *)
(* or after another.  An admin approves, rejects and deletes.  What is read *)
(* outside a database transaction and written later is a request that waits *)
(* in between; a transaction is one step.                                  *)
(***************************************************************************)
EXTENDS Integers, FiniteSets, Functions

CONSTANTS
    Deposits,
    Provider,       \* "razorpay", "upi_intent" or "admin_manual", of a deposit
    DepositAmount,
    Payouts,        \* withdrawal requests: one for each idempotency key
    PayoutAmount,
    Funds,          \* the balance before
    MaxInFlight,    \* bound: requests between their read and their write
    MaxCredits,     \* bound: credits of one deposit
    MaxBets         \* bound: bets of amount 1 placed meanwhile

ASSUME PaymentsAssumption ==
    /\ IsFiniteSet(Deposits) /\ IsFiniteSet(Payouts)
    /\ Provider \in [Deposits -> {"razorpay", "upi_intent", "admin_manual"}]
    /\ DepositAmount \in [Deposits -> Nat \ {0}]
    /\ PayoutAmount \in [Payouts -> Nat \ {0}]
    /\ Funds \in Nat
    /\ {MaxInFlight, MaxCredits, MaxBets} \subseteq Nat

VARIABLES
    deposits,   \* the Payment documents: their status, "none" while there is none
    gateway,    \* what became of the payment attempts at the gateway, per order
    payouts,    \* the Payout documents: their status
    requests,   \* requests between their read and their write
    balance,    \* of the wallet
    ledger,     \* number of DEPOSITs and WITHDRAWAL_DEBITs, and of BET_DEBITs
    crossed     \* history: deposits whose reports crossed each other

vars == <<deposits, gateway, payouts, requests, balance, ledger, crossed>>

-----------------------------------------------------------------------------
\* The transaction that credits a deposit stores "processing" and then
\* "success"; only the second is seen from outside.
DepositStatuses == {"none", "pending", "success", "failed", "deleted"}

PayoutStatuses == {"none", "pending", "approved", "rejected", "deleted"}

Slots == 1..MaxInFlight

Request ==
    [op : {"fail", "credit"}, id : Deposits, slot : Slots]
      \union [op : {"reject"}, id : Payouts, slot : Slots]

TypeOK ==
    /\ deposits \in [Deposits -> DepositStatuses]
    /\ gateway \in [Deposits -> SUBSET {"failed", "captured"}]
    /\ payouts \in [Payouts -> PayoutStatuses]
    /\ requests \subseteq Request
    /\ balance \in Int
    /\ ledger \in [credits : [Deposits -> Nat], debits : [Payouts -> Nat], bets : Nat]
    /\ crossed \subseteq Deposits

Init ==
    /\ deposits = [d \in Deposits |-> "none"]
    /\ gateway = [d \in Deposits |-> {}]
    /\ payouts = [w \in Payouts |-> "none"]
    /\ requests = {}
    /\ balance = Funds
    /\ ledger = [credits |-> [d \in Deposits |-> 0],
                 debits  |-> [w \in Payouts |-> 0],
                 bets    |-> 0]
    /\ crossed = {}

DepositExists(d) == deposits[d] \notin {"none", "deleted"}

Receive(op, id) ==
    /\ \E slot \in Slots :
         /\ \A r \in requests : r.slot # slot
         /\ requests' = requests \union {[op |-> op, id |-> id, slot |-> slot]}
    /\ UNCHANGED <<deposits, gateway, payouts, balance, ledger>>

Answer(request) == requests' = requests \ {request}

RecordDeposit(d) == [ledger EXCEPT !.credits[d] = @ + 1]

\* creditBalance and recordDeposit, in one transaction with the status.
Credit(d) ==
    /\ ledger.credits[d] < MaxCredits
    /\ balance' = balance + DepositAmount[d]
    /\ ledger' = RecordDeposit(d)
    /\ deposits' = [deposits EXCEPT ![d] = "success"]

-----------------------------------------------------------------------------
(* Deposits *)

\* createDepositOrder, initiateUpiDeposit
InitiateDeposit(d) ==
    /\ deposits[d] = "none"
    /\ Provider[d] # "admin_manual"
    /\ deposits' = [deposits EXCEPT ![d] = "pending"]
    /\ UNCHANGED <<gateway, payouts, requests, balance, ledger, crossed>>

CreateAdminDeposit(d) ==
    /\ deposits[d] = "none"
    /\ Provider[d] = "admin_manual"
    /\ Credit(d)
    /\ UNCHANGED <<gateway, payouts, requests, crossed>>

\* At the gateway: attempts to pay an order fail until one is captured.
AttemptEnds(d, outcome) ==
    /\ Provider[d] = "razorpay"
    /\ deposits[d] # "none"
    /\ "captured" \notin gateway[d]
    /\ gateway' = [gateway EXCEPT ![d] = @ \union {outcome}]
    /\ UNCHANGED <<deposits, payouts, requests, balance, ledger, crossed>>

\* finalizeCapturedPayment: from the payment.captured webhook or the verify
\* call, which both ask the gateway whether the payment is captured.
CreditAgain(d) == deposits[d] \in {"pending", "failed", "success"}  \* Mutant
CreditPending(d) == deposits[d] = "pending"                        \* Mutant
CanFinalize(d) == deposits[d] \in {"pending", "failed"}

FinalizeCapturedPayment(d) ==
    /\ "captured" \in gateway[d]
    /\ CanFinalize(d)
    /\ Credit(d)
    /\ UNCHANGED <<gateway, payouts, requests, crossed>>

\* The payment.failed webhook looks at no status.
ReceiveFailure(d) ==
    /\ "failed" \in gateway[d]
    /\ DepositExists(d)
    /\ Receive("fail", d)
    /\ UNCHANGED crossed

\* submitUpiCallback: a deposit that was credited when it was read is replayed.
\* Nothing keeps a second callback from being read before the first is written.
BeingReported(d) == \E r \in requests : r.op \in {"fail", "credit"} /\ r.id = d

ReceiveCallback(d, op) ==
    /\ Provider[d] = "upi_intent"
    /\ DepositExists(d)
    /\ deposits[d] # "success" /\ ledger.credits[d] = 0
    /\ Receive(op, d)
    /\ crossed' = IF BeingReported(d) THEN crossed \union {d} ELSE crossed

\* Neither the webhook nor the callback looks whether the deposit was credited
\* since: the status is written over a credit.
MarkFailed(request) ==
    LET d == request.id
    IN  /\ request.op = "fail"
        /\ Answer(request)
        /\ DepositExists(d)
        /\ deposits' = [deposits EXCEPT ![d] = "failed"]
        /\ crossed' = IF ledger.credits[d] > 0 THEN crossed \union {d} ELSE crossed
        /\ UNCHANGED <<gateway, payouts, balance, ledger>>

CreditUpiDeposit(request) ==
    /\ request.op = "credit"
    /\ Answer(request)
    /\ DepositExists(request.id)
    /\ Credit(request.id)
    /\ UNCHANGED <<gateway, payouts, crossed>>

\* Deleted meanwhile, or the write fails: the request ends without effect.
RequestFails(request) ==
    /\ Answer(request)
    /\ UNCHANGED <<deposits, gateway, payouts, balance, ledger, crossed>>

\* An admin may delete a deposit in any status; its DEPOSIT entry stays.
DeleteDeposit(d) ==
    /\ DepositExists(d)
    /\ deposits' = [deposits EXCEPT ![d] = "deleted"]
    /\ UNCHANGED <<gateway, payouts, requests, balance, ledger, crossed>>

-----------------------------------------------------------------------------
(* Withdrawals *)

\* requestWithdrawal looks at the balance and reserves nothing.
RequestWithdrawal(w) ==
    /\ payouts[w] = "none"
    /\ balance >= PayoutAmount[w]
    /\ payouts' = [payouts EXCEPT ![w] = "pending"]
    /\ UNCHANGED <<deposits, gateway, requests, balance, ledger, crossed>>

\* debitBalance: the update finds a wallet with enough balance only.
CoveredWhenRequested(w) == TRUE                                 \* Mutant
CanDebit(w) == balance >= PayoutAmount[w]

ApproveAgain(w) == payouts[w] \in {"pending", "approved"}        \* Mutant
CanApprove(w) == payouts[w] = "pending"

DebitOnly(w) == ledger                                          \* Mutant
RecordWithdrawalDebit(w) == [ledger EXCEPT !.debits[w] = @ + 1]

ApproveWithdrawal(w) ==
    /\ CanApprove(w)
    /\ CanDebit(w)
    /\ balance' = balance - PayoutAmount[w]
    /\ ledger' = RecordWithdrawalDebit(w)
    /\ payouts' = [payouts EXCEPT ![w] = "approved"]
    /\ UNCHANGED <<deposits, gateway, requests, crossed>>

\* rejectWithdrawal reads the payout, checks it and saves it, in no transaction.
ReceiveRejection(w) ==
    /\ payouts[w] = "pending"
    /\ Receive("reject", w)
    /\ UNCHANGED crossed

RejectWithdrawal(request) ==
    /\ request.op = "reject"
    /\ Answer(request)
    /\ payouts[request.id] # "deleted"
    /\ payouts' = [payouts EXCEPT ![request.id] = "rejected"]
    /\ UNCHANGED <<deposits, gateway, balance, ledger, crossed>>

DeleteWithdrawal(w) ==
    /\ payouts[w] \notin {"none", "deleted"}
    /\ payouts' = [payouts EXCEPT ![w] = "deleted"]
    /\ UNCHANGED <<deposits, gateway, requests, balance, ledger, crossed>>

\* placeBetDebit, the other way money leaves the balance (module Settlement).
PlaceBet ==
    /\ ledger.bets < MaxBets
    /\ balance >= 1
    /\ balance' = balance - 1
    /\ ledger' = [ledger EXCEPT !.bets = @ + 1]
    /\ UNCHANGED <<deposits, gateway, payouts, requests, crossed>>

-----------------------------------------------------------------------------
DepositStep(d) ==
    \/ InitiateDeposit(d) \/ CreateAdminDeposit(d)
    \/ \E outcome \in {"failed", "captured"} : AttemptEnds(d, outcome)
    \/ FinalizeCapturedPayment(d) \/ ReceiveFailure(d)
    \/ \E op \in {"fail", "credit"} : ReceiveCallback(d, op)
    \/ DeleteDeposit(d)

PayoutStep(w) ==
    \/ RequestWithdrawal(w) \/ ApproveWithdrawal(w)
    \/ ReceiveRejection(w) \/ DeleteWithdrawal(w)

RequestStep(request) ==
    \/ MarkFailed(request) \/ CreditUpiDeposit(request) \/ RejectWithdrawal(request)
    \/ RequestFails(request)

Next ==
    \/ \E d \in Deposits : DepositStep(d)
    \/ \E w \in Payouts : PayoutStep(w)
    \/ \E request \in requests : RequestStep(request)
    \/ PlaceBet

Spec == Init /\ [][Next]_vars

\* The gateway delivers payment.captured until it is answered.
FairSpec == Spec /\ \A d \in Deposits : WF_vars(FinalizeCapturedPayment(d))

-----------------------------------------------------------------------------
(* What is shown of the payments *)

\* Deposits and withdrawals by their documents: deleted ones are not listed.
DepositsOf(status) == {d \in Deposits : DepositExists(d) /\ deposits[d] = status}

DepositReport ==
    LET total(S) == SumFunctionOnSet(DepositAmount, S)
    IN  [statusBreakdown |-> [s \in DepositStatuses |-> Cardinality(DepositsOf(s))],
         requested |-> total({d \in Deposits : DepositExists(d)}),
         credited  |-> total(DepositsOf("success"))]

WithdrawalsForAdmin(status) == {w \in Payouts : payouts[w] = status /\ status # "deleted"}

\* ... and by their transactions, which stay when a document is deleted.
DepositHistory == [d \in Deposits |-> ledger.credits[d] * DepositAmount[d]]

TransactionLogs ==
    [deposits    |-> SumFunctionOnSet(DepositHistory, Deposits),
     withdrawals |-> SumFunctionOnSet([w \in Payouts |-> ledger.debits[w] * PayoutAmount[w]],
                                      Payouts)]

-----------------------------------------------------------------------------
\* Several withdrawals may be pending against the same money, and bets are
\* placed between a request and its approval: the balance never goes below zero.
NeverOverdrawn == balance >= 0

\* Whatever is delivered, raced, retried or deleted, the balance is what the
\* ledger entries of the wallet add up to.
LedgerExplainsBalance ==
    balance = Funds + TransactionLogs.deposits - TransactionLogs.withdrawals - ledger.bets

\* A withdrawal is paid out at most once, and never before its approval, even
\* if a rejection or a deletion that started earlier is written after it.
PaidOutOnce ==
    \A w \in Payouts :
      /\ ledger.debits[w] <= 1
      /\ payouts[w] \in {"none", "pending"} => ledger.debits[w] = 0
      /\ w \in WithdrawalsForAdmin("approved") => ledger.debits[w] = 1

\* A deposit is credited once, however often webhook, verify call and callback
\* report it.  (Refuted: by a failed attempt delivered after the capture, and by
\* a second callback read before the first one is written.)
CreditedOnce == \A d \in Deposits : ledger.credits[d] <= 1

\* Nothing else credits a deposit twice: unless a failure was written over its
\* credit or two callbacks of it overlapped, it is credited once, whatever is
\* repeated, reordered or deleted, and one that shows success was credited.
\* Without such deposits the report of the administration differs from the
\* history of the user by the deleted deposits only.
CreditedOnceUncrossed ==
    /\ \A d \in Deposits \ crossed :
         /\ ledger.credits[d] <= 1
         /\ deposits[d] = "success" => ledger.credits[d] = 1
    /\ crossed = {} =>
         TransactionLogs.deposits = DepositReport.credited
           + SumFunctionOnSet(DepositHistory, {d \in Deposits : deposits[d] = "deleted"})

\* A payment captured at the gateway reaches the wallet, also when an earlier
\* attempt on the same order had marked the deposit failed.
CapturedIsCredited ==
    \A d \in Deposits :
      "captured" \in gateway[d] ~> ledger.credits[d] > 0 \/ deposits[d] = "deleted"

\* A withdrawal that was paid out is never shown as rejected.
PaidIsNotRejected ==
    \A w \in Payouts : payouts[w] = "rejected" => ledger.debits[w] = 0
=============================================================================

--------------------------- MODULE PaymentsProofs ---------------------------
(***************************************************************************)
(* Type correctness of Payments, that its balance is never overdrawn and   *)
(* is what its ledger adds up to, that no withdrawal is paid twice and no  *)
(* deposit credited twice but for the two orders of reports that do it:    *)
(* for any number of deposits and withdrawals, and of requests in flight.  *)
(***************************************************************************)
EXTENDS Payments, SumLemmas

\* The invariants hold together: that a withdrawal was not debited before its
\* approval is what keeps the debit of the approval the only one.
PaymentsInv == TypeOK /\ NeverOverdrawn /\ PaidOutOnce

LEMMA InitEstablishes == Init => PaymentsInv
<1> SUFFICES ASSUME Init PROVE PaymentsInv
    OBVIOUS
<1> USE PaymentsAssumption DEF Init
<1>1. TypeOK
    BY DEF TypeOK, DepositStatuses, PayoutStatuses
<1>2. NeverOverdrawn
    BY DEF NeverOverdrawn
<1>3. PaidOutOnce
    BY DEF PaidOutOnce, WithdrawalsForAdmin
<1> QED BY <1>1, <1>2, <1>3 DEF PaymentsInv

\* Crediting a deposit, from whatever route, keeps the invariants.
LEMMA CreditPreserves ==
    ASSUME PaymentsInv, NEW d \in Deposits, Credit(d),
           UNCHANGED <<gateway, payouts, crossed>>, requests' \subseteq requests
    PROVE  PaymentsInv'
<1> USE DEF PaymentsInv, Credit, RecordDeposit
<1>0. DepositAmount[d] \in Nat
    BY PaymentsAssumption
<1>1. TypeOK'
    BY <1>0 DEF TypeOK, DepositStatuses
<1>2. NeverOverdrawn'
    BY <1>0 DEF NeverOverdrawn, TypeOK
<1>3. PaidOutOnce'
    BY DEF PaidOutOnce, WithdrawalsForAdmin, TypeOK
<1> QED BY <1>1, <1>2, <1>3

\* A step that moves no money and leaves the withdrawals alone keeps them too.
LEMMA MoneylessPreserves ==
    ASSUME PaymentsInv, TypeOK', UNCHANGED <<payouts, balance, ledger>>
    PROVE  PaymentsInv'
BY DEF PaymentsInv, NeverOverdrawn, PaidOutOnce, WithdrawalsForAdmin

\* A request that is received is one of the declared ones.
LEMMA ReportIsRequest ==
    ASSUME TypeOK, crossed' \subseteq Deposits, NEW op \in {"fail", "credit"},
           NEW d \in Deposits, Receive(op, d)
    PROVE  TypeOK'
<1> PICK slot \in Slots : requests' = requests \union {[op |-> op, id |-> d, slot |-> slot]}
    BY DEF Receive
<1>1. [op |-> op, id |-> d, slot |-> slot] \in Request
    BY DEF Request
<1> QED BY <1>1 DEF TypeOK, Receive

LEMMA RejectionIsRequest ==
    ASSUME TypeOK, crossed' = crossed, NEW w \in Payouts, Receive("reject", w)
    PROVE  TypeOK'
<1> PICK slot \in Slots : requests' = requests \union {[op |-> "reject", id |-> w, slot |-> slot]}
    BY DEF Receive
<1>1. [op |-> "reject", id |-> w, slot |-> slot] \in Request
    BY DEF Request
<1> QED BY <1>1 DEF TypeOK, Receive

LEMMA DepositStepPreserves ==
    ASSUME PaymentsInv, NEW d \in Deposits, DepositStep(d)
    PROVE  PaymentsInv'
<1> USE PaymentsAssumption DEF DepositStatuses
<1>0. TypeOK
    BY DEF PaymentsInv
<1>1. CASE InitiateDeposit(d)
    <2>1. TypeOK'
        BY <1>0, <1>1 DEF TypeOK, InitiateDeposit
    <2> QED BY <1>1, <2>1, MoneylessPreserves DEF InitiateDeposit
<1>2. CASE CreateAdminDeposit(d)
    BY <1>2, CreditPreserves DEF CreateAdminDeposit
<1>3. CASE \E outcome \in {"failed", "captured"} : AttemptEnds(d, outcome)
    <2> PICK outcome \in {"failed", "captured"} : AttemptEnds(d, outcome)
        BY <1>3
    <2>1. TypeOK'
        BY <1>0 DEF TypeOK, AttemptEnds
    <2> QED BY <2>1, MoneylessPreserves DEF AttemptEnds
<1>4. CASE FinalizeCapturedPayment(d)
    BY <1>4, CreditPreserves DEF FinalizeCapturedPayment
<1>5. CASE ReceiveFailure(d)
    <2>1. Receive("fail", d) /\ crossed' \subseteq Deposits
        BY <1>0, <1>5 DEF ReceiveFailure, TypeOK
    <2>2. TypeOK'
        BY <1>0, <2>1, ReportIsRequest
    <2> QED BY <2>1, <2>2, MoneylessPreserves DEF Receive
<1>6. CASE \E op \in {"fail", "credit"} : ReceiveCallback(d, op)
    <2> PICK op \in {"fail", "credit"} : ReceiveCallback(d, op)
        BY <1>6
    <2>1. Receive(op, d) /\ crossed' \subseteq Deposits
        BY <1>0 DEF ReceiveCallback, TypeOK
    <2>2. TypeOK'
        BY <1>0, <2>1, ReportIsRequest
    <2> QED BY <2>1, <2>2, MoneylessPreserves DEF Receive
<1>7. CASE DeleteDeposit(d)
    <2>1. TypeOK'
        BY <1>0, <1>7 DEF TypeOK, DeleteDeposit
    <2> QED BY <1>7, <2>1, MoneylessPreserves DEF DeleteDeposit
<1> QED BY <1>1, <1>2, <1>3, <1>4, <1>5, <1>6, <1>7 DEF DepositStep

\* Only the approval takes money, and it needs a pending withdrawal, which has
\* no debit yet, and a balance that covers it.
LEMMA PayoutStepPreserves ==
    ASSUME PaymentsInv, NEW w \in Payouts, PayoutStep(w)
    PROVE  PaymentsInv'
<1> USE PaymentsAssumption DEF PayoutStatuses, PaymentsInv
<1>1. CASE RequestWithdrawal(w)
    BY <1>1 DEF RequestWithdrawal, TypeOK, NeverOverdrawn, PaidOutOnce, WithdrawalsForAdmin
<1>2. CASE ApproveWithdrawal(w)
    <2> USE <1>2 DEF ApproveWithdrawal, CanApprove, CanDebit, RecordWithdrawalDebit
    <2>1. TypeOK'
        BY DEF TypeOK
    <2>2. NeverOverdrawn'
        BY DEF TypeOK, NeverOverdrawn
    <2>3. ledger.debits[w] = 0
        BY DEF PaidOutOnce, WithdrawalsForAdmin
    <2>4. PaidOutOnce'
        BY <2>3 DEF TypeOK, PaidOutOnce, WithdrawalsForAdmin
    <2> QED BY <2>1, <2>2, <2>4
<1>3. CASE ReceiveRejection(w)
    <2>1. TypeOK'
        BY <1>3, RejectionIsRequest DEF ReceiveRejection
    <2> QED BY <1>3, <2>1, MoneylessPreserves DEF ReceiveRejection, Receive
<1>4. CASE DeleteWithdrawal(w)
    BY <1>4 DEF DeleteWithdrawal, TypeOK, NeverOverdrawn, PaidOutOnce, WithdrawalsForAdmin
<1> QED BY <1>1, <1>2, <1>3, <1>4 DEF PayoutStep

LEMMA RequestStepPreserves ==
    ASSUME PaymentsInv, NEW r \in requests, RequestStep(r)
    PROVE  PaymentsInv'
<1> USE PaymentsAssumption DEF PayoutStatuses, DepositStatuses, Answer
<1>0. TypeOK /\ r \in Request
    BY DEF PaymentsInv, TypeOK
<1>1. CASE MarkFailed(r)
    <2>1. TypeOK'
        BY <1>0, <1>1 DEF TypeOK, MarkFailed, Request
    <2> QED BY <1>1, <2>1, MoneylessPreserves DEF MarkFailed
<1>2. CASE CreditUpiDeposit(r)
    <2>1. r.id \in Deposits
        BY <1>0, <1>2 DEF CreditUpiDeposit, Request
    <2> QED BY <1>2, <2>1, CreditPreserves DEF CreditUpiDeposit
<1>3. CASE RejectWithdrawal(r)
    <2>1. r.id \in Payouts
        BY <1>0, <1>3 DEF RejectWithdrawal, Request
    <2> QED BY <1>3, <2>1 DEF RejectWithdrawal, PaymentsInv, TypeOK, NeverOverdrawn,
                              PaidOutOnce, WithdrawalsForAdmin
<1>4. CASE RequestFails(r)
    BY <1>4 DEF RequestFails, PaymentsInv, TypeOK, NeverOverdrawn, PaidOutOnce, WithdrawalsForAdmin
<1> QED BY <1>1, <1>2, <1>3, <1>4 DEF RequestStep

LEMMA StepPreserves == PaymentsInv /\ [Next]_vars => PaymentsInv'
<1> SUFFICES ASSUME PaymentsInv, [Next]_vars PROVE PaymentsInv'
    OBVIOUS
<1> USE PaymentsAssumption
<1>1. CASE \E d \in Deposits : DepositStep(d)
    BY <1>1, DepositStepPreserves
<1>2. CASE \E w \in Payouts : PayoutStep(w)
    BY <1>2, PayoutStepPreserves
<1>3. CASE \E request \in requests : RequestStep(request)
    BY <1>3, RequestStepPreserves
<1>4. CASE PlaceBet
    BY <1>4 DEF PlaceBet, PaymentsInv, TypeOK, NeverOverdrawn, PaidOutOnce, WithdrawalsForAdmin
<1>5. CASE UNCHANGED vars
    BY <1>5 DEF vars, PaymentsInv, TypeOK, NeverOverdrawn, PaidOutOnce, WithdrawalsForAdmin
<1> QED BY <1>1, <1>2, <1>3, <1>4, <1>5 DEF Next

LEMMA PaymentsInvariant == Spec => []PaymentsInv
<1> QED BY InitEstablishes, StepPreserves, PTL DEF Spec

\* Every reachable state of the payments has the declared types.
THEOREM PaymentsTypeCorrect == Spec => []TypeOK
BY PaymentsInvariant, PTL DEF PaymentsInv

\* The balance never goes below zero (debitBalance, placeBetDebit).
THEOREM BalanceNeverOverdrawn == Spec => []NeverOverdrawn
BY PaymentsInvariant, PTL DEF PaymentsInv

\* approveWithdrawal takes the money of a withdrawal at most once, and no other
\* operation does, however rejections and deletions race with it.
THEOREM WithdrawalsPaidOutOnce == Spec => []PaidOutOnce
BY PaymentsInvariant, PTL DEF PaymentsInv

-----------------------------------------------------------------------------
(* The balance and the ledger *)

Ledgers == [credits : [Deposits -> Nat], debits : [Payouts -> Nat], bets : Nat]
CreditsOf(l) == [d \in Deposits |-> l.credits[d] * DepositAmount[d]]
DebitsOf(l) == [w \in Payouts |-> l.debits[w] * PayoutAmount[w]]
Deposited(l) == SumFunctionOnSet(CreditsOf(l), Deposits)
Withdrawn(l) == SumFunctionOnSet(DebitsOf(l), Payouts)

LedgerInv == PaymentsInv /\ LedgerExplainsBalance

LEMMA BalanceAsSums ==
    LedgerExplainsBalance
      <=> balance = Funds + Deposited(ledger) - Withdrawn(ledger) - ledger.bets
BY DEF LedgerExplainsBalance, TransactionLogs, DepositHistory, Deposited, Withdrawn,
       CreditsOf, DebitsOf

LEMMA SumsAreIntegers ==
    ASSUME NEW l \in Ledgers
    PROVE  /\ Summable(CreditsOf(l), Deposits) /\ Summable(DebitsOf(l), Payouts)
           /\ Deposited(l) \in Int /\ Withdrawn(l) \in Int
<1>1. ASSUME NEW d \in Deposits PROVE CreditsOf(l)[d] \in Int
    <2>1. l.credits[d] \in Nat /\ DepositAmount[d] \in Nat
        BY PaymentsAssumption DEF Ledgers
    <2> QED BY <2>1 DEF CreditsOf
<1>2. ASSUME NEW w \in Payouts PROVE DebitsOf(l)[w] \in Int
    <2>1. l.debits[w] \in Nat /\ PayoutAmount[w] \in Nat
        BY PaymentsAssumption DEF Ledgers
    <2> QED BY <2>1 DEF DebitsOf
<1>3. Summable(CreditsOf(l), Deposits) /\ Summable(DebitsOf(l), Payouts)
    BY <1>1, <1>2, PaymentsAssumption DEF Summable
<1> QED BY <1>3, SumType DEF Deposited, Withdrawn

LEMMA EntryOfCredit ==
    ASSUME NEW l \in Ledgers, NEW m \in Ledgers, NEW d \in Deposits,
           m.credits = [l.credits EXCEPT ![d] = @ + 1]
    PROVE  Deposited(m) = Deposited(l) + DepositAmount[d]
<1> PICK before, after : before = CreditsOf(l) /\ after = CreditsOf(m)
    OBVIOUS
<1>1. Summable(before, Deposits) /\ Summable(after, Deposits) /\ Deposited(l) \in Int
    BY SumsAreIntegers
<1>2. l.credits[d] \in Nat /\ m.credits[d] = l.credits[d] + 1 /\ DepositAmount[d] \in Nat
    BY PaymentsAssumption DEF Ledgers
<1>3. after[d] = before[d] + DepositAmount[d] /\ before[d] \in Int
    <2>1. (l.credits[d] + 1) * DepositAmount[d] = l.credits[d] * DepositAmount[d] + DepositAmount[d]
        BY <1>2
    <2> QED BY <1>2, <2>1 DEF CreditsOf
<1>4. AgreeBut(before, after, Deposits, d)
    BY DEF CreditsOf, Ledgers, AgreeBut
<1>5. SumFunctionOnSet(after, Deposits)
        = SumFunctionOnSet(before, Deposits) - before[d] + after[d]
    BY <1>1, <1>4, SumChange
<1> QED BY <1>1, <1>2, <1>3, <1>5 DEF Deposited

LEMMA EntryOfDebit ==
    ASSUME NEW l \in Ledgers, NEW m \in Ledgers, NEW w \in Payouts,
           m.debits = [l.debits EXCEPT ![w] = @ + 1]
    PROVE  Withdrawn(m) = Withdrawn(l) + PayoutAmount[w]
<1> PICK before, after : before = DebitsOf(l) /\ after = DebitsOf(m)
    OBVIOUS
<1>1. Summable(before, Payouts) /\ Summable(after, Payouts) /\ Withdrawn(l) \in Int
    BY SumsAreIntegers
<1>2. l.debits[w] \in Nat /\ m.debits[w] = l.debits[w] + 1 /\ PayoutAmount[w] \in Nat
    BY PaymentsAssumption DEF Ledgers
<1>3. after[w] = before[w] + PayoutAmount[w] /\ before[w] \in Int
    <2>1. (l.debits[w] + 1) * PayoutAmount[w] = l.debits[w] * PayoutAmount[w] + PayoutAmount[w]
        BY <1>2
    <2> QED BY <1>2, <2>1 DEF DebitsOf
<1>4. AgreeBut(before, after, Payouts, w)
    BY DEF DebitsOf, Ledgers, AgreeBut
<1>5. SumFunctionOnSet(after, Payouts)
        = SumFunctionOnSet(before, Payouts) - before[w] + after[w]
    BY <1>1, <1>4, SumChange
<1> QED BY <1>1, <1>2, <1>3, <1>5 DEF Withdrawn

LEMMA CreditIsExplained ==
    ASSUME LedgerInv, TypeOK', NEW d \in Deposits, Credit(d)
    PROVE  LedgerExplainsBalance'
<1>1. TypeOK /\ LedgerExplainsBalance
    BY DEF LedgerInv, PaymentsInv
<1>2. ledger \in Ledgers /\ ledger' \in Ledgers
    BY <1>1 DEF TypeOK, Ledgers
<1>3. /\ ledger'.credits = [ledger.credits EXCEPT ![d] = @ + 1]
      /\ ledger'.debits = ledger.debits /\ ledger'.bets = ledger.bets
      /\ balance' = balance + DepositAmount[d]
    BY <1>2 DEF Credit, RecordDeposit, Ledgers
<1>4. Deposited(ledger') = Deposited(ledger) + DepositAmount[d]
    BY <1>2, <1>3, EntryOfCredit
<1>5. Withdrawn(ledger') = Withdrawn(ledger)
    BY <1>3 DEF Withdrawn, DebitsOf
<1>6. /\ balance \in Int /\ ledger.bets \in Int /\ DepositAmount[d] \in Int /\ Funds \in Int
      /\ Deposited(ledger) \in Int /\ Withdrawn(ledger) \in Int
    BY <1>1, <1>2, PaymentsAssumption, SumsAreIntegers DEF TypeOK
<1>7. balance' = Funds + Deposited(ledger') - Withdrawn(ledger') - ledger'.bets
    BY <1>1, <1>3, <1>4, <1>5, <1>6, BalanceAsSums
<1> QED BY <1>7 DEF LedgerExplainsBalance, TransactionLogs, DepositHistory, Deposited, Withdrawn,
                    CreditsOf, DebitsOf

LEMMA ApprovalIsExplained ==
    ASSUME LedgerInv, TypeOK', NEW w \in Payouts, ApproveWithdrawal(w)
    PROVE  LedgerExplainsBalance'
<1>1. TypeOK /\ LedgerExplainsBalance
    BY DEF LedgerInv, PaymentsInv
<1>2. ledger \in Ledgers /\ ledger' \in Ledgers
    BY <1>1 DEF TypeOK, Ledgers
<1>3. /\ ledger'.debits = [ledger.debits EXCEPT ![w] = @ + 1]
      /\ ledger'.credits = ledger.credits /\ ledger'.bets = ledger.bets
      /\ balance' = balance - PayoutAmount[w]
    BY <1>2 DEF ApproveWithdrawal, RecordWithdrawalDebit, Ledgers
<1>4. Withdrawn(ledger') = Withdrawn(ledger) + PayoutAmount[w]
    BY <1>2, <1>3, EntryOfDebit
<1>5. Deposited(ledger') = Deposited(ledger)
    BY <1>3 DEF Deposited, CreditsOf
<1>6. /\ balance \in Int /\ ledger.bets \in Int /\ PayoutAmount[w] \in Int /\ Funds \in Int
      /\ Deposited(ledger) \in Int /\ Withdrawn(ledger) \in Int
    BY <1>1, <1>2, PaymentsAssumption, SumsAreIntegers DEF TypeOK
<1>7. balance' = Funds + Deposited(ledger') - Withdrawn(ledger') - ledger'.bets
    BY <1>1, <1>3, <1>4, <1>5, <1>6, BalanceAsSums
<1> QED BY <1>7 DEF LedgerExplainsBalance, TransactionLogs, DepositHistory, Deposited, Withdrawn,
                    CreditsOf, DebitsOf

LEMMA BetIsExplained ==
    ASSUME LedgerInv, TypeOK', PlaceBet PROVE LedgerExplainsBalance'
<1>1. TypeOK /\ LedgerExplainsBalance
    BY DEF LedgerInv, PaymentsInv
<1>2. ledger \in Ledgers
    BY <1>1 DEF TypeOK, Ledgers
<1>3. /\ ledger'.bets = ledger.bets + 1
      /\ ledger'.credits = ledger.credits /\ ledger'.debits = ledger.debits
      /\ balance' = balance - 1
    BY <1>2 DEF PlaceBet, Ledgers
<1>4. Deposited(ledger') = Deposited(ledger) /\ Withdrawn(ledger') = Withdrawn(ledger)
    BY <1>3 DEF Deposited, Withdrawn, CreditsOf, DebitsOf
<1>5. /\ balance \in Int /\ ledger.bets \in Int /\ Funds \in Int
      /\ Deposited(ledger) \in Int /\ Withdrawn(ledger) \in Int
    BY <1>1, <1>2, PaymentsAssumption, SumsAreIntegers DEF TypeOK
<1>6. balance' = Funds + Deposited(ledger') - Withdrawn(ledger') - ledger'.bets
    BY <1>1, <1>3, <1>4, <1>5, BalanceAsSums
<1> QED BY <1>6 DEF LedgerExplainsBalance, TransactionLogs, DepositHistory, Deposited, Withdrawn,
                    CreditsOf, DebitsOf

LEMMA QuietIsExplained ==
    ASSUME LedgerExplainsBalance, UNCHANGED <<balance, ledger>> PROVE LedgerExplainsBalance'
BY DEF LedgerExplainsBalance, TransactionLogs, DepositHistory

\* Money moves in four actions; all the others leave balance and ledger alone.
LEMMA MoneyMoves ==
    ASSUME TypeOK, [Next]_vars
    PROVE  \/ \E d \in Deposits : Credit(d)
           \/ \E w \in Payouts : ApproveWithdrawal(w)
           \/ PlaceBet
           \/ UNCHANGED <<balance, ledger>>
<1>1. ASSUME NEW d \in Deposits, DepositStep(d)
      PROVE  Credit(d) \/ UNCHANGED <<balance, ledger>>
    BY <1>1 DEF DepositStep, InitiateDeposit, CreateAdminDeposit, AttemptEnds,
                FinalizeCapturedPayment, ReceiveFailure, ReceiveCallback, Receive,
                DeleteDeposit
<1>2. ASSUME NEW w \in Payouts, PayoutStep(w)
      PROVE  ApproveWithdrawal(w) \/ UNCHANGED <<balance, ledger>>
    BY <1>2 DEF PayoutStep, RequestWithdrawal, ReceiveRejection, Receive, DeleteWithdrawal
<1>3. ASSUME NEW r \in requests, RequestStep(r)
      PROVE  (\E d \in Deposits : Credit(d)) \/ UNCHANGED <<balance, ledger>>
    <2>1. CreditUpiDeposit(r) => r.id \in Deposits
        BY DEF CreditUpiDeposit, TypeOK, Request
    <2> QED BY <1>3, <2>1 DEF RequestStep, MarkFailed, CreditUpiDeposit, RejectWithdrawal,
                              RequestFails
<1> QED BY <1>1, <1>2, <1>3 DEF Next, vars

\* Whatever is delivered, raced, retried or deleted, the balance is what the
\* entries of the ledger add up to: each transaction that moves money writes the
\* entry that says so, for any number of deposits and withdrawals.
THEOREM BalanceIsExplained == Spec => []LedgerExplainsBalance
<1>1. Init => LedgerInv
    <2> SUFFICES ASSUME Init PROVE LedgerInv
        OBVIOUS
    <2>1. PaymentsInv
        BY InitEstablishes
    <2>2. /\ \A d \in Deposits : CreditsOf(ledger)[d] = 0
          /\ \A w \in Payouts : DebitsOf(ledger)[w] = 0
        BY PaymentsAssumption DEF Init, CreditsOf, DebitsOf
    <2>3. Deposited(ledger) = 0 /\ Withdrawn(ledger) = 0
        BY <2>2, SumZero, PaymentsAssumption DEF Deposited, Withdrawn
    <2>4. balance = Funds /\ ledger.bets = 0 /\ Funds \in Int
        BY PaymentsAssumption DEF Init
    <2> QED BY <2>1, <2>3, <2>4, BalanceAsSums DEF LedgerInv
<1>2. LedgerInv /\ [Next]_vars => LedgerInv'
    <2> SUFFICES ASSUME LedgerInv, [Next]_vars PROVE LedgerInv'
        OBVIOUS
    <2>1. PaymentsInv' /\ TypeOK'
        BY StepPreserves DEF LedgerInv, PaymentsInv
    <2>2. LedgerExplainsBalance'
        <3>1. TypeOK
            BY DEF LedgerInv, PaymentsInv
        <3> QED BY <2>1, <3>1, MoneyMoves, CreditIsExplained, ApprovalIsExplained,
                   BetIsExplained, QuietIsExplained DEF LedgerInv
    <2> QED BY <2>1, <2>2 DEF LedgerInv
<1> QED BY <1>1, <1>2, PTL DEF Spec, LedgerInv

-----------------------------------------------------------------------------
(* Deposits are credited once *)

IsReport(r) == r.op \in {"fail", "credit"}

\* A callback that will credit was read before any credit, and as long as its
\* deposit is not crossed it is the only report of that deposit.
ReportOK(r) ==
    IsReport(r) /\ r.id \notin crossed =>
      /\ r.op = "credit" => Provider[r.id] = "upi_intent" /\ ledger.credits[r.id] = 0
      /\ Provider[r.id] = "upi_intent" =>
           \A q \in requests : IsReport(q) /\ q.id = r.id => q = r

DepositOK(d) ==
    /\ gateway[d] # {} => Provider[d] = "razorpay"
    /\ d \notin crossed =>
         /\ ledger.credits[d] <= 1
         /\ deposits[d] = "success" => ledger.credits[d] = 1
         /\ deposits[d] \in {"none", "pending", "failed"} => ledger.credits[d] = 0

CreditsInv ==
    /\ TypeOK
    /\ \A r \in requests : ReportOK(r)
    /\ \A d \in Deposits : DepositOK(d)

\* Fewer requests are about a deposit, and no other deposit becomes orderly.
LEMMA ReportStaysOK ==
    ASSUME NEW r \in requests, ReportOK(r), requests' \subseteq requests, crossed \subseteq crossed',
           r.op = "credit" /\ r.id \notin crossed' => ledger'.credits[r.id] = ledger.credits[r.id]
    PROVE  ReportOK(r)'
BY DEF ReportOK, IsReport

LEMMA CreditingKeepsCredits ==
    ASSUME CreditsInv, TypeOK', NEW d \in Deposits, Credit(d), UNCHANGED <<gateway, crossed>>,
           d \notin crossed => ledger.credits[d] = 0, requests' \subseteq requests,
           d \notin crossed => \A r \in requests' : r.op = "credit" => r.id # d
    PROVE  CreditsInv'
<1> USE DEF CreditsInv, TypeOK
<1>1. /\ deposits' = [deposits EXCEPT ![d] = "success"]
      /\ ledger'.credits = [ledger.credits EXCEPT ![d] = @ + 1]
    BY DEF Credit, RecordDeposit
<1>2. ASSUME NEW x \in Deposits PROVE DepositOK(x)'
    <2>1. CASE x = d
        BY <1>1, <2>1 DEF DepositOK
    <2>2. CASE x # d
        <3>1. deposits'[x] = deposits[x] /\ ledger'.credits[x] = ledger.credits[x]
            BY <1>1, <2>2
        <3> QED BY <3>1 DEF DepositOK
    <2> QED BY <2>1, <2>2
<1>3. ASSUME NEW r \in requests' PROVE ReportOK(r)'
    <2>1. r \in requests /\ ReportOK(r)
        OBVIOUS
    <2>2. r.op = "credit" /\ r.id \notin crossed' => r.id # d /\ r.id \in Deposits
        BY DEF Request
    <2>3. r.op = "credit" /\ r.id \notin crossed' => ledger'.credits[r.id] = ledger.credits[r.id]
        BY <1>1, <2>2
    <2> QED BY <2>1, <2>3, ReportStaysOK
<1> QED BY <1>2, <1>3

\* A status that is written without money: over a credit only by a deletion, or
\* by a failure that makes the deposit a crossed one.
LEMMA StatusKeepsCredits ==
    ASSUME CreditsInv, TypeOK', NEW d \in Deposits, NEW status \in {"pending", "failed", "deleted"},
           deposits' = [deposits EXCEPT ![d] = status],
           status # "deleted" /\ d \notin crossed' => ledger.credits[d] = 0,
           crossed \subseteq crossed', UNCHANGED <<gateway, ledger>>, requests' \subseteq requests
    PROVE  CreditsInv'
<1> USE DEF CreditsInv
<1>1. ASSUME NEW x \in Deposits PROVE DepositOK(x)'
    BY DEF DepositOK, TypeOK
<1>2. ASSUME NEW r \in requests' PROVE ReportOK(r)'
    BY ReportStaysOK
<1> QED BY <1>1, <1>2

LEMMA QuietKeepsCredits ==
    ASSUME CreditsInv, TypeOK', UNCHANGED <<deposits, gateway, crossed>>,
           ledger'.credits = ledger.credits, requests' \subseteq requests
    PROVE  CreditsInv'
<1>1. ASSUME NEW r \in requests' PROVE ReportOK(r)'
    BY ReportStaysOK DEF CreditsInv
<1> QED BY <1>1 DEF CreditsInv, DepositOK

\* A second report of a deposit of the UPI app makes it a crossed one.
LEMMA ReceivingKeepsCredits ==
    ASSUME CreditsInv, TypeOK', NEW op \in {"fail", "credit"}, NEW d \in Deposits,
           Receive(op, d), crossed \subseteq crossed',
           op = "credit" => Provider[d] = "upi_intent" /\ ledger.credits[d] = 0,
           Provider[d] = "upi_intent" /\ BeingReported(d) => d \in crossed'
    PROVE  CreditsInv'
<1> PICK slot \in Slots : requests' = requests \union {[op |-> op, id |-> d, slot |-> slot]}
    BY DEF Receive
<1> PICK new : new = [op |-> op, id |-> d, slot |-> slot]
    OBVIOUS
<1>0. requests' = requests \union {new} /\ new.op = op /\ new.id = d
    OBVIOUS
<1>1. UNCHANGED <<deposits, gateway, ledger>>
    BY DEF Receive
<1>2. ASSUME NEW r \in requests' PROVE ReportOK(r)'
    <2>1. CASE r = new
        BY <1>0, <1>1, <2>1 DEF ReportOK, IsReport, BeingReported
    <2>2. CASE r \in requests /\ r.id = d
        <3>1. ReportOK(r)
            BY <2>2 DEF CreditsInv
        <3>2. IsReport(r) => BeingReported(d)
            BY <2>2 DEF IsReport, BeingReported
        <3> QED BY <1>0, <1>1, <2>2, <3>1, <3>2 DEF ReportOK, IsReport
    <2>3. CASE r \in requests /\ r.id # d
        <3>1. ReportOK(r)
            BY <2>3 DEF CreditsInv
        <3> QED BY <1>0, <1>1, <2>3, <3>1 DEF ReportOK, IsReport
    <2> QED BY <1>0, <2>1, <2>2, <2>3
<1>3. ASSUME NEW x \in Deposits PROVE DepositOK(x)'
    BY <1>1 DEF CreditsInv, DepositOK
<1> QED BY <1>2, <1>3 DEF CreditsInv

LEMMA DepositStepKeepsCredits ==
    ASSUME CreditsInv, TypeOK', NEW d \in Deposits, DepositStep(d)
    PROVE  CreditsInv'
<1>1. TypeOK /\ DepositOK(d) /\ \A r \in requests : ReportOK(r)
    BY DEF CreditsInv
<1>2. CASE InitiateDeposit(d)
    <2>1. d \notin crossed => ledger.credits[d] = 0
        BY <1>1, <1>2 DEF InitiateDeposit, DepositOK
    <2> QED BY <1>2, <2>1, StatusKeepsCredits DEF InitiateDeposit
<1>3. CASE CreateAdminDeposit(d)
    <2>1. d \notin crossed => ledger.credits[d] = 0
        BY <1>1, <1>3 DEF CreateAdminDeposit, DepositOK
    <2>2. d \notin crossed => \A r \in requests' : r.op = "credit" => r.id # d
        BY <1>1, <1>3 DEF CreateAdminDeposit, ReportOK, IsReport
    <2> QED BY <1>3, <2>1, <2>2, CreditingKeepsCredits DEF CreateAdminDeposit
<1>4. CASE \E outcome \in {"failed", "captured"} : AttemptEnds(d, outcome)
    <2> PICK outcome \in {"failed", "captured"} : AttemptEnds(d, outcome)
        BY <1>4
    <2>1. ASSUME NEW x \in Deposits PROVE DepositOK(x)'
        BY <1>1 DEF AttemptEnds, DepositOK, CreditsInv, TypeOK
    <2>2. ASSUME NEW r \in requests' PROVE ReportOK(r)'
        BY <1>1, ReportStaysOK DEF AttemptEnds
    <2> QED BY <2>1, <2>2 DEF CreditsInv
<1>5. CASE FinalizeCapturedPayment(d)
    <2>1. Provider[d] = "razorpay" /\ (d \notin crossed => ledger.credits[d] = 0)
        BY <1>1, <1>5 DEF FinalizeCapturedPayment, CanFinalize, DepositOK
    <2>2. d \notin crossed => \A r \in requests' : r.op = "credit" => r.id # d
        BY <1>1, <1>5, <2>1 DEF FinalizeCapturedPayment, ReportOK, IsReport
    <2> QED BY <1>5, <2>1, <2>2, CreditingKeepsCredits DEF FinalizeCapturedPayment
<1>6. CASE ReceiveFailure(d)
    <2>1. Provider[d] = "razorpay"
        BY <1>1, <1>6 DEF ReceiveFailure, DepositOK
    <2>2. Receive("fail", d) /\ crossed \subseteq crossed'
        BY <1>6 DEF ReceiveFailure
    <2> QED BY <2>1, <2>2, ReceivingKeepsCredits
<1>7. CASE \E op \in {"fail", "credit"} : ReceiveCallback(d, op)
    <2> PICK op \in {"fail", "credit"} : ReceiveCallback(d, op)
        BY <1>7
    <2>1. /\ Receive(op, d) /\ crossed \subseteq crossed'
          /\ Provider[d] = "upi_intent" /\ ledger.credits[d] = 0
          /\ BeingReported(d) => d \in crossed'
        BY DEF ReceiveCallback
    <2> QED BY <2>1, ReceivingKeepsCredits
<1>8. CASE DeleteDeposit(d)
    BY <1>8, StatusKeepsCredits DEF DeleteDeposit
<1> QED BY <1>2, <1>3, <1>4, <1>5, <1>6, <1>7, <1>8 DEF DepositStep

LEMMA RequestStepKeepsCredits ==
    ASSUME CreditsInv, TypeOK', NEW r \in requests, RequestStep(r)
    PROVE  CreditsInv'
<1>1. TypeOK /\ r \in Request /\ \A q \in requests : ReportOK(q)
    BY DEF CreditsInv, TypeOK
<1>2. CASE MarkFailed(r)
    <2>1. r.id \in Deposits
        BY <1>1, <1>2 DEF MarkFailed, Request
    <2>2. r.id \notin crossed' => ledger.credits[r.id] = 0
        <3>1. ledger.credits[r.id] \in Nat
            BY <1>1, <2>1 DEF TypeOK
        <3> QED BY <1>2, <3>1 DEF MarkFailed
    <2> QED BY <1>2, <2>1, <2>2, StatusKeepsCredits DEF MarkFailed, Answer
<1>3. CASE CreditUpiDeposit(r)
    <2>1. r.id \in Deposits
        BY <1>1, <1>3 DEF CreditUpiDeposit, Request
    <2>2. r.id \notin crossed =>
            /\ ledger.credits[r.id] = 0
            /\ \A q \in requests' : q.op = "credit" => q.id # r.id
        BY <1>1, <1>3 DEF CreditUpiDeposit, Answer, ReportOK, IsReport
    <2> QED BY <1>3, <2>1, <2>2, CreditingKeepsCredits DEF CreditUpiDeposit, Answer
<1>4. CASE RejectWithdrawal(r) \/ RequestFails(r)
    BY <1>4, QuietKeepsCredits DEF RejectWithdrawal, RequestFails, Answer
<1> QED BY <1>2, <1>3, <1>4 DEF RequestStep

LEMMA NextKeepsCredits ==
    ASSUME CreditsInv, TypeOK', [Next]_vars
    PROVE  CreditsInv'
<1>1. CASE \E d \in Deposits : DepositStep(d)
    BY <1>1, DepositStepKeepsCredits
<1>2. ASSUME NEW w \in Payouts, PayoutStep(w) PROVE CreditsInv'
    <2>1. CASE ReceiveRejection(w)
        <3> PICK slot \in Slots :
                   requests' = requests \union {[op |-> "reject", id |-> w, slot |-> slot]}
            BY <2>1 DEF ReceiveRejection, Receive
        <3>1. UNCHANGED <<deposits, gateway, ledger, crossed>>
            BY <2>1 DEF ReceiveRejection, Receive
        <3>2. ASSUME NEW r \in requests' PROVE ReportOK(r)'
            BY <3>1 DEF CreditsInv, ReportOK, IsReport
        <3> QED BY <3>1, <3>2 DEF CreditsInv, DepositOK
    <2>2. CASE ApproveWithdrawal(w)
        <3>1. ledger'.credits = ledger.credits
            BY <2>2 DEF ApproveWithdrawal, RecordWithdrawalDebit, CreditsInv, TypeOK
        <3> QED BY <2>2, <3>1, QuietKeepsCredits DEF ApproveWithdrawal
    <2>3. CASE RequestWithdrawal(w) \/ DeleteWithdrawal(w)
        BY <2>3, QuietKeepsCredits DEF RequestWithdrawal, DeleteWithdrawal
    <2> QED BY <1>2, <2>1, <2>2, <2>3 DEF PayoutStep
<1>3. CASE \E r \in requests : RequestStep(r)
    BY <1>3, RequestStepKeepsCredits
<1>4. CASE PlaceBet
    <2>1. ledger'.credits = ledger.credits
        BY <1>4 DEF PlaceBet, CreditsInv, TypeOK
    <2> QED BY <1>4, <2>1, QuietKeepsCredits DEF PlaceBet
<1>5. CASE UNCHANGED vars
    BY <1>5, QuietKeepsCredits DEF vars
<1> QED BY <1>1, <1>2, <1>3, <1>4, <1>5 DEF Next

\* The report of the administration and the history of the user differ by the
\* deleted deposits.
LEMMA ReportsAgree ==
    ASSUME CreditsInv, crossed = {}
    PROVE  TransactionLogs.deposits = DepositReport.credited
             + SumFunctionOnSet(DepositHistory, {d \in Deposits : deposits[d] = "deleted"})
<1> DEFINE Paid == {d \in Deposits : deposits[d] = "success"}
           Deleted == {d \in Deposits : deposits[d] = "deleted"}
<1> PICK history : history = DepositHistory
    OBVIOUS
<1> PICK paid : paid = [d \in Deposits |-> IF d \in Paid THEN DepositAmount[d] ELSE 0]
    OBVIOUS
<1> PICK deleted : deleted = [d \in Deposits |-> IF d \in Deleted THEN history[d] ELSE 0]
    OBVIOUS
<1>1. ledger \in Ledgers /\ \A d \in Deposits : DepositOK(d)
    BY DEF CreditsInv, TypeOK, Ledgers
<1>2. Summable(history, Deposits)
    BY <1>1, SumsAreIntegers DEF DepositHistory, CreditsOf
<1>3. Summable(paid, Deposits) /\ Summable(deleted, Deposits) /\ Summable(DepositAmount, Paid)
    <2>1. \A d \in Deposits : DepositAmount[d] \in Int /\ history[d] \in Int
        BY <1>2, PaymentsAssumption DEF Summable
    <2>2. IsFiniteSet(Deposits) /\ IsFiniteSet(Paid)
        BY FS_Subset, PaymentsAssumption
    <2> QED BY <2>1, <2>2 DEF Summable
<1>4. AddUp(paid, deleted, history, Deposits)
    <2> SUFFICES ASSUME NEW d \in Deposits PROVE history[d] = paid[d] + deleted[d]
        BY DEF AddUp
    <2>1. /\ DepositAmount[d] \in Nat /\ history[d] = ledger.credits[d] * DepositAmount[d]
          /\ history[d] \in Int
        BY <1>2, PaymentsAssumption DEF DepositHistory, Summable
    <2>2. CASE deposits[d] = "success"
        <3>1. ledger.credits[d] = 1
            BY <1>1, <2>2 DEF DepositOK
        <3> QED BY <2>1, <2>2, <3>1
    <2>3. CASE deposits[d] = "deleted"
        BY <2>1, <2>3
    <2>4. CASE deposits[d] \in {"none", "pending", "failed"}
        <3>1. ledger.credits[d] = 0
            BY <1>1, <2>4 DEF DepositOK
        <3>2. history[d] = 0
            BY <2>1, <3>1
        <3>3. d \notin Paid /\ d \notin Deleted
            BY <2>4
        <3>4. paid[d] = 0 /\ deleted[d] = 0
            BY <3>3
        <3> QED BY <3>2, <3>4
    <2> QED BY <2>2, <2>3, <2>4 DEF CreditsInv, TypeOK, DepositStatuses
<1>5. SumFunctionOnSet(history, Deposits)
        = SumFunctionOnSet(paid, Deposits) + SumFunctionOnSet(deleted, Deposits)
    BY <1>3, <1>4, SumPlus
<1>6. SumFunctionOnSet(DepositAmount, Paid) = SumFunctionOnSet(paid, Deposits)
    <2>1. IsFiniteSet(Deposits) /\ Paid \in SUBSET Deposits
        BY PaymentsAssumption
    <2> QED BY <1>3, <2>1, SumOfPart
<1>7. SumFunctionOnSet(history, Deleted) = SumFunctionOnSet(deleted, Deposits)
    <2>1. IsFiniteSet(Deposits) /\ Deleted \in SUBSET Deposits /\ Summable(history, Deleted)
        BY <1>2, PaymentsAssumption, SummablePart
    <2> QED BY <2>1, SumOfPart
<1>8. DepositReport.credited = SumFunctionOnSet(DepositAmount, Paid)
    <2>1. DepositsOf("success") = Paid
        BY DEF DepositsOf, DepositExists
    <2> QED BY <2>1 DEF DepositReport
<1>9. TransactionLogs.deposits = SumFunctionOnSet(history, Deposits)
    BY DEF TransactionLogs
<1> QED BY <1>5, <1>6, <1>7, <1>8, <1>9

\* A deposit is credited once, however often webhook, verify call and callback
\* report it and in whatever order, unless two callbacks of it overlapped or a
\* failure was written over its credit: nothing else in the code credits twice.
THEOREM DepositsCreditedOnce == Spec => []CreditedOnceUncrossed
<1>1. Init => PaymentsInv /\ CreditsInv
    BY InitEstablishes, PaymentsAssumption DEF Init, PaymentsInv, CreditsInv, DepositOK
<1>2. PaymentsInv /\ CreditsInv /\ [Next]_vars => (PaymentsInv /\ CreditsInv)'
    BY StepPreserves, NextKeepsCredits DEF PaymentsInv
<1>3. CreditsInv => CreditedOnceUncrossed
    BY ReportsAgree DEF CreditsInv, DepositOK, CreditedOnceUncrossed
<1> QED BY <1>1, <1>2, <1>3, PTL DEF Spec
=============================================================================

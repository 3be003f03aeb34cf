----------------------------- MODULE MCPayments -----------------------------
(* An instance of Payments for TLC: one deposit of each provider and two   *)
(* withdrawals that the balance covers one at a time.                      *)
EXTENDS Payments

MCProvider ==
    [d \in Deposits |-> CASE d = 1 -> "razorpay" [] d = 2 -> "upi_intent"
                          [] OTHER -> "admin_manual"]
MCDepositAmount == [d \in Deposits |-> d]
MCPayoutAmount == [w \in Payouts |-> w + 1]
=============================================================================

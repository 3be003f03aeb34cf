------------------------------ MODULE BetBook ------------------------------
(***************************************************************************)
(* What the settlement promises about bets, with sessions, wallets, tasks  *)
(* and admins left out: a bet is placed once and decided once, and the one *)
(* credit of a winning bet is written in the step that decides it.  A bet  *)
(* may become contested while it is pending; the promise is not made for   *)
(* contested bets, and it is kept for all others whatever they do.         *)
(***************************************************************************)
EXTENDS Naturals

CONSTANT Bets

VARIABLES
    status,     \* what became of each bet
    credits,    \* how often each bet was paid
    contested   \* the bets that may be decided and paid again

vars == <<status, credits, contested>>

TypeOK ==
    /\ status \in [Bets -> {"none", "pending", "won", "lost"}]
    /\ credits \in [Bets -> Nat]
    /\ contested \in SUBSET Bets

Init ==
    /\ status = [b \in Bets |-> "none"]
    /\ credits = [b \in Bets |-> 0]
    /\ contested = {}

Place(b) ==
    /\ status[b] = "none"
    /\ status' = [status EXCEPT ![b] = "pending"]
    /\ UNCHANGED <<credits, contested>>

Contest(S) ==
    /\ \A b \in S : status[b] = "pending"
    /\ contested' = contested \union S
    /\ UNCHANGED <<status, credits>>

\* A batch is decided as a whole: its winners are paid, its losers are not.
Decide(winners, losers) ==
    /\ winners \intersect losers = {}
    /\ \A b \in (winners \union losers) \ contested : status[b] = "pending"
    /\ status' = [b \in Bets |-> CASE b \in winners -> "won"
                                   [] b \in losers -> "lost"
                                   [] OTHER -> status[b]]
    /\ credits' = [b \in Bets |-> IF b \in winners THEN credits[b] + 1 ELSE credits[b]]
    /\ UNCHANGED contested

Next ==
    \/ \E b \in Bets : Place(b)
    \/ \E S \in SUBSET Bets : Contest(S)
    \/ \E winners, losers \in SUBSET Bets : Decide(winners, losers)

Spec == Init /\ [][Next]_vars
=============================================================================

--------------------------- MODULE MCRevertBatch ---------------------------
(* Instances of RevertBatch for TLC: one user, three bets in two orders. *)
EXTENDS RevertBatch

CONSTANTS u1, k1, k2

MCUsers == {u1}
MCPayer == [o \in Orders |-> u1]
MCMode == [b \in Bets |-> IF b = 1 THEN "close" ELSE "open"]
MCStake == [b \in Bets |-> b]
MCPayout == [b \in Bets |-> 9 * b]
MCFunds == [u \in Users |-> 6]

\* Bets 1 and 2 placed together, or each bet on its own.
Together == [b \in Bets |-> IF b <= 2 THEN 1 ELSE b]
Apart == [b \in Bets |-> b]
=============================================================================

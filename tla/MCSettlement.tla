---------------------------- MODULE MCSettlement ----------------------------
(***************************************************************************)
(* Instances of Settlement for TLC: one user with an open bet, a close bet *)
(* and a final (jodi) bet on panas p and q.                                *)
(***************************************************************************)
EXTENDS Settlement, TLC

CONSTANTS u1, p, q, r1, r2

MCUsers == {u1}
MCPanas == {p, q}

\* Bets are numbered; a cfg takes the first two or all three.
MCOwner == [b \in Bets |-> u1]
MCKind == [b \in Bets |-> CASE b = 1 -> "open" [] b = 2 -> "final" [] OTHER -> "close"]
MCCovers == [b \in Bets |-> IF b = 2 THEN {<<p, p>>, <<q, p>>} ELSE {p}]
MCStake == [b \in Bets |-> b]
\* Bet 1 is a motor bet whose stake on p an admin has edited: any other pana,
\* or none, is paid at the stake per combination.
MCPayout == [b \in Bets |-> [x \in Panas \union {NoPana} |->
               IF b > 1 THEN 9 * b ELSE IF x = p THEN 5 ELSE 10]]
MCFunds == [u \in Users |-> 4]

\* Runs differ in nothing but their name.
MCSymmetry == Permutations(Runners)
=============================================================================

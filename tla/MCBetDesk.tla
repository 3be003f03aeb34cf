----------------------------- MODULE MCBetDesk -----------------------------
(* A motor bet of two lines and a jodi of one user, placed together or alone. *)
EXTENDS Reports

CONSTANTS u1

MCUsers == {u1}
MCOrders == {{1}, {2}, {1, 2}}
MCOwner == [b \in BetIds |-> u1]

MCAsked ==
    [b \in BetIds |->
       IF b = 1 THEN [template |-> "DP_MOTOR", mode |-> "open", odds |-> 2, amount |-> 8,
                      value |-> << <<<<1, 1, 2>>, <<1, 2, 2>>>> >>]
       ELSE [template |-> "JODI", mode |-> "open", odds |-> 3, amount |-> 3,
             value |-> << <<4, 5>> >>]]

MCAmounts == {6}
MCPanas == {<<1, 1, 3>>}
MCFundsAsked == {[user |-> u1, amount |-> -5, key |-> "k"]}
MCResults == [m \in BetModes |-> IF m = "open" THEN <<1, 1, 2>> ELSE <<1, 2, 2>>]
=============================================================================

---------------------------- MODULE MCMarketDay ----------------------------
(* One market on one short day. *)
EXTENDS MarketDay

CONSTANTS m1

MCMarkets == {m1}
MCDays == {1}
MCOffered == [m \in Markets |->
                [open |-> 1, close |-> 3, active |-> TRUE, days |-> [d \in Days |-> TRUE]]]
MCEdits == {[open |-> 2], [close |-> 2]}
=============================================================================

---------------------------- MODULE MCGameRound ----------------------------
(* A session over the digits 0, 4 and 7, panas typed in any order. *)
EXTENDS GameRound

Ask(template, mode, value) == [template |-> template, mode |-> mode, value |-> value, amount |-> 12]

MCRequests ==
    {Ask("SINGLE_DIGIT", "open", << <<1>> >>), Ask("SINGLE_DIGIT", "close", << <<8>> >>),
     Ask("JODI", "open", << <<1, 8>> >>),
     Ask("SINGLE_PANA", "open", << <<0, 4, 7>> >>), Ask("SINGLE_PANA", "close", << <<4, 0, 4>> >>),
     Ask("DOUBLE_PANA", "close", << <<0, 4, 4>> >>), Ask("TRIPLE_PANA", "open", << <<0, 0, 0>> >>),
     Ask("HALF_SANGAM_A", "open", << <<0, 4, 7>>, <<8>> >>),
     Ask("HALF_SANGAM_B", "open", << <<1>>, <<0, 4, 4>> >>),
     Ask("FULL_SANGAM", "open", << <<0, 7, 4>>, <<0, 4, 4>> >>),
     Ask("JODI", "close", << <<1, 8>> >>)}

MCMotorChoices ==
    {[template |-> "SP_MOTOR", digits |-> <<7, 0, 4, 9>>],
     [template |-> "DP_MOTOR", digits |-> <<0, 7, 4>>],
     [template |-> "SP_MOTOR", digits |-> <<0, 4>>]}

MCAmounts == {24}
MCDraws == {<<0, 4, 7>>, <<4, 0, 4>>, <<0, 0, 0>>}
MCOdds == [t \in Templates |-> IF t \in Motors THEN 2 ELSE 3]
============================================================================

----------------------------- MODULE MCSettings -----------------------------
(* One pair of limits, the contact and the UPI id; each payload alone fits the defaults. *)
EXTENDS Settings

MCDefaults == [min |-> 1, max |-> 3, contact |-> 0, merchant |-> 0]
MCPairs == {<<"min", "max">>}
MCPayloads == {[min |-> 3], [max |-> 2]}
MCContacts == {[contact |-> 1]}
MCMerchants == {[merchant |-> 1]}
=============================================================================

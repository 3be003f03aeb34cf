----------------------------- MODULE MCAccounts -----------------------------
(* Two users at most, of whom one is registered, and one device token each. *)
EXTENDS Accounts
=============================================================================

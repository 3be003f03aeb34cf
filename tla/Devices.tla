------------------------------- MODULE Devices -------------------------------
(***************************************************************************)
(* The devices that are sent notifications.  A device registers a token,   *)
(* replaces it or removes it; a message is sent to the active tokens in    *)
(* batches, and the tokens the provider calls invalid are deactivated      *)
(* after the last batch.  The provider is external: a batch can fail as a  *)
(* whole, and a token dies when the app is removed from its device.        *)
(***************************************************************************)
EXTENDS Naturals, FiniteSets

CONSTANTS
    UserIds,        \* users, in the order their accounts are created
    Tokens,         \* tokens of devices
    MaxBatch,       \* tokens the provider takes at once
    MaxSends,       \* bound: messages being sent at once
    MaxRequests     \* bound: requests of the users and the administration

VARIABLES
    devices,        \* by token: [user, active], or NoDevice
    live,           \* tokens the provider can reach
    sends,          \* messages: tokens still to be sent to, and tokens to clean up
    asked,          \* number of requests so far
    wanted,         \* history: by token, the user who registered it last, or 0
    disturbed       \* history: what was overtaken, "user", "bank" or "device"

\* 0 stands for no user.
ASSUME UsersAssumption == UserIds \subseteq Nat \ {0}

deviceVars == <<devices, live, sends, wanted>>

NoDevice == [user |-> 0, active |-> FALSE]

DevicesInit ==
    /\ devices = [t \in Tokens |-> NoDevice]
    /\ live = {}
    /\ sends = {}
    /\ wanted = [t \in Tokens |-> 0]

CountRequest ==
    /\ asked < MaxRequests
    /\ asked' = asked + 1

NoteDevice(t) ==
    disturbed' = disturbed \union IF \E s \in sends : t \in s.invalid THEN {"device"} ELSE {}

\* A token that is registered again moves to the user who registers it.
RegisterDevice(u, t) ==
    /\ CountRequest
    /\ devices' = [devices EXCEPT ![t] = [user |-> u, active |-> TRUE]]
    /\ live' = live \union {t}
    /\ wanted' = [wanted EXCEPT ![t] = u]
    /\ NoteDevice(t)
    /\ UNCHANGED sends

\* The unique index refuses a new token that some device has.
UpdateDeviceToken(u, old, new) ==
    /\ old # new /\ devices[old].user = u /\ devices[new] = NoDevice
    /\ CountRequest
    /\ devices' = [devices EXCEPT ![old] = NoDevice, ![new] = [user |-> u, active |-> TRUE]]
    /\ live' = (live \ {old}) \union {new}
    /\ wanted' = [wanted EXCEPT ![old] = 0, ![new] = u]
    /\ NoteDevice(new)
    /\ UNCHANGED sends

RemoveDevice(u, t) ==
    /\ devices[t].user = u
    /\ CountRequest
    /\ devices' = [devices EXCEPT ![t].active = FALSE]
    /\ wanted' = [wanted EXCEPT ![t] = 0]
    /\ UNCHANGED <<live, sends, disturbed>>

\* External: the app is removed from the device.
TokenDies(t) ==
    /\ t \in live
    /\ live' = live \ {t}
    /\ UNCHANGED <<devices, sends, asked, wanted, disturbed>>

-----------------------------------------------------------------------------
(* Sending *)

ActiveTokensOf(users) == {t \in Tokens : devices[t].active /\ devices[t].user \in users}
ActiveTokens == {t \in Tokens : devices[t].active}

Send(tokens) ==
    /\ tokens # {}
    /\ Cardinality(sends) < MaxSends
    /\ CountRequest
    /\ sends' = sends \union {[nr |-> asked, left |-> tokens, invalid |-> {}]}
    /\ UNCHANGED <<devices, live, wanted, disturbed>>

SendToUsers(users) == Send(ActiveTokensOf(users))
SendToMarketSubscribers == Send(ActiveTokens)

EveryFailure(batch, busy) == (batch \ live) \union busy         \* Mutant
InvalidTokens(batch, busy) == batch \ live

BatchOf(s) ==
    {b \in SUBSET s.left : Cardinality(b) = IF Cardinality(s.left) < MaxBatch
                                            THEN Cardinality(s.left) ELSE MaxBatch}

Continue(s, batch, invalid) ==
    /\ sends' = (sends \ {s}) \union
                  {[s EXCEPT !.left = @ \ batch, !.invalid = @ \union invalid]}
    /\ UNCHANGED <<devices, live, asked, wanted>>

\* The answer names each token that was not reached and why; some may be busy.
BatchAnswered(s) ==
    /\ s.left # {}
    /\ \E batch \in BatchOf(s) : \E busy \in SUBSET (batch \intersect live) :
          Continue(s, batch, InvalidTokens(batch, busy))
    /\ UNCHANGED disturbed

BatchFailed(s) ==
    /\ s.left # {}
    /\ \E batch \in BatchOf(s) : Continue(s, batch, {})
    /\ UNCHANGED disturbed

\* The provider finds fault with the message: an invalid argument, for every token.
BatchRefused(s) ==
    /\ s.left # {}
    /\ \E batch \in BatchOf(s) : Continue(s, batch, batch)
    /\ disturbed' = disturbed \union {"device"}

CleanUp(s) ==
    /\ s.left = {}
    /\ devices' = [t \in Tokens |-> IF t \in s.invalid THEN [devices[t] EXCEPT !.active = FALSE]
                                    ELSE devices[t]]
    /\ sends' = sends \ {s}
    /\ UNCHANGED <<live, asked, wanted, disturbed>>

\* An error of the clean-up is logged; a restart loses what was being sent.
SendDropped(s) ==
    /\ sends' = sends \ {s}
    /\ UNCHANGED <<devices, live, asked, wanted, disturbed>>

\* existing: the users that have an account; active: those of them let through.
DevicesNext(existing, active) ==
    \/ \E u \in active, t \in Tokens : RegisterDevice(u, t) \/ RemoveDevice(u, t)
    \/ \E u \in active, old, new \in Tokens : UpdateDeviceToken(u, old, new)
    \/ \E t \in Tokens : TokenDies(t)
    \/ \E users \in SUBSET existing : SendToUsers(users)
    \/ SendToMarketSubscribers
    \/ \E s \in sends : \/ BatchAnswered(s) \/ BatchFailed(s) \/ BatchRefused(s)
                        \/ CleanUp(s) \/ SendDropped(s)

-----------------------------------------------------------------------------
(* Properties *)

\* A device that was registered, was not removed and can be reached is one that
\* messages are sent to, for the user who registered it last, whatever other
\* tokens died or failed; unless the provider found fault with a message, or a
\* token was registered again while the answer that called it invalid was on
\* its way.
DevicesReachable ==
    "device" \notin disturbed =>
       \A t \in live : wanted[t] # 0 => devices[t] = [user |-> wanted[t], active |-> TRUE]
=============================================================================

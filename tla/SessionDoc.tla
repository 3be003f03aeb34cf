----------------------------- MODULE SessionDoc -----------------------------
(***************************************************************************)
(* The GameSession document: one betting session of one market on one day. *)
(* Every write of the code to that document is an operator from the stored *)
(* row to the new row; the actions of the modules that EXTEND this one say *)
(* when the write happens and what the writer had read before.             *)
(*                                                                         *)
(* A declared result is a pana; the digit derived from it and the time of  *)
(* the declaration follow from it and are left out.  The fields "result"   *)
(* and "currentResult" are always written together, so one field stands    *)
(* for both.                                                               *)
(***************************************************************************)
EXTENDS Integers

CONSTANTS
    Panas,      \* the panas an admin may declare
    NoPana      \* the null of an undeclared result

ASSUME NoPanaAssumption == NoPana \notin Panas

-----------------------------------------------------------------------------
(* Row types *)

Modes == {"open", "close"}

BettingPhases == {"open_running", "close_running"}

RunningPhases == BettingPhases \union {"market_closed"}

Phases == RunningPhases \union {"settled"}

Results == [Modes -> Panas \union {NoPana}]

EmptyResult == [m \in Modes |-> NoPana]

SettlementStatuses == {"none", "pending", "processing", "completed", "failed"}

WarningCodes ==
    {"none", "RESULT_SETTLEMENT_IN_PROGRESS", "RESULT_SETTLEMENT_FAILED",
     "RESULT_FINANCIAL_DIVERGENCE", "SESSION_CANCELLED_WITH_BETS",
     "SESSION_CANCELLED_AFTER_SETTLEMENT"}

SessionRow ==
    [status          : {"active", "cancelled", "settled"},
     phase           : Phases,
     openDeclared    : BOOLEAN,
     current         : Results,
     settled         : Results,
     revision        : Nat,
     settledRevision : Nat,
     settlement      : SettlementStatuses,
     consistent      : BOOLEAN,
     warning         : WarningCodes]

\* A session as the daily creation job stores it.
NewSession ==
    [status          |-> "active",
     phase           |-> "open_running",
     openDeclared    |-> FALSE,
     current         |-> EmptyResult,
     settled         |-> EmptyResult,
     revision        |-> 0,
     settledRevision |-> 0,
     settlement      |-> "none",
     consistent      |-> TRUE,
     warning         |-> "none"]

Declared(s, mode) == s.current[mode] # NoPana

-----------------------------------------------------------------------------
(* The consistency metadata that buildResultState derives from a row *)

IsFinanciallyConsistent(s) ==
    /\ s.consistent
    /\ \/ s.current = EmptyResult /\ s.settled = EmptyResult
       \/ /\ s.settlement \notin {"processing", "pending", "failed"}
          /\ s.revision = s.settledRevision
          /\ s.current = s.settled

ResultWarning(s) ==
    CASE s.warning # "none" -> s.warning
      [] s.warning = "none" /\ IsFinanciallyConsistent(s) -> "none"
      [] OTHER ->
           CASE s.settlement \in {"processing", "pending"} ->
                  "RESULT_SETTLEMENT_IN_PROGRESS"
             [] s.settlement = "failed" -> "RESULT_SETTLEMENT_FAILED"
             [] OTHER -> "RESULT_FINANCIAL_DIVERGENCE"

\* The part of a row this is computed from; the other fields are blanked.
ResultPart(s) ==
    [s EXCEPT !.status = "active", !.phase = "open_running", !.openDeclared = FALSE]

\* The metadata of the row "from" stored into the row "into".
StoreResultState(into, from) ==
    [into EXCEPT !.consistent = IsFinanciallyConsistent(from),
                 !.warning    = ResultWarning(from)]

-----------------------------------------------------------------------------
(* Phase writes *)

SetPhase(s, p) == IF s.status = "active" THEN [s EXCEPT !.phase = p] ELSE s

\* lockSession is a toggle: it closes a running market and reopens a closed one.
LockTarget(s, beforeOpenTime) ==
    IF s.phase \in BettingPhases THEN "market_closed"
    ELSE IF beforeOpenTime THEN "open_running" ELSE "close_running"

-----------------------------------------------------------------------------
(* Declaration *)

\* The conditions of the conditional update that stores the result.
CanStoreResult(s, mode) ==
    IF mode = "open"
    THEN s.phase \in RunningPhases /\ ~s.openDeclared
    ELSE s.phase \in {"close_running", "market_closed"} /\ ~Declared(s, "close")

StoreResult(s, mode, pana) ==
    [s EXCEPT !.current      = [@ EXCEPT ![mode] = pana],
              !.openDeclared  = @ \/ mode = "open",
              !.revision      = @ + 1]

\* The whole declaration transaction: the result, then "processing" and the
\* consistency metadata of the row as it is then.
DeclareResult(s, mode, pana) ==
    LET declared == [StoreResult(s, mode, pana) EXCEPT !.settlement = "processing"]
    IN  StoreResultState(declared, declared)

-----------------------------------------------------------------------------
(* Reset and cancellation: the updates are computed from the row that was   *)
(* read, and written over the stored row later.                            *)

ResetUpdates ==
    [current : Results, openDeclared : BOOLEAN, revision : Nat,
     settlement : SettlementStatuses, consistent : BOOLEAN,
     warning : WarningCodes]

UpdatesOfReset(seen, mode) ==
    LET cleared ==
          [seen EXCEPT
             !.current      = [@ EXCEPT ![mode] = NoPana],
             !.openDeclared  = @ /\ mode # "open",
             !.revision      = @ + 1,
             !.settlement    = IF @ \in {"processing", "pending"} THEN "failed"
                               ELSE @]
    IN  [current      |-> cleared.current,
         openDeclared |-> cleared.openDeclared,
         revision     |-> cleared.revision,
         settlement   |-> cleared.settlement,
         consistent   |-> IsFinanciallyConsistent(cleared),
         warning      |-> ResultWarning(cleared)]

ResetResult(s, updates) ==
    [s EXCEPT !.current      = updates.current,
              !.openDeclared = updates.openDeclared,
              !.revision     = updates.revision,
              !.settlement   = updates.settlement,
              !.consistent   = updates.consistent,
              !.warning      = updates.warning]

IsSettled(s) == s.phase = "settled" \/ s.status = "settled"

\* Which phase and which warning a cancellation stores depends on whether the
\* session was settled, and had bets, when it was read.
CancelSession(s, phase, wasSettled, hadBets) ==
    [s EXCEPT !.status     = "cancelled",
              !.phase      = IF wasSettled THEN phase ELSE "market_closed",
              !.consistent = ~wasSettled /\ ~hadBets,
              !.warning    = IF wasSettled THEN "SESSION_CANCELLED_AFTER_SETTLEMENT"
                             ELSE IF hadBets THEN "SESSION_CANCELLED_WITH_BETS"
                             ELSE "none"]

-----------------------------------------------------------------------------
(* Settlement writes *)

\* The worker copies the mode it settled from the row it had read, and writes
\* the whole settled result.
StoreSettled(s, seen, mode, revision) ==
    [s EXCEPT !.settled         = [seen.settled EXCEPT ![mode] = seen.current[mode]],
              !.settledRevision = revision,
              !.settlement      = "completed"]

MarkSettled(s) == [s EXCEPT !.status = "settled", !.phase = "settled"]

\* The worker's catch block: the stored warning is the one of the row it read.
StoreFailed(s, seen) ==
    [s EXCEPT !.settlement = "failed",
              !.consistent = FALSE,
              !.warning    = ResultWarning([seen EXCEPT !.settlement = "failed"])]
=============================================================================

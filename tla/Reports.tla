------------------------------ MODULE Reports ------------------------------
(***************************************************************************)
(* What the reports of the administration and the history of a user show   *)
(* of the session whose bets BetDesk works on.  Each is a query over bets, *)
(* transactions and results that is answered between two steps: an         *)
(* operator on the state, here without the paging and the sort order.      *)
(***************************************************************************)
EXTENDS BetDesk

StakesOf(S) == SumUp([b \in S |-> bets[b].amount])
AmountsOf(S) == SumUp([i \in S |-> ledger[i].amount])

-----------------------------------------------------------------------------
(* Reports of the administration *)

\* The stakes by the mode of the bet; neither status nor result is looked at.
BidSummary ==
    [total |-> StakesOf(Placed),
     open  |-> StakesOf({b \in Placed : bets[b].mode = "open"}),
     close |-> StakesOf({b \in Placed : bets[b].mode = "close"})]

PayoutOfBets ==                                                 \* Mutant
    SumUp([b \in Placed |-> bets[b].payout])
TotalPayout == AmountsOf(Stored("win"))

ProfitLossReport ==
    LET collection == StakesOf(Placed)
    IN  [totalCollection |-> collection,
         totalPayout     |-> TotalPayout,
         netProfit       |-> collection - TotalPayout]

\* The bids of a status, of all if none is asked for.
BidReport(status) ==
    LET items == {b \in Placed : status = "all" \/ bets[b].status = status}
    IN  [items |-> items, totalBets |-> Cardinality(items), totalAmount |-> StakesOf(items),
         totalPlayers |-> Cardinality({Owner[b] : b \in items})]

\* The figures of a day whose bets are those of this session.
Dashboard ==
    [totalBidAmountToday     |-> StakesOf(Placed),
     totalWinningAmountToday |-> TotalPayout,
     netProfitToday          |-> StakesOf(Placed) - TotalPayout]

\* The bids of the session, and apart from them those that were cancelled.
BidHistory == {b \in Placed : bets[b].status # "cancelled"}
RevertedBids == {b \in Placed : bets[b].status = "cancelled"}

\* The query of the winning history does not read the panas of a motor bet.
Candidate(b) ==
    IF bets[b].template \in Motors THEN [bets[b] EXCEPT !.selection = <<>>] ELSE bets[b]

\* The bets that match the result shown now, whatever their status is.
WinningHistory ==
    {b \in Placed : IsWinningBet(Candidate(b), Session[bets[b].mode], Session)}

-----------------------------------------------------------------------------
(* The figures of one user *)

BidsOf(u) == {b \in BidHistory : Owner[b] = u}

UserStats(u) ==
    LET won  == {b \in BidsOf(u) : bets[b].status = "won"}
        lost == {b \in BidsOf(u) : bets[b].status = "lost"}
    IN  [totalBets     |-> Cardinality(BidsOf(u)),
         totalWagered  |-> StakesOf(BidsOf(u)),
         totalWinnings |-> SumUp([b \in won |-> bets[b].payout]),
         totalLosses   |-> StakesOf(lost)]

\* The stakes of the bets that won are on neither side of the net figure.
UserDetails(u) ==
    LET stats == UserStats(u)
    IN  [wallet |-> wallet[u], stats |-> stats,
         netProfitLoss |-> stats.totalWinnings - stats.totalLosses]

-----------------------------------------------------------------------------
(* The history of a user: each debit with the credits of its bets *)

UserLedger(u) == {i \in DOMAIN ledger : ledger[i].user = u /\ ~ledger[i].deleted}

SharesBet(i, j) == ledger[i].bets \intersect ledger[j].bets # {}

SettlementCredits(debits) ==
    {i \in Stored("win") : ledger[i].related \in debits \/ \E d \in debits : SharesBet(i, d)}

\* Credits that name their debit go to it; the others go by the bets they share.
DebitSettlement(debit, credits) ==
    LET named  == {i \in credits : ledger[i].related = debit}
        shared == {i \in credits : ledger[i].related = 0 /\ SharesBet(i, debit)}
    IN  IF named # {} THEN named ELSE shared

\* The bets of a debit are settled together: a cancelled one is never resolved.
SettlementStatus(debit) ==
    IF \A b \in ledger[debit].bets : bets[b].status \in {"won", "lost", "refunded"}
    THEN "settled" ELSE "pending"

TransactionHistory(u) ==
    LET debits  == UserLedger(u) \intersect Stored("debit")
        credits == SettlementCredits(debits)
    IN  [d \in debits |-> [settlementStatus  |-> SettlementStatus(d),
                           creditedWinAmount |-> AmountsOf(DebitSettlement(d, credits))]]

-----------------------------------------------------------------------------
(* Properties *)

DeletedWins == {i \in DOMAIN ledger : ledger[i].kind = "win" /\ ledger[i].deleted}

\* What the house has taken: what left the wallets, without the adjustments and
\* the deletions of the administration.
MoneyTaken ==
    SumUp([u \in Users |-> Funds - wallet[u].balance - wallet[u].exposure])
      + AmountsOf({i \in DOMAIN ledger : ledger[i].kind \in {"funds", "reversal"}})

\* As long as no request has been overtaken, the profit of the report is the
\* money that was taken, with the stakes that are still held or were handed back
\* and the wins whose transactions were deleted; its collection is that of the
\* bid summary, of the bid reports of all statuses and of the two bid histories;
\* the dashboard shows the same profit, and so do the figures of the users, with
\* the stakes they leave out.
ProfitExplained ==
    ~overtaken =>
      LET report  == ProfitLossReport
          of      == [status \in {"pending", "won", "lost", "cancelled"} |->
                        BidReport(status).totalAmount]
          deleted == AmountsOf(DeletedWins)
      IN  /\ report.netProfit = MoneyTaken + of["pending"] + of["cancelled"] + deleted
          /\ report.totalCollection = BidSummary.open + BidSummary.close
          /\ report.totalCollection = SumUp(of)
          /\ report.totalCollection = StakesOf(BidHistory) + StakesOf(RevertedBids)
          /\ report.netProfit = Dashboard.netProfitToday
          /\ report.netProfit
               = of["pending"] + of["won"] + of["cancelled"] + deleted
                   - SumUp([u \in Users |-> UserDetails(u).netProfitLoss])

\* As long as no request has been overtaken, the history credits every order
\* with the payouts of its bets, less the wins whose transactions were deleted;
\* a settled order holds no stake; and the winning history shows, of the
\* settled bets on one number, exactly those that won.
WinsShownOnce ==
    ~overtaken =>
      /\ \A u \in Users :
           LET history == TransactionHistory(u)
           IN  \A d \in DOMAIN history :
                 /\ history[d].creditedWinAmount
                      = SumUp([b \in ledger[d].bets |-> bets[b].payout])
                          - AmountsOf({i \in DeletedWins : SharesBet(i, d)})
                 /\ history[d].settlementStatus = "settled" =>
                      SumUp([b \in ledger[d].bets |-> Held(bets[b])]) = 0
      /\ \A b \in Placed :
           bets[b].status \in {"won", "lost"} /\ bets[b].template \notin Motors =>
             (b \in WinningHistory <=> bets[b].status = "won")
=============================================================================

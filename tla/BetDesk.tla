------------------------------- MODULE BetDesk -------------------------------
(***************************************************************************)
(* The bets of one session under concurrent work: users place orders, the  *)
(* administration edits and deletes bets, adjusts funds and deletes        *)
(* transactions, and the passes of the settlement run.                     *)
(*                                                                         *)
(* Each of these requests reads what it works on, checks it, and only then *)
(* starts the database transaction that writes the wallet, the bet, the    *)
(* book and the ledger.  The two halves are separate steps here; a         *)
(* transaction is one step.                                                *)
(***************************************************************************)
EXTENDS GameRules

CONSTANTS
    Users,
    BetIds,         \* the bets that can be placed
    Orders,         \* sets of bets that are placed together
    Owner, Asked,   \* of a bet: its user, and the bet that is asked for
    Amounts,        \* stakes a bet or a line is edited to
    Panas,          \* panas a line is moved to
    FundsAsked,     \* adjustments asked for: [user, amount, key]
    Results,        \* the pana that is declared for a mode
    Funds,          \* opening balance
    MaxRequests,    \* bound: requests of the administration
    MaxInFlight     \* bound: requests between their two halves

\* Bets are asked for with a positive stake, and placed by one user.
ASSUME DeskAssumption ==
    /\ IsFiniteSet(Users) /\ IsFiniteSet(BetIds)
    /\ Orders \subseteq (SUBSET BetIds) \ {{}}
    /\ Owner \in [BetIds -> Users]
    /\ \A order \in Orders : \A b, c \in order : Owner[b] = Owner[c]
    /\ \A b \in BetIds :
          /\ Asked[b].template \in Templates /\ Asked[b].mode \in BetModes
          /\ Asked[b].amount \in Nat \ {0} /\ Asked[b].odds \in Nat
          /\ Asked[b].template \in Motors => Asked[b].value[1] \in Seq(Seq(Digits))
    /\ Amounts \subseteq Nat \ {0}
    /\ Panas \subseteq Seq(Digits)
    /\ \A f \in FundsAsked : f.user \in Users /\ f.amount \in Int
    /\ Funds \in Nat

\* What is asked for and declared is made of digits; a result has three of them.
ASSUME ValuesAssumption ==
    /\ \A b \in BetIds : Asked[b].template \notin Motors => Asked[b].value \in Seq(Seq(Digits))
    /\ \A m \in BetModes : Results[m] \in Seq(Digits) /\ IsPana(Results[m])

VARIABLES
    bets,           \* by id; NoBet before it is placed
    version,        \* the document version of a bet
    wallet,         \* by user: [balance, exposure]
    ledger,         \* the transactions ever written, the deleted ones included
    book,           \* the session exposure stored for each mode
    declared,       \* modes whose result is declared
    inflight,       \* requests and passes that have read and not yet written
    asked,          \* number of requests so far
    settledStakes,  \* history: the stakes released by the settlement
    overtaken       \* history: a row was written that had changed since it was read

vars == <<bets, version, wallet, ledger, book, declared, inflight, asked,
          settledStakes, overtaken>>

NoBet == [template |-> "none", status |-> "none", amount |-> 0]
NoKey == "none"

Held(bet) == IF bet.status = "pending" THEN bet.amount ELSE 0

Init ==
    /\ bets = [b \in BetIds |-> NoBet]
    /\ version = [b \in BetIds |-> 0]
    /\ wallet = [u \in Users |-> [balance |-> Funds, exposure |-> 0]]
    /\ ledger = <<>>
    /\ book = [m \in BetModes |-> NoBook]
    /\ declared = {}
    /\ inflight = {}
    /\ asked = 0
    /\ settledStakes = 0
    /\ overtaken = FALSE

-----------------------------------------------------------------------------
(* Wallet and ledger *)

AlwaysCovers(u, amount) == TRUE                                 \* Mutant
Covers(u, amount) == wallet[u].balance >= amount

\* placeBetDebit, rebalanceForBetEdit, releaseBetExposure: a stake that is held
Hold(u, amount) ==
    [wallet EXCEPT ![u] = [balance  |-> @.balance - amount,
                           exposure |-> @.exposure + amount]]

\* A transaction: its kind, the bets it is about and the debit it belongs to.
Row(u, amount, kind) ==
    [user |-> u, amount |-> amount, kind |-> kind, key |-> NoKey,
     bets |-> {}, related |-> 0, deleted |-> FALSE]

DebitRow(u, total, order) == [Row(u, -total, "debit") EXCEPT !.bets = order]

FundsRow(f) == [Row(f.user, f.amount, "funds") EXCEPT !.key = f.key]

\* The transactions of a kind that can still be found, by their index.
Stored(kind) == {i \in DOMAIN ledger : ledger[i].kind = kind /\ ~ledger[i].deleted}

AnyDebit(b) == Stored("debit")                                  \* Mutant
DebitsOf(b) == {i \in Stored("debit") : b \in ledger[i].bets}

WinRow(b, payout) ==
    [Row(Owner[b], payout, "win") EXCEPT
       !.bets = {b}, !.related = IF DebitsOf(b) = {} THEN 0 ELSE Min(DebitsOf(b))]

-----------------------------------------------------------------------------
(* Orders *)

PlaceBets(order) ==
    LET new   == [b \in order |-> NewBet(Asked[b].template, Asked[b].mode, Asked[b].value,
                                         Asked[b].amount, Asked[b].odds)]
        total == SumUp([b \in order |-> Asked[b].amount])
        user  == Owner[CHOOSE b \in order : TRUE]
    IN  /\ \A b \in order : /\ bets[b] = NoBet
                            /\ Asked[b].mode \notin declared
                            /\ ValidBet(Asked[b].template, "BOTH", Asked[b].mode, Asked[b].value)
        /\ Covers(user, total)
        /\ wallet' = Hold(user, total)
        /\ bets' = [b \in BetIds |-> IF b \in order THEN new[b] ELSE bets[b]]
        /\ ledger' = Append(ledger, DebitRow(user, total, order))
        /\ book' = AddedAll(book, new)
        /\ UNCHANGED <<version, declared, inflight, asked, settledStakes, overtaken>>

-----------------------------------------------------------------------------
(* Requests of the administration: the half that reads and checks *)

\* Equal requests under way are told apart by a number.
Ask(request) ==
    /\ asked < MaxRequests
    /\ Cardinality(inflight) < MaxInFlight
    /\ asked' = asked + 1
    /\ LET free == CHOOSE n \in 1 .. MaxRequests : [request EXCEPT !.nr = n] \notin inflight
       IN  inflight' = inflight \union {[request EXCEPT !.nr = free]}
    /\ UNCHANGED <<bets, version, wallet, ledger, book, declared, settledStakes, overtaken>>

\* A change of a bet carries the bet as it was read and as it is to be.
Change(b, next) ==
    [kind |-> "change", nr |-> 1, bet |-> b, was |-> bets[b],
     version |-> version[b], next |-> next]

AskEditBet(b) ==
    /\ bets[b].status = "pending"
    /\ \E amount \in Amounts :
         Ask(Change(b, EditedBet(bets[b], amount, bets[b].selection)))

\* An edit that names no amount keeps the stake of the line, if it has one.
Kept(bet, pana) == {LineStakes(bet)[p] : p \in {pana} \intersect DOMAIN LineStakes(bet)}

AskEditLine(b) ==
    /\ bets[b].status = "pending"
    /\ bets[b].template \in Motors
    /\ \E pana \in Range(bets[b].selection), to \in Panas :
       \E stake \in Amounts \union Kept(bets[b], pana) :
          /\ CanEditLine(bets[b], pana, to, stake)
          /\ Ask(Change(b, EditedLine(bets[b], pana, to, stake)))

Cancelled(bet) == [bet EXCEPT !.status = "cancelled", !.payout = 0]

AskDeleteBet(b) ==
    /\ bets[b].status = "pending"
    /\ Ask(Change(b, Cancelled(bets[b])))

\* Deleting the last line of a motor bet cancels the bet.
AskDeleteLine(b) ==
    /\ bets[b].status = "pending"
    /\ bets[b].template \in Motors
    /\ \E pana \in Range(bets[b].selection) :
         Ask(Change(b, IF Len(bets[b].selection) = 1 THEN Cancelled(bets[b])
                       ELSE LineRemoved(bets[b], pana)))

KeyUsed(user, key) ==
    \E i \in DOMAIN ledger : /\ ledger[i].user = user
                             /\ ledger[i].key = key
                             /\ ~ledger[i].deleted

\* A key that was used is answered with the stored adjustment, or refused.
AskAdjustFunds(f) ==
    /\ ~KeyUsed(f.user, f.key)
    /\ Ask([kind |-> "funds", nr |-> 1, row |-> FundsRow(f)])

AskDeleteTransaction(i) ==
    /\ ~ledger[i].deleted
    /\ Ask([kind |-> "unbook", nr |-> 1, at |-> i, row |-> ledger[i]])

-----------------------------------------------------------------------------
(* The half that writes *)

\* Saving a document writes the fields that differ from what was read.
Saved(bet, was, next) ==
    [f \in DOMAIN bet |-> IF next[f] # was[f] THEN next[f] ELSE bet[f]]

\* A list of panas that is replaced makes the save depend on the version.
ReplacesPanas(r) == r.was.template \in Motors /\ r.next.selection # r.was.selection

RemovesCurrent(r) ==                                            \* Mutant
    LET rest == Removed(book, bets[r.bet])
    IN  IF r.next.status = "pending" THEN Added(rest, r.next) ELSE rest
Rebooked(r) ==
    LET rest == Removed(book, r.was)
    IN  IF r.next.status = "pending" THEN Added(rest, r.next) ELSE rest

UnsignedRow(user, more) == Row(user, more, "change")              \* Mutant
EditRow(user, more) == Row(user, -more, "change")

\* What the schema asks of the amount of a bet that is saved.
Storable(bet) == bet.amount >= 1

CommitChange(r) ==
    LET more == Held(r.next) - Held(r.was)
        user == Owner[r.bet]
    IN  /\ more > 0 => Covers(user, more)
        /\ Storable(r.next)
        /\ ReplacesPanas(r) => version[r.bet] = r.version
        /\ wallet' = Hold(user, more)
        /\ bets' = [bets EXCEPT ![r.bet] = Saved(@, r.was, r.next)]
        /\ version' = [version EXCEPT ![r.bet] = @ + IF ReplacesPanas(r) THEN 1 ELSE 0]
        /\ book' = Rebooked(r)
        /\ ledger' = IF more = 0 THEN ledger ELSE Append(ledger, EditRow(user, more))
        /\ overtaken' = (overtaken \/ bets[r.bet] # r.was)
        /\ UNCHANGED settledStakes

KeyIgnored(row) == TRUE                                         \* Mutant
KeyFree(row) == ~KeyUsed(row.user, row.key)

CommitFunds(r) ==
    /\ r.row.amount < 0 => Covers(r.row.user, -r.row.amount)
    /\ KeyFree(r.row)
    /\ wallet' = [wallet EXCEPT ![r.row.user].balance = @ + r.row.amount]
    /\ ledger' = Append(ledger, r.row)
    /\ UNCHANGED <<bets, version, book, settledStakes, overtaken>>

\* The transaction is reversed by a row of its own, and deleted.
CommitUnbook(r) ==
    /\ Covers(r.row.user, r.row.amount)
    /\ wallet' = [wallet EXCEPT ![r.row.user].balance = @ - r.row.amount]
    /\ ledger' = Append([ledger EXCEPT ![r.at].deleted = TRUE],
                        Row(r.row.user, -r.row.amount, "reversal"))
    /\ overtaken' = (overtaken \/ ledger[r.at].deleted)
    /\ UNCHANGED <<bets, version, book, settledStakes>>

Commit(r) ==
    /\ CASE r.kind = "change" -> CommitChange(r)
         [] r.kind = "funds" -> CommitFunds(r)
         [] OTHER -> CommitUnbook(r)
    /\ inflight' = inflight \ {r}
    /\ UNCHANGED <<declared, asked>>

\* A guard in the database, a conflict or an error: nothing is written.
Abort(r) ==
    /\ inflight' = inflight \ {r}
    /\ UNCHANGED <<bets, version, wallet, ledger, book, declared, asked,
                   settledStakes, overtaken>>

-----------------------------------------------------------------------------
(* Settlement: a pass reads its bets, decides, and writes them in one transaction *)

Session == [m \in BetModes |-> IF m \in declared THEN Results[m] ELSE NoPana]

Declare(mode) ==
    /\ mode \notin declared
    /\ mode = "close" => "open" \in declared
    /\ declared' = declared \union {mode}
    /\ UNCHANGED <<bets, version, wallet, ledger, book, inflight, asked,
                   settledStakes, overtaken>>

PassOf(mode) == {r \in inflight : r.kind = "pass" /\ r.mode = mode}

ReadPass(mode) ==
    LET due == {b \in BetIds : bets[b].status = "pending" /\ InPass(bets[b], mode)}
    IN  /\ mode \in declared
        /\ PassOf(mode) = {}
        /\ due # {}
        /\ inflight' = inflight \union
             {[kind |-> "pass", mode |-> mode, was |-> [b \in due |-> bets[b]]]}
        /\ UNCHANGED <<bets, version, wallet, ledger, book, declared, asked,
                       settledStakes, overtaken>>

\* Bets are updated by their id: nothing looks at the status or the stake again.
CommitPass(r) ==
    LET due == DOMAIN r.was
        end == [b \in due |-> Settled(r.was[b], Session[r.mode], Session)]
        won == {b \in due : end[b].status = "won"}
        of(u, S) == {b \in S : Owner[b] = u}
        winners == SetToSeq(won)
    IN  /\ wallet' = [u \in Users |->
              [balance  |-> wallet[u].balance + SumUp([b \in of(u, won) |-> end[b].payout]),
               exposure |-> wallet[u].exposure - SumUp([b \in of(u, due) |-> end[b].amount])]]
        /\ bets' = [b \in BetIds |->
              IF b \in due THEN [bets[b] EXCEPT !.status = end[b].status, !.payout = end[b].payout]
              ELSE bets[b]]
        /\ ledger' = ledger \o [n \in DOMAIN winners |->
                                  WinRow(winners[n], end[winners[n]].payout)]
        /\ settledStakes' = settledStakes + SumUp([b \in due |-> end[b].amount])
        /\ overtaken' = (overtaken \/ \E b \in due : bets[b] # r.was[b])
        /\ inflight' = inflight \ {r}
        /\ UNCHANGED <<version, book, declared, asked>>

Next ==
    \/ \E order \in Orders : PlaceBets(order)
    \/ \E b \in BetIds : AskEditBet(b) \/ AskEditLine(b) \/ AskDeleteBet(b) \/ AskDeleteLine(b)
    \/ \E f \in FundsAsked : AskAdjustFunds(f)
    \/ \E i \in DOMAIN ledger : AskDeleteTransaction(i)
    \/ \E r \in {x \in inflight : x.kind # "pass"} : Commit(r) \/ Abort(r)
    \/ \E mode \in BetModes : Declare(mode) \/ ReadPass(mode)
    \/ \E r \in {x \in inflight : x.kind = "pass"} : CommitPass(r)

Spec == Init /\ [][Next]_vars

-----------------------------------------------------------------------------
(* Properties *)

Placed == {b \in BetIds : bets[b] # NoBet}

\* Types of the variables: no balance is below zero; of the exposure only that it is
\* an integer, since an edit that overtakes a settlement can leave it negative.
TypeOK ==
    /\ \A b \in Placed : bets[b].template \in Templates /\ bets[b].amount \in Nat \ {0}
    /\ version \in [BetIds -> Nat]
    /\ wallet \in [Users -> [balance : Nat, exposure : Int]]
    /\ \A i \in DOMAIN ledger : ledger[i].user \in Users /\ ledger[i].amount \in Int
    /\ declared \subseteq BetModes
    /\ settledStakes \in Nat
    /\ overtaken \in BOOLEAN

\* Whatever overtakes what, a balance is the opening balance and the amounts of
\* all transactions that were ever written for the user.
LedgerExplainsBalance ==
    \A u \in Users :
       wallet[u].balance
         = Funds + SumUp([i \in {j \in DOMAIN ledger : ledger[j].user = u} |-> ledger[i].amount])

\* Whatever overtakes what, the stakes the wallets hold and those the settlement
\* has released are the collections of the books.
CollectionMatchesExposure ==
    SumUp([u \in Users |-> wallet[u].exposure]) + settledStakes
      = SumUp([m \in BetModes |-> book[m].collection])

\* One idempotency key of a user adjusts the funds once, however often and
\* however concurrently it is sent.
AdjustedOnce ==
    \A i, j \in DOMAIN ledger :
       ~(/\ i # j
         /\ ledger[i].key # NoKey
         /\ ~ledger[i].deleted /\ ~ledger[j].deleted
         /\ <<ledger[i].user, ledger[i].key>> = <<ledger[j].user, ledger[j].key>>)

\* The payouts the pass of a mode would make, if the pana were its result.
PassPayout(mode, pana) ==
    LET after == [Session EXCEPT ![mode] = pana]
    IN  SumUp([b \in {c \in BetIds : bets[c].status = "pending" /\ InPass(bets[c], mode)} |->
                 Settled(bets[b], pana, after).payout])

\* As long as no request has been overtaken, the wallets hold exactly the stakes
\* of the pending bets, the books are those of the bets that are not cancelled
\* and price every pana that can be a result as its pass would pay it, and the
\* stakes of the lines of a motor bet sum to its amount.
BetsAgree ==
    /\ \A u \in Users :
         wallet[u].exposure = SumUp([b \in {c \in BetIds : Owner[c] = u} |-> Held(bets[b])])
    /\ book = AddedAll([m \in BetModes |-> NoBook],
                       Restrict(bets, {b \in Placed : bets[b].status # "cancelled"}))
    /\ \A mode \in BetModes \ declared,
          pana \in {p \in Panas \union {Results[m] : m \in BetModes} : IsPana(p)} :
         OutcomePayout(book[mode].at, pana, mode, Session["open"]) = PassPayout(mode, pana)
    /\ \A b \in Placed : DOMAIN bets[b].stakes # {} => SumUp(bets[b].stakes) = bets[b].amount

AgreesUnlessOvertaken == ~overtaken => BetsAgree
=============================================================================

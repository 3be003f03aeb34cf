------------------------------ MODULE GameRound ------------------------------
(***************************************************************************)
(* One session of a market as the rules see it: the panas of a motor game  *)
(* are generated, bets are placed and edited, the book of the session is   *)
(* kept beside them, two results are declared and the bets are settled.    *)
(* Each operation is one step here: what happens when they overlap is      *)
(* BetDesk's and Settlement's subject, what they compute is this module's. *)
(***************************************************************************)
EXTENDS GameRules

CONSTANTS
    Requests,       \* bets asked for: [template, mode, value, amount]
    MotorChoices,   \* games asked for: [template, digits]
    Amounts,        \* stakes a bet or a line is edited to
    Draws,          \* panas declared, as they are typed in
    Odds,           \* the payout of a unit stake, per template
    MinimumBid, MaximumBid,
    BatchFactor, MaxBatch, MaxLoops,  \* how much of a history a page reads
    MaxBets,        \* bound: bets of the session
    MaxEdits        \* bound: edits of bets by the administration

VARIABLES
    motor,          \* the last answer of the motor endpoint
    bets,
    edits,
    session,        \* the pana declared for each mode
    settled,        \* the passes that have run
    book            \* the session exposure stored for each mode

vars == <<motor, bets, edits, session, settled, book>>

ASSUME RoundAssumption ==
    /\ \A r \in Requests : r.template \in Templates /\ r.mode \in BetModes
    /\ MaxBets \in Nat /\ MaxEdits \in Nat
    /\ BatchFactor \in Nat \ {0} /\ MaxBatch \in Nat \ {0} /\ MaxLoops \in Nat \ {0}

NoMotor == [template |-> "none", digits |-> <<>>, panas |-> <<>>]

Init ==
    /\ motor = NoMotor
    /\ bets = <<>>
    /\ edits = 0
    /\ session = [m \in BetModes |-> NoPana]
    /\ settled = {}
    /\ book = [m \in BetModes |-> NoBook]

\* Bound: one motor game is generated, before the bets.
GenerateMotor(choice) ==
    /\ motor = NoMotor /\ bets = <<>>
    /\ MotorDigitsAllowed(choice.digits)
    /\ motor' = [template |-> choice.template, digits |-> choice.digits,
                 panas |-> Combinations(choice.template, choice.digits)]
    /\ UNCHANGED <<bets, edits, session, settled, book>>

-----------------------------------------------------------------------------
(* Placing and editing: the bet and the book are written together *)

BettingOpen(mode) == session[mode] = NoPana

WithinBidLimits(amount) == MinimumBid <= amount /\ amount <= MaximumBid

Place(r, value) ==
    /\ Len(bets) < MaxBets
    /\ BettingOpen(r.mode)
    /\ ValidBet(r.template, "BOTH", r.mode, value)
    /\ WithinBidLimits(r.amount)
    /\ LET bet == NewBet(r.template, r.mode, value, r.amount, Odds[r.template])
       IN  /\ bets' = Append(bets, bet)
           /\ book' = Added(book, bet)
    /\ UNCHANGED <<motor, edits, session, settled>>

PlaceRequest ==
    \E r \in Requests : Place(r, r.value)

PlaceMotor ==
    /\ motor # NoMotor
    /\ \E mode \in BetModes, amount \in Amounts :
         Place([template |-> motor.template, mode |-> mode, amount |-> amount], <<motor.panas>>)

\* The common end of the edits: the book loses the old bet and gains the new one.
Replace(i, bet) ==
    /\ edits < MaxEdits
    /\ bets[i].status = "pending"
    /\ bets' = [bets EXCEPT ![i] = bet]
    /\ edits' = edits + 1
    /\ book' = Added(Removed(book, bets[i]), bet)
    /\ UNCHANGED <<motor, session, settled>>

EditBet(i) ==
    \E amount \in Amounts, r \in Requests :
       /\ bets[i].template \in Motors \/ r.template = bets[i].template
       /\ Replace(i, EditedBet(bets[i], amount, r.value))

EditLine(i) ==
    \E pana \in Range(bets[i].selection), to \in {Canonical(d) : d \in Draws}, stake \in Amounts :
       /\ CanEditLine(bets[i], pana, to, stake)
       /\ Replace(i, EditedLine(bets[i], pana, to, stake))

RemoveLine(i) ==
    \E pana \in Range(bets[i].selection) :
       /\ bets[i].template \in Motors
       /\ Len(bets[i].selection) > 1
       /\ Replace(i, LineRemoved(bets[i], pana))

DeleteBet(i) ==
    /\ edits < MaxEdits
    /\ bets[i].status = "pending"
    /\ bets' = [bets EXCEPT ![i].status = "cancelled", ![i].payout = 0]
    /\ edits' = edits + 1
    /\ book' = Removed(book, bets[i])
    /\ UNCHANGED <<motor, session, settled>>

-----------------------------------------------------------------------------
(* Results *)

Declare(mode, pana) ==
    /\ session[mode] = NoPana
    /\ mode = "close" => session["open"] # NoPana
    /\ IsPana(pana)
    /\ session' = [session EXCEPT ![mode] = Canonical(pana)]
    /\ UNCHANGED <<motor, bets, edits, settled, book>>

Settle(mode) ==
    /\ session[mode] # NoPana
    /\ mode \notin settled
    /\ bets' = [i \in DOMAIN bets |->
                  IF bets[i].status = "pending" /\ InPass(bets[i], mode)
                  THEN Settled(bets[i], session[mode], session) ELSE bets[i]]
    /\ settled' = settled \union {mode}
    /\ UNCHANGED <<motor, edits, session, book>>

Next ==
    \/ \E choice \in MotorChoices : GenerateMotor(choice)
    \/ PlaceRequest
    \/ PlaceMotor
    \/ \E i \in DOMAIN bets : EditBet(i) \/ EditLine(i) \/ RemoveLine(i) \/ DeleteBet(i)
    \/ \E mode \in BetModes, pana \in Draws : Declare(mode, pana)
    \/ \E mode \in BetModes : Settle(mode)

Spec == Init /\ [][Next]_vars

-----------------------------------------------------------------------------
(* The history of the user whose bets these are, the newest first *)

HistoryBets == SelectSeq(Reverse(bets), LAMBDA b : b.status # "cancelled")

RowsOf(stored) == FlattenSeq([i \in DOMAIN stored |-> HistoryRows(stored[i], session)])

Smaller(a, b) == IF a < b THEN a ELSE b

\* A page is cut after the motor bets have been expanded: batches of stored
\* bets are read until there are rows enough, no bets are left, or MaxLoops.
RowsRead(page, limit) ==
    LET size      == Smaller(limit * BatchFactor, MaxBatch)
        read(n)   == RowsOf(SubSeq(HistoryBets, 1, Smaller(n * size, Len(HistoryBets))))
        stops(n)  == \/ n = MaxLoops
                     \/ Len(read(n)) >= page * limit
                     \/ n * size > Len(HistoryBets)
    IN  read(CHOOSE n \in 1 .. MaxLoops : stops(n) /\ \A k \in 1 .. n - 1 : ~stops(k))

HistoryPage(page, limit) ==
    LET rows == RowsRead(page, limit)
    IN  [items |-> SubSeq(rows, (page - 1) * limit + 1, Smaller(page * limit, Len(rows))),
         total |-> Len(HistoryBets)]

-----------------------------------------------------------------------------
(* Properties *)

Live == {i \in DOMAIN bets : bets[i].status # "cancelled"}
PendingOf(mode) == {i \in DOMAIN bets : bets[i].status = "pending" /\ InPass(bets[i], mode)}

\* What simulateResults reports for an outcome: from the book, or from the
\* sums of the pending bets when no book is stored.
Forecast(mode, pana) ==
    IF book[mode] # NoBook THEN OutcomePayout(book[mode].at, pana, mode, session["open"])
    ELSE LET pending == {bets[i] : i \in {j \in DOMAIN bets :
                           bets[j].status = "pending" /\ bets[j].mode = mode}}
         IN  SimulatedPayout(ExposureFromSummary(SummaryOf(pending)), pana)

\* The payouts the pass of a mode would make if the pana were declared.
PassPayout(mode, pana) ==
    LET after == [session EXCEPT ![mode] = pana]
    IN  SumUp([i \in PendingOf(mode) |-> Settled(bets[i], pana, after).payout])

\* As long as a result is open, the profit the simulation promises for every
\* outcome is the profit the settlement of that outcome makes.
BookPricesOutcomes ==
    \A mode \in BetModes : (session[mode] = NoPana) =>
        /\ \A pana \in Outcomes(UNION {Range(d) : d \in Draws}) :
             Forecast(mode, pana) = PassPayout(mode, pana)
        /\ book[mode].collection = SumUp([i \in PendingOf(mode) |-> bets[i].amount])

\* The winners previewed for a result are those its pass then pays, with the
\* payout of the rows shown, in whatever order the digits are typed.
PreviewMatchesSettlement ==
    \A mode \in BetModes, typed \in Draws :
       LET after == [session EXCEPT ![mode] = Canonical(typed)]
           pays(i) == Settled(bets[i], Canonical(typed), after).payout
       IN  (session[mode] = NoPana /\ (mode = "close" => session["open"] # NoPana)) =>
             \A i \in {j \in DOMAIN bets : bets[j].status = "pending"} :
                LET shown == IF PreviewWins(bets[i], mode, typed, session)
                             THEN WinnerRows(bets[i], typed) ELSE {}
                IN  SumUp([row \in shown |-> row.payout])
                      = IF InPass(bets[i], mode) THEN pays(i) ELSE 0

\* The panas of a motor game are all canonical panas of its kind over the
\* chosen digits, each once, in the order of the lists, and each can be bet on.
CombosComplete ==
    motor # NoMotor =>
       LET kind == IF motor.template = "SP_MOTOR" THEN "single" ELSE "double"
       IN  /\ Range(motor.panas) = {p \in Outcomes(Range(motor.digits)) : PanaKind(p) = kind}
           /\ \A i, j \in DOMAIN motor.panas : i < j => Before(motor.panas[i], motor.panas[j])
           /\ ValidBet(motor.template, "BOTH", "open", <<motor.panas>>)

\* The rows a user sees add up: to the stakes of the live bets, and once the
\* bets are settled to what was credited.  A page of the history is a full cut of
\* the rows of all live bets, the newest bet first, whatever its size, as long
\* as the bets are within what a page reads: no row is missed or shown twice.
HistoryAddsUp ==
    /\ \A i \in Live :
         LET rows == HistoryRows(bets[i], session)
         IN  /\ SumUp([k \in DOMAIN rows |-> rows[k].amount]) = bets[i].amount
             /\ SumUp([k \in DOMAIN rows |-> rows[k].payout]) = bets[i].payout
    /\ \A limit \in 1 .. 3 :
         Len(HistoryBets) <= MaxLoops * Smaller(limit * BatchFactor, MaxBatch) =>
            LET all == RowsOf(HistoryBets)
            IN  \A page \in 1 .. Len(all) :
                  HistoryPage(page, limit).items
                    = SubSeq(all, (page - 1) * limit + 1, Smaller(page * limit, Len(all)))
=============================================================================

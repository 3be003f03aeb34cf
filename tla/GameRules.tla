------------------------------ MODULE GameRules ------------------------------
(***************************************************************************)
(* The rules of the games, as functions of a bet and a result: panas and   *)
(* their canonical form, the templates of the game types, the combinations *)
(* of the motor games, what wins and what it pays, and the exposure a bet  *)
(* adds to the book of its session.                                        *)
(*                                                                         *)
(* A pana is a sequence of three digits, a selection a sequence of parts,  *)
(* each a sequence of digits: the separators of the code are its commas.   *)
(***************************************************************************)
EXTENDS Integers, Sequences, FiniteSets, SequencesExt, FiniteSetsExt, Functions

Digits == 0 .. 9
NoPana == <<>>
NoStake == 0
BetModes == {"open", "close"}

SumUp(f) == FoldFunctionOnSet(LAMBDA a, b : a + b, 0, f, DOMAIN f)

-----------------------------------------------------------------------------
(* Panas: the zero is the highest digit *)

Rank(d) == IF d = 0 THEN 10 ELSE d

\* At each place stands the digit with fewer lower digits than the place says.
SortDigits(digits) ==
    LET upTo(r) == Cardinality({i \in DOMAIN digits : Rank(digits[i]) <= r})
    IN  [i \in DOMAIN digits |->
           CHOOSE d \in Range(digits) : upTo(Rank(d) - 1) < i /\ i <= upTo(Rank(d))]

IsPana(part) == Len(part) = 3

Canonical(part) == IF IsPana(part) THEN SortDigits(part) ELSE part

CanonicalSelection(selection) == [i \in DOMAIN selection |-> Canonical(selection[i])]

Zeros(pana) == Cardinality({i \in DOMAIN pana : pana[i] = 0})

\* The order of the panas in lists: those with fewer zeros first.
Before(left, right) ==
    LET p == Canonical(left)
        q == Canonical(right)
    IN  \/ Zeros(p) < Zeros(q)
        \/ /\ Zeros(p) = Zeros(q)
           /\ \E i \in 1 .. 3 : /\ Rank(p[i]) < Rank(q[i])
                                /\ \A j \in 1 .. i - 1 : p[j] = q[j]

DigitOf(pana) == (pana[1] + pana[2] + pana[3]) % 10

PanaKind(pana) ==
    <<"triple", "double", "single">>[Cardinality(Range(pana))]

\* Every outcome of a draw over some of the digits.
Outcomes(digits) ==
    {SortDigits(p) : p \in {<<i, j, k>> : i, j, k \in digits}}

-----------------------------------------------------------------------------
(* Motor games: all panas of one kind over a set of digits *)

PairsOnly(digits) ==                                            \* Mutant
    {<<digits[i], digits[i + 1], digits[k]>> :
        i \in 1 .. Len(digits) - 2, k \in 3 .. Len(digits)}
SpMotor(digits) ==
    {<<digits[t[1]], digits[t[2]], digits[t[3]]>> :
        t \in {u \in (1 .. Len(digits)) \X (1 .. Len(digits)) \X (1 .. Len(digits)) :
                 u[1] < u[2] /\ u[2] < u[3]}}

DpMotor(digits) ==
    {SortDigits(<<digits[t[1]], digits[t[1]], digits[t[2]]>>) :
        t \in {u \in (1 .. Len(digits)) \X (1 .. Len(digits)) : u[1] # u[2]}}

MotorDigitsAllowed(digits) ==
    /\ Len(digits) \in 3 .. 10
    /\ Range(digits) \subseteq Digits
    /\ IsInjective(digits)

NormalizeDigits(digits) == SortDigits(digits)

InOrder(panas) ==
    [i \in 1 .. Cardinality(panas) |->
       CHOOSE p \in panas : Cardinality({q \in panas : Before(q, p)}) = i - 1]

Combinations(template, digits) ==
    LET sorted == NormalizeDigits(digits)
        panas  == IF template = "SP_MOTOR" THEN SpMotor(sorted) ELSE DpMotor(sorted)
    IN  InOrder(panas)

-----------------------------------------------------------------------------
(* Templates: the parts a bet of the game consists of, and its modes *)

Part(type, length, kind) == [type |-> type, length |-> length, kind |-> kind]
DigitPart(n) == Part("digit", n, "any")
PanaPart(kind) == Part("pana", 3, kind)
PanasPart(kind) == Part("pana_set", 3, kind)

RULE_TEMPLATES ==
    [SINGLE_DIGIT  |-> <<DigitPart(1)>>,
     JODI          |-> <<DigitPart(2)>>,
     SINGLE_PANA   |-> <<PanaPart("single")>>,
     DOUBLE_PANA   |-> <<PanaPart("double")>>,
     TRIPLE_PANA   |-> <<PanaPart("triple")>>,
     HALF_SANGAM_A |-> <<PanaPart("any"), DigitPart(1)>>,
     HALF_SANGAM_B |-> <<DigitPart(1), PanaPart("any")>>,
     FULL_SANGAM   |-> <<PanaPart("any"), PanaPart("any")>>,
     SP_MOTOR      |-> <<PanasPart("single")>>,
     DP_MOTOR      |-> <<PanasPart("double")>>]

Templates == DOMAIN RULE_TEMPLATES
Motors == {"SP_MOTOR", "DP_MOTOR"}
Combined == {"JODI", "HALF_SANGAM_A", "HALF_SANGAM_B", "FULL_SANGAM"}

AllowedBetModes(template) == IF template \in Combined THEN {"open"} ELSE BetModes

PhaseAllows(phaseType, mode) ==
    CASE phaseType = "OPEN_ONLY" -> mode = "open"
      [] phaseType = "CLOSE_ONLY" -> mode = "close"
      [] OTHER -> TRUE

ValidPana(pana, kind) ==
    /\ IsPana(pana)
    /\ kind = "any" \/ PanaKind(Canonical(pana)) = kind

ValidPanaSet(panas, kind) ==
    /\ Len(panas) >= 1
    /\ \A i \in DOMAIN panas : ValidPana(panas[i], kind) /\ Canonical(panas[i]) = panas[i]
    /\ IsInjective(panas)

ValidPart(part, v) ==
    CASE part.type = "digit" -> Len(v) = part.length
      [] part.type = "pana" -> ValidPana(v, part.kind)
      [] OTHER -> ValidPanaSet(v, part.kind)

ValidBet(template, phaseType, mode, value) ==
    /\ mode \in AllowedBetModes(template)
    /\ PhaseAllows(phaseType, mode)
    /\ DOMAIN value = DOMAIN RULE_TEMPLATES[template]
    /\ \A i \in DOMAIN value : ValidPart(RULE_TEMPLATES[template][i], value[i])

\* What is stored: a motor bet has a part for each of its panas.
Selection(template, value) ==
    IF template \in Motors THEN value[1] ELSE CanonicalSelection(value)

-----------------------------------------------------------------------------
(* The stake of a bet, or of one pana of a motor bet *)

RowStake(bet) == IF bet.per # NoStake THEN bet.per ELSE bet.amount \div Len(bet.selection)

LineStake(bet, pana) ==
    IF pana \in DOMAIN bet.stakes THEN bet.stakes[pana] ELSE RowStake(bet)

NewBet(template, mode, value, amount, odds) ==
    LET selection == Selection(template, value)
    IN  [template |-> template, mode |-> mode, selection |-> selection,
         amount |-> amount, odds |-> odds, stakes |-> <<>>,
         status |-> "pending", payout |-> 0,
         per |-> IF template \in Motors THEN amount \div Len(selection) ELSE NoStake]

\* An edited bet: of a motor bet only the amount, shared evenly again.
EditedBet(bet, amount, value) ==
    IF bet.template \in Motors
    THEN [bet EXCEPT !.amount = amount, !.stakes = <<>>,
                     !.per = amount \div Len(bet.selection)]
    ELSE [bet EXCEPT !.amount = amount, !.selection = CanonicalSelection(value)]

\* The stakes of the lines, shared evenly as long as no line was edited.
LineStakes(bet) ==
    IF DOMAIN bet.stakes = {} THEN [p \in Range(bet.selection) |-> LineStake(bet, p)]
    ELSE bet.stakes

CanEditLine(bet, pana, to, stake) ==
    /\ bet.template \in Motors
    /\ pana \in Range(bet.selection)
    /\ to = pana \/ to \notin Range(bet.selection)
    /\ stake > 0
    /\ \A p \in Range(bet.selection) \ {pana} :
          p \in DOMAIN LineStakes(bet) /\ LineStakes(bet)[p] > 0

Moved(selection, pana, to) ==
    [i \in DOMAIN selection |-> IF selection[i] = pana THEN to ELSE selection[i]]

\* From its first edited line on, a motor bet has a stake for each pana.
EditedLine(bet, pana, to, stake) ==
    LET selection == Moved(bet.selection, pana, to)
        stakes    == [p \in (DOMAIN LineStakes(bet) \ {pana}) \union {to} |->
                        IF p = to THEN stake ELSE LineStakes(bet)[p]]
    IN  [bet EXCEPT !.selection = selection, !.stakes = stakes, !.per = NoStake,
                    !.amount = SumUp([p \in Range(selection) |-> stakes[p]])]

\* The panas of a selection are distinct.
Without(selection, pana) ==
    RemoveAt(selection, CHOOSE i \in DOMAIN selection : selection[i] = pana)

StakeLeftBehind(bet, pana) ==                                   \* Mutant
    [bet EXCEPT !.selection = Without(@, pana),
                !.amount = @ - LineStake(bet, pana)]
LineRemoved(bet, pana) ==
    LET selection == Without(bet.selection, pana)
        amount    == bet.amount - LineStake(bet, pana)
        even      == DOMAIN bet.stakes = {}
    IN  [bet EXCEPT !.selection = selection, !.amount = amount,
                    !.stakes = Restrict(@, DOMAIN @ \ {pana}),
                    !.per = IF even THEN amount \div Len(selection) ELSE NoStake]

-----------------------------------------------------------------------------
(* Winning and payout, given the panas of the session drawn so far *)

IsDrawn(session, mode) == session[mode] # NoPana

\* A sangam bet is compared with all three forms, whichever game it is of.
SangamResults(session) ==
    {<<session["open"], <<DigitOf(session["close"])>> >>,
     <<<<DigitOf(session["open"])>>, session["close"]>>,
     <<session["open"], session["close"]>>}

WinsOn(bet, pana) ==
    /\ pana # NoPana
    /\ IF bet.template \in Motors THEN pana \in Range(bet.selection)
       ELSE bet.selection \in {<< <<DigitOf(pana)>> >>, <<pana>>}

IsWinningBet(bet, pana, session) ==
    IF bet.template \in Combined
    THEN /\ IsDrawn(session, "open")
         /\ IsDrawn(session, "close")
         /\ IF bet.template = "JODI"
            THEN bet.selection = << <<DigitOf(session["open"]), DigitOf(session["close"])>> >>
            ELSE bet.selection \in SangamResults(session)
    ELSE WinsOn(bet, pana)

CalculatePayout(bet, pana) ==
    bet.odds * (IF bet.template \in Motors /\ pana # NoPana THEN LineStake(bet, pana)
                ELSE IF bet.per # NoStake THEN bet.per ELSE bet.amount)

\* Open bets on both results wait for the close pass.
InPass(bet, mode) ==
    IF mode = "open" THEN bet.mode = "open" /\ bet.template \notin Combined
    ELSE bet.mode = "close" \/ bet.template \in Combined

Settled(bet, pana, session) ==
    IF IsWinningBet(bet, pana, session)
    THEN [bet EXCEPT !.status = "won", !.payout = CalculatePayout(bet, pana)]
    ELSE [bet EXCEPT !.status = "lost", !.payout = 0]

-----------------------------------------------------------------------------
(* Exposure: what each outcome would cost, kept by key *)

\* Amounts of zero are not kept.
Normalized(at) == Restrict(at, {k \in DOMAIN at : at[k] # 0})

AmountAt(at, k) == IF k \in DOMAIN at THEN at[k] ELSE 0

PlusAt(f, g) ==
    Normalized([k \in DOMAIN f \union DOMAIN g |-> AmountAt(f, k) + AmountAt(g, k)])

Negated(f) == [k \in DOMAIN f |-> -f[k]]

KeyType ==
    [SINGLE_DIGIT |-> "single", JODI |-> "jodi", SINGLE_PANA |-> "pana",
     DOUBLE_PANA |-> "pana", TRIPLE_PANA |-> "pana", HALF_SANGAM_A |-> "HS_A",
     HALF_SANGAM_B |-> "HS_B", FULL_SANGAM |-> "FS"]

BetModeOnly(bet) == bet.mode                                    \* Mutant
ExposureMode(bet) == IF bet.template \in Combined THEN "close" ELSE bet.mode

GenerateFromBet(bet) ==
    [mode       |-> ExposureMode(bet),
     collection |-> bet.amount,
     at         |-> IF bet.template \in Motors
                    THEN [k \in {<<"pana", <<p>> >> : p \in Range(bet.selection)} |->
                            bet.odds * LineStake(bet, k[2][1])]
                    ELSE [k \in {<<KeyType[bet.template], bet.selection>>} |->
                            bet.odds * bet.amount]]

NoBook == [collection |-> 0, at |-> <<>>]

ApplyDelta(old, delta) ==
    [collection |-> old.collection + delta.collection, at |-> PlusAt(old.at, delta.at)]

Added(oldBook, bet) ==
    LET delta == GenerateFromBet(bet)
    IN  [oldBook EXCEPT ![delta.mode] = ApplyDelta(@, delta)]

Removed(oldBook, bet) ==
    LET delta == GenerateFromBet(bet)
    IN  [oldBook EXCEPT ![delta.mode] =
            ApplyDelta(@, [collection |-> -delta.collection, at |-> Negated(delta.at)])]

\* The book to which several bets are added, one after the other.
AddedAll(oldBook, bets) ==
    FoldSet(LAMBDA b, acc : Added(acc, bets[b]), oldBook, DOMAIN bets)

\* The keys an outcome would pay, given the open pana that is already drawn.
CompositeKeys(pana, open) ==
    {<<"jodi", << <<DigitOf(open), DigitOf(pana)>> >> >>,
     <<"HS_A", <<open, <<DigitOf(pana)>> >> >>,
     <<"HS_B", <<<<DigitOf(open)>>, pana>> >>,
     <<"FS", <<open, pana>> >>}

OutcomeKeys(pana, mode, open) ==
    {<<"single", << <<DigitOf(pana)>> >> >>, <<"pana", <<pana>> >>}
      \union (IF mode = "close" /\ open # NoPana THEN CompositeKeys(pana, open) ELSE {})

OutcomePayout(at, pana, mode, open) ==
    SumUp(Restrict(at, OutcomeKeys(pana, mode, open) \intersect DOMAIN at))

\* Without a stored book: the payouts of the bets, summed by selection, of
\* which the digits and the panas are used.
SummaryOf(bets) ==
    [s \in {b.selection : b \in bets} |->
       SumUp([b \in {c \in bets : c.selection = s} |-> b.amount * b.odds])]

ExposureFromSummary(summary) ==
    Restrict(summary, {s \in DOMAIN summary : Len(s) = 1 /\ Len(s[1]) \in {1, 3}})

SimulatedPayout(exposure, pana) ==
    SumUp(Restrict(exposure, {<< <<DigitOf(pana)>> >>, <<pana>>} \intersect DOMAIN exposure))

-----------------------------------------------------------------------------
(* Previews and rows *)

StalePreviewSession(session, pana) == session                   \* Mutant
ClosePreviewSession(session, pana) == [session EXCEPT !["close"] = Canonical(pana)]

CombinedPreviewWins(bet, pana, session) ==
    /\ IsDrawn(session, "open")
    /\ IsWinningBet(bet, NoPana, ClosePreviewSession(session, pana))

\* The bets a preview counts as winners of a pana not declared yet.
PreviewWins(bet, mode, pana, session) ==
    IF mode = "close" /\ bet.template \in Combined
    THEN CombinedPreviewWins(bet, pana, session)
    ELSE bet.mode = mode /\ IsWinningBet(bet, Canonical(pana), session)

WinnerRows(bet, pana) ==
    IF bet.template \in Motors
    THEN {[selection |-> <<p>>, payout |-> LineStake(bet, p) * bet.odds] :
             p \in {q \in Range(bet.selection) : q = Canonical(pana)}}
    ELSE {[selection |-> bet.selection, payout |-> CalculatePayout(bet, pana)]}

\* The rows of the history of a user: one for each pana of a motor bet.
OpenResultRow(bet, pana, session) ==                            \* Mutant
    LET hit == session["open"] = pana
    IN  [selection |-> <<pana>>, amount |-> LineStake(bet, pana),
         status |-> bet.status, payout |-> IF hit THEN bet.payout ELSE 0]
HistoryRow(bet, pana, session) ==
    LET hit == session[bet.mode] = pana
    IN  [selection |-> <<pana>>,
         amount    |-> LineStake(bet, pana),
         status    |-> IF bet.status = "won" /\ ~hit THEN "lost" ELSE bet.status,
         payout    |-> IF bet.status = "won" /\ ~hit THEN 0 ELSE bet.payout]

HistoryRows(bet, session) ==
    CASE bet.status = "cancelled" -> <<>>
      [] bet.template \in Motors ->
            [k \in DOMAIN bet.selection |-> HistoryRow(bet, bet.selection[k], session)]
      [] OTHER ->
            <<[selection |-> bet.selection, amount |-> bet.amount,
               status |-> bet.status, payout |-> bet.payout]>>
=============================================================================

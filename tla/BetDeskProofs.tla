--------------------------- MODULE BetDeskProofs ---------------------------
(***************************************************************************)
(* Theorems about BetDesk and Reports.  Whatever requests and settlement   *)
(* passes overtake each other, balances are explained by the ledger, the   *)
(* stakes held and released are the collections of the books, and a key    *)
(* adjusts the funds once.  As long as none has overtaken another, books   *)
(* and exposures also are those of the stored bets, the history of a user  *)
(* shows his wins once, and the reports explain their profit.              *)
(***************************************************************************)
EXTENDS Reports, SumLemmas, SequenceTheorems

-----------------------------------------------------------------------------
(* What bets, rows and requests are like *)

Keys == {NoKey} \union {f.key : f \in FundsAsked}

Rows == [user : Users, amount : Int, bets : SUBSET BetIds, related : Nat,
         kind : {"debit", "funds", "win", "change", "reversal"},
         key : Keys, deleted : BOOLEAN]

Fields == {"template", "mode", "selection", "amount", "odds", "stakes", "status",
           "payout", "per"}

\* A bet that can be stored under an id: template, mode and odds are those asked
\* for; stakes are not negative, and a motor bet has a pana to divide them by.
BetOK(b, bet) ==
    /\ DOMAIN bet = Fields
    /\ bet.template = Asked[b].template
    /\ bet.mode = Asked[b].mode
    /\ bet.odds = Asked[b].odds
    /\ bet.status \in {"pending", "won", "lost", "cancelled"}
    /\ bet.amount \in Nat \ {0}
    /\ bet.payout \in Nat
    /\ bet.per \in Nat
    /\ \A p \in DOMAIN bet.stakes : bet.stakes[p] \in Nat
    /\ bet.template \in Motors =>
          bet.selection \in Seq(Seq(Digits)) /\ bet.selection # <<>>

BetsOK ==
    /\ bets = [b \in BetIds |-> bets[b]]
    /\ \A b \in BetIds : bets[b] = NoBet \/ BetOK(b, bets[b])

PendingOK(b, bet) == BetOK(b, bet) /\ bet.status = "pending"

\* What a request carries: a change that the schema refuses may be anything.
ChangeOK(r) ==
    /\ r.bet \in BetIds
    /\ bets[r.bet] # NoBet
    /\ PendingOK(r.bet, r.was)
    /\ r.next.amount \in Int
    /\ Storable(r.next) => BetOK(r.bet, r.next) /\ r.next.status \in {"pending", "cancelled"}

PassOK(r) ==
    /\ DOMAIN r.was \in SUBSET BetIds
    /\ \A b \in DOMAIN r.was : bets[b] # NoBet /\ PendingOK(b, r.was[b])

RequestOK(r) ==
    \/ r.kind = "change" /\ ChangeOK(r)
    \/ r.kind = "funds" /\ r.row \in Rows
    \/ r.kind = "unbook" /\ r.row \in Rows /\ r.at \in DOMAIN ledger
    \/ r.kind = "pass" /\ PassOK(r)

BookOK(b) ==
    /\ DOMAIN b = BetModes
    /\ \A m \in BetModes : b[m].collection \in Int

DeskOK ==
    /\ TypeOK
    /\ BetsOK
    /\ ledger \in Seq(Rows)
    /\ \A r \in inflight : RequestOK(r)
    /\ BookOK(book)

DeskInv ==
    /\ DeskOK
    /\ LedgerExplainsBalance
    /\ CollectionMatchesExposure
    /\ AdjustedOnce

-----------------------------------------------------------------------------
(* Sums *)

LEMMA SumUpIsSum == ASSUME NEW f PROVE SumUp(f) = SumFunctionOnSet(f, DOMAIN f)
BY Zenon DEF SumUp, SumFunctionOnSet, FoldFunctionOnSet, MapThenFoldSet

\* A sum of what a function is on a set is a sum of the function.
LEMMA SumUpOf ==
    ASSUME NEW S, NEW f, NEW g, Summable(f, S), DOMAIN g = S, Agree(f, g, S)
    PROVE  SumUp(g) = SumFunctionOnSet(f, S) /\ SumUp(g) \in Int
<1>1. SumFunctionOnSet(g, S) = SumFunctionOnSet(f, S) /\ SumFunctionOnSet(f, S) \in Int
    BY SumSame, SumType
<1> QED BY <1>1, SumUpIsSum

-----------------------------------------------------------------------------
(* Books *)

BookTotal(b) == b["open"].collection + b["close"].collection

LEMMA BookSum ==
    ASSUME NEW b, BookOK(b)
    PROVE  SumUp([m \in BetModes |-> b[m].collection]) = BookTotal(b)
<1> PICK f : f = [m \in BetModes |-> b[m].collection]
    OBVIOUS
<1>1. BetModes = {"close"} \union {"open"} /\ "close" # "open"
    BY DEF BetModes
<1>2. /\ f["open"] = b["open"].collection /\ f["close"] = b["close"].collection
      /\ b["open"].collection \in Int /\ b["close"].collection \in Int
    BY DEF BookOK, BetModes
<1>3. IsFiniteSet({}) /\ IsFiniteSet({"close"}) /\ IsFiniteSet({"close"} \union {"open"})
    BY FS_EmptySet, FS_AddElement, FS_Singleton
<1>4. Summable(f, {"close"} \union {"open"}) /\ Summable(f, {} \union {"close"})
    BY <1>2, <1>3 DEF Summable
<1>5. SumFunctionOnSet(f, {"close"} \union {"open"})
        = SumFunctionOnSet(f, {"close"}) + f["open"]
    BY <1>1, <1>4, SumAdd
<1>6. SumFunctionOnSet(f, {} \union {"close"}) = SumFunctionOnSet(f, {}) + f["close"]
    BY <1>4, SumAdd
<1>7. SumFunctionOnSet(f, {}) = 0 /\ {} \union {"close"} = {"close"}
    BY SumEmpty
<1>8. SumUp(f) = SumFunctionOnSet(f, {"close"} \union {"open"})
    BY <1>1, SumUpIsSum
<1> QED BY <1>2, <1>5, <1>6, <1>7, <1>8 DEF BookTotal

LEMMA ExposureModeType ==
    ASSUME NEW bet, bet.mode \in BetModes PROVE ExposureMode(bet) \in BetModes
BY DEF ExposureMode, BetModes

\* Adding a bet to a book adds its stake to what the book has collected.
LEMMA AddedTotal ==
    ASSUME NEW b, BookOK(b), NEW bet, bet.mode \in BetModes, bet.amount \in Int
    PROVE  BookOK(Added(b, bet)) /\ BookTotal(Added(b, bet)) = BookTotal(b) + bet.amount
<1> PICK m : m = ExposureMode(bet)
    OBVIOUS
<1>1. m \in {"open", "close"} /\ DOMAIN b = {"open", "close"}
    BY ExposureModeType DEF BookOK, BetModes
<1>2. GenerateFromBet(bet).mode = m /\ GenerateFromBet(bet).collection = bet.amount
    BY DEF GenerateFromBet
<1>3. Added(b, bet) = [b EXCEPT ![m] = ApplyDelta(b[m], GenerateFromBet(bet))]
    BY <1>2 DEF Added
<1>4. ApplyDelta(b[m], GenerateFromBet(bet)).collection = b[m].collection + bet.amount
    BY <1>2 DEF ApplyDelta
<1>5. /\ DOMAIN Added(b, bet) = DOMAIN b
      /\ Added(b, bet)[m].collection = b[m].collection + bet.amount
      /\ \A n \in BetModes : n # m => Added(b, bet)[n] = b[n]
    BY <1>1, <1>3, <1>4 DEF BetModes
<1>6. b["open"].collection \in Int /\ b["close"].collection \in Int
    BY DEF BookOK, BetModes
<1> QED BY <1>1, <1>5, <1>6 DEF BookOK, BookTotal, BetModes

\* Removing one takes it away.
LEMMA RemovedTotal ==
    ASSUME NEW b, BookOK(b), NEW bet, bet.mode \in BetModes, bet.amount \in Int
    PROVE  BookOK(Removed(b, bet)) /\ BookTotal(Removed(b, bet)) = BookTotal(b) - bet.amount
<1> PICK m : m = ExposureMode(bet)
    OBVIOUS
<1>1. m \in {"open", "close"} /\ DOMAIN b = {"open", "close"}
    BY ExposureModeType DEF BookOK, BetModes
<1>2. GenerateFromBet(bet).mode = m /\ GenerateFromBet(bet).collection = bet.amount
    BY DEF GenerateFromBet
<1> PICK delta : delta = [collection |-> -bet.amount, at |-> Negated(GenerateFromBet(bet).at)]
    OBVIOUS
<1>3. Removed(b, bet) = [b EXCEPT ![m] = ApplyDelta(b[m], delta)]
    BY <1>2 DEF Removed
<1>4. ApplyDelta(b[m], delta).collection = b[m].collection + (-bet.amount)
    BY DEF ApplyDelta
<1>5. /\ DOMAIN Removed(b, bet) = DOMAIN b
      /\ Removed(b, bet)[m].collection = b[m].collection + (-bet.amount)
      /\ \A n \in BetModes : n # m => Removed(b, bet)[n] = b[n]
    BY <1>1, <1>3, <1>4 DEF BetModes
<1>6. b["open"].collection \in Int /\ b["close"].collection \in Int
    BY DEF BookOK, BetModes
<1> QED BY <1>1, <1>5, <1>6 DEF BookOK, BookTotal, BetModes

\* The equation that defines the books of the subsets of S.
IsBooks(g, old, of, S) ==
    g = [s \in SUBSET S |->
           IF s = {} THEN old ELSE Added(g[s \ {First(s)}], of[First(s)])]

LEMMA BooksUnfold ==
    ASSUME NEW old, NEW of
    PROVE  AddedAll(old, of) = (CHOOSE g : IsBooks(g, old, of, DOMAIN of))[DOMAIN of]
BY Zenon DEF AddedAll, FoldSet, MapThenFoldSet, IsBooks, First

LEMMA BooksAreUnique ==
    ASSUME NEW old, NEW of, NEW S, NEW T, IsFiniteSet(S),
           NEW g, NEW h, IsBooks(g, old, of, S), IsBooks(h, old, of, T)
    PROVE  \A s \in SUBSET (S \intersect T) : g[s] = h[s]
<1> DEFINE Bad == {s \in SUBSET (S \intersect T) : g[s] # h[s]}
<1> SUFFICES ASSUME Bad # {} PROVE FALSE
    OBVIOUS
<1>1. PICK s \in Bad : \A u \in SUBSET s : u # s => u \notin Bad
    <2>1. Bad \in SUBSET (SUBSET S)
        OBVIOUS
    <2> HIDE DEF Bad
    <2> QED BY <2>1, SmallestSet
<1>2. s \in SUBSET S /\ s \in SUBSET T /\ g[s] # h[s]
    BY <1>1
<1>3. s # {}
    BY <1>2 DEF IsBooks
<1>4. g[s \ {First(s)}] = h[s \ {First(s)}]
    BY <1>1, <1>2, <1>3, FirstIsElement
<1>5. g[s] = Added(g[s \ {First(s)}], of[First(s)])
    BY <1>2, <1>3 DEF IsBooks
<1>6. h[s] = Added(h[s \ {First(s)}], of[First(s)])
    BY <1>2, <1>3 DEF IsBooks
<1> QED BY <1>2, <1>4, <1>5, <1>6

LEMMA BooksExist ==
    ASSUME NEW old, NEW of, NEW S, IsFiniteSet(S)
    PROVE  \E g : IsBooks(g, old, of, S)
<1> DEFINE Bad == {T \in SUBSET S : \A g : ~IsBooks(g, old, of, T)}
<1> SUFFICES ASSUME Bad # {} PROVE FALSE
    BY DEF Bad
<1>1. PICK T \in Bad : \A U \in SUBSET T : U # T => U \notin Bad
    <2>1. Bad \in SUBSET (SUBSET S)
        OBVIOUS
    <2> HIDE DEF Bad
    <2> QED BY <2>1, SmallestSet
<1>2. PICK part : part = [U \in SUBSET T |-> CHOOSE h : IsBooks(h, old, of, U)]
    OBVIOUS
<1>3. \A U \in SUBSET T : U # T => IsBooks(part[U], old, of, U)
    <2> TAKE U \in SUBSET T
    <2>1. U # T => \E h : IsBooks(h, old, of, U)
        BY <1>1
    <2> QED BY <1>2, <2>1
<1>4. PICK g : g = [s \in SUBSET T |-> IF s = {} THEN old
                    ELSE Added(part[s \ {First(s)}][s \ {First(s)}], of[First(s)])]
    OBVIOUS
<1>5. \A s \in SUBSET T : s # T => g[s] = part[s][s]
    <2> TAKE s \in SUBSET T
    <2> HAVE s # T
    <2>1. IsBooks(part[s], old, of, s)
        BY <1>3
    <2>2. CASE s = {}
        <3>1. part[s][s] = old
            BY <2>1, <2>2 DEF IsBooks
        <3> QED BY <1>4, <2>2, <3>1
    <2>3. CASE s # {}
        <3> PICK u : u = s \ {First(s)}
            OBVIOUS
        <3>1. u \in SUBSET s /\ u # s /\ u \in SUBSET T /\ u # T
            BY <2>3, FirstIsElement
        <3>2. IsBooks(part[u], old, of, u) /\ IsFiniteSet(u)
            BY <1>3, <3>1, FS_Subset
        <3>3. part[s][u] = part[u][u]
            <4> PICK p, q : p = part[u] /\ q = part[s]
                OBVIOUS
            <4>1. IsBooks(p, old, of, u) /\ IsBooks(q, old, of, s) /\ IsFiniteSet(u)
                BY <2>1, <3>2
            <4>2. \A t \in SUBSET (u \intersect s) : p[t] = q[t]
                BY <4>1, BooksAreUnique
            <4>3. u \in SUBSET (u \intersect s)
                BY <3>1
            <4> QED BY <4>2, <4>3
        <3>4. part[s][s] = Added(part[s][u], of[First(s)])
            BY <2>1, <2>3 DEF IsBooks
        <3>5. g[s] = Added(part[u][u], of[First(s)])
            BY <1>4, <2>3
        <3> QED BY <3>3, <3>4, <3>5
    <2> QED BY <2>2, <2>3
<1>6. \A s \in SUBSET T : s # {} => /\ s \ {First(s)} \in SUBSET T
                                     /\ s \ {First(s)} # T
    BY FirstIsElement
<1>7. g = [s \in SUBSET T |-> IF s = {} THEN old
             ELSE Added(g[s \ {First(s)}], of[First(s)])]
    <2> PICK r : r = [s \in SUBSET T |-> IF s = {} THEN old
                        ELSE Added(g[s \ {First(s)}], of[First(s)])]
        OBVIOUS
    <2>1. ASSUME NEW s \in SUBSET T PROVE g[s] = r[s]
        <3> PICK u : u = s \ {First(s)}
            OBVIOUS
        <3>1. s # {} => /\ g[s] = Added(part[u][u], of[First(s)])
                         /\ r[s] = Added(g[u], of[First(s)])
            BY <1>4
        <3>2. s # {} => u \in SUBSET T /\ u # T
            BY <1>6
        <3>3. s # {} => g[u] = part[u][u]
            BY <1>5, <3>2
        <3>4. s = {} => g[s] = r[s]
            BY <1>4
        <3> QED BY <3>1, <3>3, <3>4
    <2>2. g = [s \in SUBSET T |-> g[s]] /\ r = [s \in SUBSET T |-> r[s]]
        BY <1>4
    <2>3. g = r
        BY <2>1, <2>2
    <2> QED BY <2>3
<1>8. IsBooks(g, old, of, T)
    BY <1>7 DEF IsBooks
<1> QED BY <1>8

\* Adding several bets adds their stakes.
LEMMA AddedAllTotal ==
    ASSUME NEW old, BookOK(old), NEW S, IsFiniteSet(S), NEW of, DOMAIN of = S,
           NEW stakes, \A b \in S : /\ of[b].mode \in BetModes /\ of[b].amount \in Int
                                    /\ stakes[b] = of[b].amount
    PROVE  /\ BookOK(AddedAll(old, of))
           /\ BookTotal(AddedAll(old, of)) = BookTotal(old) + SumFunctionOnSet(stakes, S)
<1>1. PICK g : IsBooks(g, old, of, S) /\ AddedAll(old, of) = g[S]
    <2> PICK g : g = CHOOSE h : IsBooks(h, old, of, S)
        OBVIOUS
    <2>1. \E h : IsBooks(h, old, of, S)
        BY BooksExist
    <2>2. IsBooks(g, old, of, S)
        BY <2>1
    <2> QED BY <2>2, BooksUnfold
<1> DEFINE Good(T) == /\ BookOK(g[T])
                      /\ BookTotal(g[T]) = BookTotal(old) + SumFunctionOnSet(stakes, T)
           Bad == {T \in SUBSET S : ~Good(T)}
<1>2. ASSUME Bad # {} PROVE FALSE
    <2>1. PICK T \in Bad : \A U \in SUBSET T : U # T => U \notin Bad
        <3>1. Bad \in SUBSET (SUBSET S)
            OBVIOUS
        <3> HIDE DEF Bad
        <3> QED BY <1>2, <3>1, SmallestSet
    <2>2. T \in SUBSET S /\ ~Good(T)
        BY <2>1
    <2>3. BookTotal(old) \in Int
        BY DEF BookOK, BookTotal, BetModes
    <2>4. T # {}
        <3> SUFFICES ASSUME T = {} PROVE FALSE
            OBVIOUS
        <3>1. g[T] = old
            BY <1>1, <2>2 DEF IsBooks
        <3>2. SumFunctionOnSet(stakes, T) = 0
            BY SumEmpty
        <3> QED BY <2>2, <2>3, <3>1, <3>2
    <2> PICK x : x = First(T)
        OBVIOUS
    <2>5. x \in T
        BY <2>4, FirstIsElement
    <2> PICK U : U = T \ {x}
        OBVIOUS
    <2>6. Good(U)
        <3>1. U \in SUBSET T /\ U # T /\ U \in SUBSET S
            BY <2>2, <2>5
        <3> QED BY <2>1, <3>1
    <2>7. g[T] = Added(g[U], of[x])
        BY <1>1, <2>2, <2>4 DEF IsBooks
    <2>8. Summable(stakes, T)
        <3>1. IsFiniteSet(T) /\ \A b \in T : stakes[b] \in Int
            BY <2>2, FS_Subset
        <3> QED BY <3>1 DEF Summable
    <2>9. SumFunctionOnSet(stakes, T) = stakes[x] + SumFunctionOnSet(stakes, U)
        BY <2>5, <2>8, SumAnyFirst
    <2>10. SumFunctionOnSet(stakes, U) \in Int
        BY <2>2, <2>8, SummablePart, SumType
    <2>11. of[x].mode \in BetModes /\ of[x].amount \in Int /\ stakes[x] = of[x].amount
        BY <2>2, <2>5
    <2>12. BookOK(g[T]) /\ BookTotal(g[T]) = BookTotal(g[U]) + of[x].amount
        BY <2>6, <2>7, <2>11, AddedTotal
    <2> QED BY <2>2, <2>3, <2>6, <2>9, <2>10, <2>11, <2>12
<1>3. Good(S)
    BY <1>2
<1> QED BY <1>1, <1>3

-----------------------------------------------------------------------------
(* Bets: whatever is done to one that can be stored can be stored *)

LEMMA QuotientType == ASSUME NEW a \in Nat, NEW n \in Nat \ {0} PROVE a \div n \in Nat
OBVIOUS

LEMMA ProductType == ASSUME NEW a \in Nat, NEW c \in Nat PROVE a * c \in Nat
OBVIOUS

LEMMA LengthType ==
    ASSUME NEW b, NEW bet, BetOK(b, bet), bet.template \in Motors
    PROVE  /\ bet.selection \in Seq(Seq(Digits))
           /\ Len(bet.selection) \in Nat \ {0}
BY DEF BetOK

LEMMA LineStakeType ==
    ASSUME NEW b, NEW bet, BetOK(b, bet), bet.template \in Motors, NEW p
    PROVE  LineStake(bet, p) \in Nat
<1>1. bet.amount \div Len(bet.selection) \in Nat
    BY LengthType, QuotientType DEF BetOK
<1> QED BY <1>1 DEF LineStake, RowStake, BetOK

LEMMA LineStakesType ==
    ASSUME NEW b, NEW bet, BetOK(b, bet), bet.template \in Motors,
           NEW p \in DOMAIN LineStakes(bet)
    PROVE  LineStakes(bet)[p] \in Nat
BY LineStakeType DEF LineStakes, BetOK

LEMMA NewBetType ==
    ASSUME NEW b \in BetIds,
           ValidBet(Asked[b].template, "BOTH", Asked[b].mode, Asked[b].value)
    PROVE  PendingOK(b, NewBet(Asked[b].template, Asked[b].mode, Asked[b].value,
                               Asked[b].amount, Asked[b].odds))
<1> PICK t, v : t = Asked[b].template /\ v = Asked[b].value
    OBVIOUS
<1>1. t \in Motors => v[1] \in Seq(Seq(Digits)) /\ v[1] # <<>>
    <2> SUFFICES ASSUME t \in Motors PROVE v[1] \in Seq(Seq(Digits)) /\ v[1] # <<>>
        OBVIOUS
    <2>1. v[1] \in Seq(Seq(Digits))
        BY DeskAssumption
    <2>2. DOMAIN RULE_TEMPLATES[t] = {1} /\ RULE_TEMPLATES[t][1].type = "pana_set"
        BY DEF RULE_TEMPLATES, Motors, PanasPart, Part
    <2>3. ValidPart(RULE_TEMPLATES[t][1], v[1])
        BY <2>2 DEF ValidBet
    <2>4. Len(v[1]) >= 1
        BY <2>2, <2>3 DEF ValidPart, ValidPanaSet
    <2> QED BY <2>1, <2>4
<1>2. t \in Motors => Selection(t, v) = v[1]
    BY DEF Selection
<1>3. Asked[b].amount \in Nat \ {0} /\ Asked[b].odds \in Nat
    BY DeskAssumption
<1>4. t \in Motors => Asked[b].amount \div Len(v[1]) \in Nat
    BY <1>1, <1>3, QuotientType
<1>5. \A x : x \in DOMAIN <<>> => FALSE
    OBVIOUS
<1> QED BY <1>1, <1>2, <1>3, <1>4, <1>5 DEF NewBet, PendingOK, BetOK, Fields, NoStake

LEMMA EditedBetType ==
    ASSUME NEW b, NEW bet, PendingOK(b, bet), NEW amount \in Amounts
    PROVE  PendingOK(b, EditedBet(bet, amount, bet.selection))
<1>1. amount \in Nat \ {0}
    BY DeskAssumption
<1>2. bet.template \in Motors => amount \div Len(bet.selection) \in Nat
    BY <1>1, LengthType, QuotientType DEF PendingOK
<1>3. \A x : x \in DOMAIN <<>> => FALSE
    OBVIOUS
<1> QED BY <1>1, <1>2, <1>3 DEF EditedBet, PendingOK, BetOK, Fields

LEMMA CancelledType ==
    ASSUME NEW b, NEW bet, BetOK(b, bet)
    PROVE  BetOK(b, Cancelled(bet)) /\ Cancelled(bet).status = "cancelled"
BY DEF Cancelled, BetOK, Fields

LEMMA MovedType ==
    ASSUME NEW S, NEW s \in Seq(S), NEW pana, NEW to \in S
    PROVE  Moved(s, pana, to) \in Seq(S) /\ Len(Moved(s, pana, to)) = Len(s)
BY DEF Moved

\* A motor bet with other lines.
LinesChanged(bet, next) ==
    /\ DOMAIN next = DOMAIN bet
    /\ next.template = bet.template /\ next.mode = bet.mode /\ next.odds = bet.odds
    /\ next.status = bet.status /\ next.payout = bet.payout

LEMMA LinesChangedType ==
    ASSUME NEW b, NEW bet, PendingOK(b, bet), NEW next, LinesChanged(bet, next),
           next.amount \in Int, Storable(next), next.per \in Nat,
           \A p \in DOMAIN next.stakes : next.stakes[p] \in Nat,
           next.selection \in Seq(Seq(Digits)), next.selection # <<>>
    PROVE  PendingOK(b, next)
<1>1. next.amount \in Nat \ {0}
    BY DEF Storable
<1> QED BY <1>1 DEF PendingOK, BetOK, LinesChanged

\* A line that is moved or given another stake.
LEMMA EditedLineType ==
    ASSUME NEW b, NEW bet, PendingOK(b, bet), NEW pana, NEW to \in Panas, NEW stake \in Nat,
           CanEditLine(bet, pana, to, stake)
    PROVE  LET next == EditedLine(bet, pana, to, stake)
           IN  next.amount \in Int /\ (Storable(next) => PendingOK(b, next))
<1> PICK selection : selection = Moved(bet.selection, pana, to)
    OBVIOUS
<1> PICK stakes : stakes = [p \in (DOMAIN LineStakes(bet) \ {pana}) \union {to} |->
                              IF p = to THEN stake ELSE LineStakes(bet)[p]]
    OBVIOUS
<1>1. /\ bet.template \in Motors /\ BetOK(b, bet)
      /\ bet.selection \in Seq(Seq(Digits)) /\ Len(bet.selection) \in Nat \ {0}
    BY LengthType DEF CanEditLine, PendingOK
<1>2. to \in Seq(Digits)
    BY DeskAssumption
<1>3. selection \in Seq(Seq(Digits)) /\ Len(selection) = Len(bet.selection) /\ selection # <<>>
    BY <1>1, <1>2, MovedType
<1>4. \A p \in DOMAIN stakes : stakes[p] \in Nat
    BY <1>1, LineStakesType
<1>5. \A p \in Range(selection) : p \in DOMAIN stakes
    <2> SUFFICES ASSUME NEW i \in DOMAIN selection PROVE selection[i] \in DOMAIN stakes
        BY DEF Range
    <2>1. i \in DOMAIN bet.selection /\ bet.selection[i] \in Range(bet.selection)
        BY <1>1 DEF Moved, Range
    <2>2. selection[i] = IF bet.selection[i] = pana THEN to ELSE bet.selection[i]
        BY <2>1 DEF Moved
    <2> QED BY <2>1, <2>2 DEF CanEditLine
<1>6. IsFiniteSet(Range(selection))
    <2>1. selection \in Surjection(DOMAIN selection, Range(selection))
        BY <1>3 DEF Surjection, Range
    <2>2. IsFiniteSet(DOMAIN selection)
        BY <1>3, FS_Interval
    <2> QED BY <2>1, <2>2, FS_Surjection
<1> PICK amount : amount = SumUp([p \in Range(selection) |-> stakes[p]])
    OBVIOUS
<1>7. amount \in Int
    <2>1. Summable(stakes, Range(selection))
        BY <1>4, <1>5, <1>6 DEF Summable
    <2>2. Agree(stakes, [p \in Range(selection) |-> stakes[p]], Range(selection))
        BY DEF Agree
    <2> QED BY <2>1, <2>2, SumUpOf
<1>8. EditedLine(bet, pana, to, stake)
        = [bet EXCEPT !.selection = selection, !.stakes = stakes, !.per = NoStake,
                      !.amount = amount]
    BY DEF EditedLine
<1> PICK next : next = EditedLine(bet, pana, to, stake)
    OBVIOUS
<1>9. /\ DOMAIN next = DOMAIN bet
      /\ next.selection = selection /\ next.stakes = stakes /\ next.per = 0
      /\ next.amount = amount
      /\ next.template = bet.template /\ next.mode = bet.mode /\ next.odds = bet.odds
      /\ next.status = bet.status /\ next.payout = bet.payout
    BY <1>1, <1>8 DEF BetOK, Fields, NoStake
<1>10. LinesChanged(bet, next)
    BY <1>9 DEF LinesChanged
<1>11. \A p \in DOMAIN next.stakes : next.stakes[p] \in Nat
    BY <1>4, <1>9
<1>12. next.selection \in Seq(Seq(Digits)) /\ next.selection # <<>>
    BY <1>3, <1>9
<1>13. next.amount \in Int /\ next.per \in Nat
    BY <1>7, <1>9
<1>14. Storable(next) => PendingOK(b, next)
    BY <1>10, <1>11, <1>12, <1>13, LinesChangedType
<1> QED BY <1>13, <1>14

LEMMA OneLessType ==
    ASSUME NEW n \in Nat, n # 1, NEW i \in 1 .. n PROVE (i - 1) + (n - i) \in Nat \ {0}
OBVIOUS

LEMMA WithoutType ==
    ASSUME NEW S, NEW s \in Seq(S), NEW p \in Range(s), Len(s) # 1
    PROVE  Without(s, p) \in Seq(S) /\ Len(Without(s, p)) \in Nat \ {0}
<1> PICK i : i = CHOOSE j \in DOMAIN s : s[j] = p
    OBVIOUS
<1>1. i \in 1 .. Len(s) /\ Len(s) \in Nat /\ \A j \in 1 .. Len(s) : s[j] \in S
    BY DEF Range
<1>2. Without(s, p) = SubSeq(s, 1, i - 1) \o SubSeq(s, i + 1, Len(s))
    BY DEF Without, RemoveAt
<1>3. SubSeq(s, 1, i - 1) \in Seq(S) /\ Len(SubSeq(s, 1, i - 1)) = i - 1
    <2>1. \A j \in 1 .. i - 1 : s[j] \in S
        BY <1>1
    <2> QED BY <1>1, <2>1, SubSeqProperties
<1>4. SubSeq(s, i + 1, Len(s)) \in Seq(S) /\ Len(SubSeq(s, i + 1, Len(s))) = Len(s) - i
    <2>1. \A j \in i + 1 .. Len(s) : s[j] \in S
        BY <1>1
    <2> QED BY <1>1, <2>1, SubSeqProperties
<1>5. Without(s, p) \in Seq(S) /\ Len(Without(s, p)) = (i - 1) + (Len(s) - i)
    BY <1>2, <1>3, <1>4, ConcatProperties
<1> QED BY <1>1, <1>5, OneLessType

\* A line that is removed, but not the last one.
LEMMA LineRemovedType ==
    ASSUME NEW b, NEW bet, PendingOK(b, bet), bet.template \in Motors,
           NEW pana \in Range(bet.selection), Len(bet.selection) # 1
    PROVE  LET next == LineRemoved(bet, pana)
           IN  next.amount \in Int /\ (Storable(next) => PendingOK(b, next))
<1> PICK selection : selection = Without(bet.selection, pana)
    OBVIOUS
<1> PICK amount : amount = bet.amount - LineStake(bet, pana)
    OBVIOUS
<1>1. BetOK(b, bet) /\ bet.selection \in Seq(Seq(Digits))
    BY LengthType DEF PendingOK
<1>2. selection \in Seq(Seq(Digits)) /\ Len(selection) \in Nat \ {0} /\ selection # <<>>
    BY <1>1, WithoutType
<1>3. amount \in Int
    BY <1>1, LineStakeType DEF BetOK
<1>4. amount >= 1 => amount \div Len(selection) \in Nat
    BY <1>2, <1>3, QuotientType
<1> PICK stakes : stakes = Restrict(bet.stakes, DOMAIN bet.stakes \ {pana})
    OBVIOUS
<1>5. \A p \in DOMAIN stakes : stakes[p] \in Nat
    BY <1>1 DEF Restrict, BetOK
<1> PICK per : per = IF DOMAIN bet.stakes = {} THEN amount \div Len(selection) ELSE NoStake
    OBVIOUS
<1>6. LineRemoved(bet, pana)
        = [bet EXCEPT !.selection = selection, !.amount = amount, !.stakes = stakes,
                      !.per = per]
    BY DEF LineRemoved
<1> PICK next : next = LineRemoved(bet, pana)
    OBVIOUS
<1>7. /\ DOMAIN next = DOMAIN bet
      /\ next.selection = selection /\ next.stakes = stakes /\ next.per = per
      /\ next.amount = amount
      /\ next.template = bet.template /\ next.mode = bet.mode /\ next.odds = bet.odds
      /\ next.status = bet.status /\ next.payout = bet.payout
    BY <1>1, <1>6 DEF BetOK, Fields
<1>8. amount >= 1 => per \in Nat
    BY <1>4 DEF NoStake
<1>9. LinesChanged(bet, next)
    BY <1>7 DEF LinesChanged
<1>10. \A p \in DOMAIN next.stakes : next.stakes[p] \in Nat
    BY <1>5, <1>7
<1>11. next.selection \in Seq(Seq(Digits)) /\ next.selection # <<>>
    BY <1>2, <1>7
<1>12. next.amount \in Int /\ (Storable(next) => next.per \in Nat)
    BY <1>3, <1>7, <1>8 DEF Storable
<1>13. Storable(next) => PendingOK(b, next)
    BY <1>9, <1>10, <1>11, <1>12, LinesChangedType
<1> QED BY <1>12, <1>13

\* What a pass makes of a bet.
LEMMA SettledType ==
    ASSUME NEW b \in BetIds, NEW bet, PendingOK(b, bet), NEW pana, NEW session
    PROVE  LET end == Settled(bet, pana, session)
           IN  /\ end.status \in {"won", "lost"} /\ end.payout \in Nat
               /\ end.amount = bet.amount
<1>1. CalculatePayout(bet, pana) \in Nat
    <2> PICK stake : stake = IF bet.template \in Motors /\ pana # NoPana
                             THEN LineStake(bet, pana)
                             ELSE IF bet.per # NoStake THEN bet.per ELSE bet.amount
        OBVIOUS
    <2>1. stake \in Nat /\ bet.odds \in Nat
        <3>1. bet.template \in Motors => LineStake(bet, pana) \in Nat
            BY LineStakeType DEF PendingOK
        <3>2. bet.odds \in Nat
            BY DeskAssumption DEF PendingOK, BetOK
        <3> QED BY <3>1, <3>2 DEF PendingOK, BetOK
    <2>2. CalculatePayout(bet, pana) = bet.odds * stake
        BY DEF CalculatePayout
    <2> QED BY <2>1, <2>2, ProductType
<1> QED BY <1>1 DEF Settled, PendingOK, BetOK, Fields

\* A document whose changed fields are written over another one.
LEMMA SavedType ==
    ASSUME NEW b, NEW bet, NEW was, NEW next, BetOK(b, bet), BetOK(b, was), BetOK(b, next)
    PROVE  BetOK(b, Saved(bet, was, next))
<1> PICK saved : saved = Saved(bet, was, next)
    OBVIOUS
<1>1. DOMAIN saved = Fields /\ \A f \in Fields : saved[f] = next[f] \/ saved[f] = bet[f]
    BY DEF Saved, BetOK
<1>2. /\ saved.template \in {next.template, bet.template}
      /\ saved.mode \in {next.mode, bet.mode}
      /\ saved.odds \in {next.odds, bet.odds}
      /\ saved.status \in {next.status, bet.status}
      /\ saved.amount \in {next.amount, bet.amount}
      /\ saved.payout \in {next.payout, bet.payout}
      /\ saved.per \in {next.per, bet.per}
      /\ saved.stakes \in {next.stakes, bet.stakes}
      /\ saved.selection \in {next.selection, bet.selection}
    BY <1>1 DEF Fields
<1> QED BY SMTT(30), <1>1, <1>2 DEF BetOK


-----------------------------------------------------------------------------
(* The ledger *)

LEMMA MinimumExists ==
    ASSUME NEW S, IsFiniteSet(S), S # {}, \A x \in S : x \in Int
    PROVE  \E m \in S : \A x \in S : m <= x
<1> DEFINE Bad == {T \in SUBSET S : T # {} /\ \A m \in T : \E x \in T : ~(m <= x)}
<1>1. ASSUME Bad # {} PROVE FALSE
    <2>1. PICK T \in Bad : \A U \in SUBSET T : U # T => U \notin Bad
        <3>1. Bad \in SUBSET (SUBSET S)
            OBVIOUS
        <3> HIDE DEF Bad
        <3> QED BY <1>1, <3>1, SmallestSet
    <2>2. T \in SUBSET S /\ T # {} /\ \A m \in T : \E x \in T : ~(m <= x)
        BY <2>1
    <2>3. PICK t : t \in T
        BY <2>2
    <2>4. PICK U : U = T \ {t}
        OBVIOUS
    <2>5. U # {}
        BY <2>2, <2>3, <2>4
    <2>6. U \notin Bad
        BY <2>1, <2>3, <2>4
    <2>7. PICK m : m \in U /\ \A x \in U : m <= x
        <3>1. U \in SUBSET S
            BY <2>2, <2>4
        <3> QED BY <2>5, <2>6, <3>1
    <2>8. PICK least : least = IF m <= t THEN m ELSE t
        OBVIOUS
    <2>9. \A x \in T : x \in Int
        BY <2>2
    <2>10. m \in T /\ m \in Int /\ t \in Int /\ \A x \in T : x = t \/ m <= x
        BY <2>3, <2>4, <2>7, <2>9
    <2>11. least \in T /\ \A x \in T : least <= x
        BY <2>3, <2>8, <2>9, <2>10
    <2> QED BY <2>2, <2>11
<1>2. S \notin Bad
    BY <1>1
<1> QED BY <1>2

Kinds == {"debit", "funds", "win", "change", "reversal"}

LEMMA RowType ==
    ASSUME NEW user \in Users, NEW amount \in Int, NEW kind \in Kinds
    PROVE  /\ Row(user, amount, kind) \in Rows
           /\ Row(user, amount, kind).user = user
           /\ Row(user, amount, kind).amount = amount
           /\ Row(user, amount, kind).key = NoKey
BY DEF Row, Rows, Kinds, Keys

LEMMA DebitRowType ==
    ASSUME NEW user \in Users, NEW total \in Int, NEW order \in SUBSET BetIds
    PROVE  /\ DebitRow(user, total, order) \in Rows
           /\ DebitRow(user, total, order).user = user
           /\ DebitRow(user, total, order).amount = -total
           /\ DebitRow(user, total, order).key = NoKey
<1>1. PICK base : base = Row(user, -total, "debit")
    OBVIOUS
<1>2. base \in Rows /\ base.user = user /\ base.amount = -total /\ base.key = NoKey
    BY <1>1, RowType DEF Kinds
<1>3. DebitRow(user, total, order) = [base EXCEPT !.bets = order]
    BY <1>1 DEF DebitRow
<1> QED BY <1>2, <1>3 DEF Rows

LEMMA FundsRowType ==
    ASSUME NEW f \in FundsAsked
    PROVE  FundsRow(f) \in Rows
<1>1. PICK base : base = Row(f.user, f.amount, "funds")
    OBVIOUS
<1>2. base \in Rows
    BY <1>1, DeskAssumption, RowType DEF Kinds
<1>3. f.key \in Keys /\ FundsRow(f) = [base EXCEPT !.key = f.key]
    BY <1>1 DEF FundsRow, Keys
<1> QED BY <1>2, <1>3 DEF Rows

LEMMA WinRowType ==
    ASSUME ledger \in Seq(Rows), NEW b \in BetIds, NEW payout \in Int
    PROVE  /\ WinRow(b, payout) \in Rows
           /\ WinRow(b, payout).user = Owner[b]
           /\ WinRow(b, payout).amount = payout
           /\ WinRow(b, payout).key = NoKey
<1> PICK debits : debits = DebitsOf(b)
    OBVIOUS
<1>1. PICK n \in Nat : DOMAIN ledger = 1 .. n
    OBVIOUS
<1>2. debits \in SUBSET (1 .. n) /\ IsFiniteSet(debits)
    <2>1. IsFiniteSet(1 .. n)
        BY FS_Interval
    <2>2. debits \in SUBSET (1 .. n)
        BY <1>1 DEF DebitsOf, Stored
    <2> QED BY <2>1, <2>2, FS_Subset
<1>3. debits # {} => Min(debits) \in debits
    <2> HAVE debits # {}
    <2>1. \A x \in debits : x \in Int
        BY <1>2
    <2>2. \E m \in debits : \A x \in debits : m <= x
        BY <1>2, <2>1, MinimumExists
    <2> QED BY <2>2 DEF Min
<1>4. PICK related : related = IF debits = {} THEN 0 ELSE Min(debits)
    OBVIOUS
<1>5. related \in Nat
    BY <1>2, <1>3, <1>4
<1>6. PICK base : base = Row(Owner[b], payout, "win")
    OBVIOUS
<1>7. /\ base \in Rows /\ base.user = Owner[b] /\ base.amount = payout
      /\ base.key = NoKey
    <2>1. Owner[b] \in Users
        BY DeskAssumption
    <2> QED BY <1>6, <2>1, RowType DEF Kinds
<1>8. PICK only : only = {b} /\ only \in SUBSET BetIds
    OBVIOUS
<1>9. WinRow(b, payout) = [base EXCEPT !.bets = only, !.related = related]
    BY <1>4, <1>6, <1>8 DEF WinRow
<1> QED BY <1>5, <1>7, <1>8, <1>9 DEF Rows

\* What the rows of a ledger say about a user, and what they are.
RowsOf(L, u) == {i \in DOMAIN L : L[i].user = u}
AmountOf(L, u) == SumUp([i \in RowsOf(L, u) |-> L[i].amount])

LEMMA AmountIsSum ==
    ASSUME NEW L \in Seq(Rows), NEW u
    PROVE  /\ Summable([i \in DOMAIN L |-> L[i].amount], DOMAIN L)
           /\ RowsOf(L, u) \in SUBSET DOMAIN L
           /\ AmountOf(L, u) = SumFunctionOnSet([i \in DOMAIN L |-> L[i].amount], RowsOf(L, u))
           /\ AmountOf(L, u) \in Int
<1> PICK f : f = [i \in DOMAIN L |-> L[i].amount]
    OBVIOUS
<1>1. Summable(f, DOMAIN L)
    <2>1. IsFiniteSet(DOMAIN L)
        BY FS_Interval
    <2>2. \A i \in DOMAIN L : L[i] \in Rows
        OBVIOUS
    <2>3. \A i \in DOMAIN L : f[i] \in Int
        BY <2>2 DEF Rows
    <2> QED BY <2>1, <2>3 DEF Summable
<1>2. RowsOf(L, u) \in SUBSET DOMAIN L
    BY DEF RowsOf
<1>3. PICK S, g : S = RowsOf(L, u) /\ g = [i \in S |-> L[i].amount]
    OBVIOUS
<1>4. Summable(f, S) /\ Agree(f, g, S) /\ DOMAIN g = S
    BY <1>1, <1>2, <1>3, SummablePart DEF Agree
<1>5. SumUp(g) = SumFunctionOnSet(f, S) /\ SumUp(g) \in Int
    BY <1>4, SumUpOf
<1> QED BY <1>1, <1>2, <1>3, <1>5 DEF AmountOf

\* Marking rows as deleted takes nothing away.
LEMMA AmountOfMarked ==
    ASSUME NEW L \in Seq(Rows), NEW M, DOMAIN M = DOMAIN L, NEW u,
           \A i \in DOMAIN L : M[i].user = L[i].user /\ M[i].amount = L[i].amount
    PROVE  AmountOf(M, u) = AmountOf(L, u)
<1>1. RowsOf(M, u) = RowsOf(L, u)
    BY DEF RowsOf
<1>2. \A i \in RowsOf(L, u) : M[i].amount = L[i].amount
    BY DEF RowsOf
<1>3. [i \in RowsOf(L, u) |-> M[i].amount] = [i \in RowsOf(L, u) |-> L[i].amount]
    BY <1>2
<1> QED BY <1>1, <1>3 DEF AmountOf

\* Rows that are added.
LEMMA AmountOfBoth ==
    ASSUME NEW L \in Seq(Rows), NEW M \in Seq(Rows), NEW u
    PROVE  AmountOf(L \o M, u) = AmountOf(L, u) + AmountOf(M, u)
<1>1. PICK K, n, k : K = L \o M /\ n = Len(L) /\ k = Len(M)
    OBVIOUS
<1>2. /\ K \in Seq(Rows) /\ DOMAIN K = 1 .. n + k /\ n \in Nat /\ k \in Nat
      /\ \A i \in 1 .. n + k : K[i] = IF i <= n THEN L[i] ELSE M[i - n]
      /\ DOMAIN L = 1 .. n /\ DOMAIN M = 1 .. k
    BY <1>1, ConcatProperties
<1>3. PICK first, second : first = RowsOf(L, u) /\ second = RowsOf(K, u) \ (1 .. n)
    OBVIOUS
<1>4. RowsOf(K, u) = first \union second /\ first \intersect second = {}
    BY <1>2, <1>3 DEF RowsOf
<1>5. PICK f, g, h : /\ f = [i \in DOMAIN K |-> K[i].amount]
                     /\ g = [i \in DOMAIN L |-> L[i].amount]
                     /\ h = [i \in DOMAIN M |-> M[i].amount]
    OBVIOUS
<1>6. Summable(f, first \union second) /\ Summable(f, first) /\ Summable(f, second)
    BY <1>2, <1>4, <1>5, AmountIsSum, SummablePart
<1>7. AmountOf(K, u) = SumFunctionOnSet(f, first) + SumFunctionOnSet(f, second)
    <2>1. AmountOf(K, u) = SumFunctionOnSet(f, RowsOf(K, u))
        BY <1>2, <1>5, AmountIsSum
    <2>2. SumFunctionOnSet(f, first \union second)
            = SumFunctionOnSet(f, first) + SumFunctionOnSet(f, second)
        BY <1>4, <1>6, SumUnion
    <2> QED BY <1>4, <2>1, <2>2
<1>8. SumFunctionOnSet(f, first) = AmountOf(L, u)
    <2>1. first \in SUBSET (1 .. n)
        BY <1>2, <1>3 DEF RowsOf
    <2>2. Agree(f, g, first)
        BY <1>2, <1>5, <2>1 DEF Agree
    <2> QED BY <1>3, <1>5, <1>6, <2>2, AmountIsSum, SumSame
<1>9. SumFunctionOnSet(f, second) = AmountOf(M, u)
    <2>1. PICK S : S = RowsOf(M, u)
        OBVIOUS
    <2>2. Summable(h, S) /\ AmountOf(M, u) = SumFunctionOnSet(h, S)
        BY <1>5, <2>1, AmountIsSum, SummablePart
    <2>3. PICK shift : shift = [i \in S |-> i + n]
        OBVIOUS
    <2>4. \A i \in S : i \in 1 .. k /\ M[i].user = u
        BY <1>2, <2>1 DEF RowsOf
    <2>5. \A i \in S : shift[i] \in second /\ f[shift[i]] = h[i]
        <3> TAKE i \in S
        <3>1. i \in 1 .. k /\ M[i].user = u /\ shift[i] = i + n
            BY <2>3, <2>4
        <3>2. i + n \in 1 .. n + k /\ ~(i + n <= n) /\ (i + n) - n = i
            BY <1>2, <3>1
        <3>3. K[i + n] = M[i]
            BY <1>2, <3>2
        <3>4. i + n \in second
            BY <1>2, <1>3, <3>1, <3>2, <3>3 DEF RowsOf
        <3> QED BY <1>2, <1>5, <3>1, <3>2, <3>3, <3>4
    <2>6. \A i, j \in S : shift[i] = shift[j] => i = j
        BY <1>2, <2>3, <2>4
    <2>7. \A z \in second : \E i \in S : shift[i] = z
        <3> TAKE z \in second
        <3>1. z \in 1 .. n + k /\ ~(z <= n) /\ K[z].user = u
            BY <1>2, <1>3 DEF RowsOf
        <3>2. z - n \in 1 .. k /\ K[z] = M[z - n] /\ (z - n) + n = z
            BY <1>2, <3>1
        <3>3. z - n \in S
            BY <1>2, <2>1, <3>1, <3>2 DEF RowsOf
        <3> QED BY <2>3, <3>2, <3>3
    <2>8. SumFunctionOnSet(f, second) = SumFunctionOnSet(h, S)
        BY <1>6, <2>2, <2>5, <2>6, <2>7, SumRenamed
    <2> QED BY <2>2, <2>8
<1> QED BY <1>1, <1>7, <1>8, <1>9

LEMMA AmountOfOne ==
    ASSUME NEW row \in Rows, NEW u
    PROVE  AmountOf(<<row>>, u) = IF row.user = u THEN row.amount ELSE 0
<1>1. PICK L, f : L = <<row>> /\ f = [i \in DOMAIN L |-> L[i].amount]
    OBVIOUS
<1>2. L \in Seq(Rows) /\ DOMAIN L = {1} /\ L[1] = row /\ f[1] = row.amount /\ row.amount \in Int
    BY <1>1 DEF Rows
<1>3. AmountOf(L, u) = SumFunctionOnSet(f, RowsOf(L, u)) /\ Summable(f, {1})
    BY <1>1, <1>2, AmountIsSum
<1>4. SumFunctionOnSet(f, {}) = 0
    BY SumEmpty
<1>5. SumFunctionOnSet(f, {1}) = row.amount
    <2>1. Summable(f, {} \union {1}) /\ {} \union {1} = {1}
        BY <1>3
    <2>2. SumFunctionOnSet(f, {} \union {1}) = SumFunctionOnSet(f, {}) + f[1]
        BY <2>1, SumAdd
    <2> QED BY <1>2, <1>4, <2>1, <2>2
<1>6. RowsOf(L, u) = IF row.user = u THEN {1} ELSE {}
    BY <1>2 DEF RowsOf
<1> QED BY <1>1, <1>3, <1>4, <1>5, <1>6

LEMMA AmountOfAppended ==
    ASSUME NEW L \in Seq(Rows), NEW row \in Rows, NEW u
    PROVE  /\ Append(L, row) \in Seq(Rows)
           /\ AmountOf(Append(L, row), u)
                = AmountOf(L, u) + IF row.user = u THEN row.amount ELSE 0
<1>1. <<row>> \in Seq(Rows) /\ Append(L, row) \in Seq(Rows)
    OBVIOUS
<1>2. Append(L, row) = L \o <<row>>
    BY AppendIsConcat
<1>3. AmountOf(L \o <<row>>, u) = AmountOf(L, u) + AmountOf(<<row>>, u)
    BY <1>1, AmountOfBoth
<1> QED BY <1>1, <1>2, <1>3, AmountOfOne

\* A key is used by one row that is not deleted.
OnePerKey(L) ==
    \A i, j \in DOMAIN L :
       ~(/\ i # j
         /\ L[i].key # NoKey
         /\ ~L[i].deleted /\ ~L[j].deleted
         /\ <<L[i].user, L[i].key>> = <<L[j].user, L[j].key>>)

LEMMA OnePerKeyMarked ==
    ASSUME NEW L, OnePerKey(L), NEW M, DOMAIN M = DOMAIN L,
           \A i \in DOMAIN L : /\ M[i].user = L[i].user /\ M[i].key = L[i].key
                               /\ L[i].deleted => M[i].deleted
    PROVE  OnePerKey(M)
BY DEF OnePerKey

LEMMA OnePerKeyBoth ==
    ASSUME NEW L \in Seq(Rows), OnePerKey(L), NEW M \in Seq(Rows),
           \A i \in DOMAIN M : M[i].key = NoKey
    PROVE  OnePerKey(L \o M)
<1>1. PICK K, n, k : K = L \o M /\ n = Len(L) /\ k = Len(M)
    OBVIOUS
<1>2. /\ DOMAIN K = 1 .. n + k /\ n \in Nat /\ k \in Nat
      /\ \A i \in 1 .. n + k : K[i] = IF i <= n THEN L[i] ELSE M[i - n]
      /\ DOMAIN L = 1 .. n /\ DOMAIN M = 1 .. k
    BY <1>1, ConcatProperties
<1>3. \A i \in 1 .. n + k : ~(i <= n) => K[i].key = NoKey
    <2> TAKE i \in 1 .. n + k
    <2> HAVE ~(i <= n)
    <2>1. i - n \in DOMAIN M
        BY <1>2
    <2> QED BY <1>2, <2>1
<1>4. \A i \in 1 .. n + k : i <= n => i \in DOMAIN L /\ K[i] = L[i]
    BY <1>2
<1>5. OnePerKey(K)
    <2> SUFFICES ASSUME NEW i \in DOMAIN K, NEW j \in DOMAIN K, i # j, K[i].key # NoKey,
                        ~K[i].deleted, ~K[j].deleted,
                        <<K[i].user, K[i].key>> = <<K[j].user, K[j].key>>
                 PROVE  FALSE
        BY DEF OnePerKey
    <2>1. i <= n /\ j <= n
        BY <1>2, <1>3
    <2>2. i \in DOMAIN L /\ K[i] = L[i] /\ j \in DOMAIN L /\ K[j] = L[j]
        BY <1>2, <1>4, <2>1
    <2> QED BY <2>2 DEF OnePerKey
<1> QED BY <1>1, <1>5

LEMMA OnePerKeyAppended ==
    ASSUME NEW L \in Seq(Rows), OnePerKey(L), NEW row \in Rows,
           \/ row.key = NoKey
           \/ \A i \in DOMAIN L : ~(L[i].user = row.user /\ L[i].key = row.key /\ ~L[i].deleted)
    PROVE  OnePerKey(Append(L, row))
<1>1. PICK K, n : K = Append(L, row) /\ n = Len(L)
    OBVIOUS
<1>2. /\ DOMAIN K = 1 .. n + 1 /\ n \in Nat /\ DOMAIN L = 1 .. n
      /\ \A i \in 1 .. n + 1 : K[i] = IF i = n + 1 THEN row ELSE L[i]
      /\ \A i \in 1 .. n + 1 : i # n + 1 => i \in 1 .. n
    BY <1>1
<1>3. OnePerKey(K)
    <2> SUFFICES ASSUME NEW i \in DOMAIN K, NEW j \in DOMAIN K, i # j, K[i].key # NoKey,
                        ~K[i].deleted, ~K[j].deleted, K[i].user = K[j].user, K[i].key = K[j].key
                 PROVE  FALSE
        BY DEF OnePerKey
    <2>1. CASE i = n + 1
        BY <1>2, <2>1
    <2>2. CASE j = n + 1
        BY <1>2, <2>2
    <2>3. CASE i # n + 1 /\ j # n + 1
        BY <1>2, <2>3 DEF OnePerKey
    <2> QED BY <2>1, <2>2, <2>3
<1> QED BY <1>1, <1>3


-----------------------------------------------------------------------------
(* Wallets, and the invariant in terms of these sums *)

Wallets == [Users -> [balance : Nat, exposure : Int]]

Exposures(w) == SumUp([u \in Users |-> w[u].exposure])

LEMMA ExposuresIsSum ==
    ASSUME NEW w \in Wallets
    PROVE  LET f == [u \in Users |-> w[u].exposure]
           IN  Summable(f, Users) /\ Exposures(w) = SumFunctionOnSet(f, Users) /\ Exposures(w) \in Int
<1>1. PICK f : f = [u \in Users |-> w[u].exposure]
    OBVIOUS
<1>2. Summable(f, Users)
    BY <1>1, DeskAssumption DEF Summable, Wallets
<1>3. Exposures(w) = SumFunctionOnSet(f, Users)
    BY <1>1, SumUpIsSum DEF Exposures
<1> QED BY <1>1, <1>2, <1>3, SumType

LEMMA ExposuresType == ASSUME NEW w \in Wallets PROVE Exposures(w) \in Int
BY ExposuresIsSum

\* The exposure of one user changes.
LEMMA ExposureOfOne ==
    ASSUME NEW w \in Wallets, NEW v \in Wallets, NEW u \in Users, NEW amount \in Int,
           v[u].exposure = w[u].exposure + amount,
           \A x \in Users : x # u => v[x].exposure = w[x].exposure
    PROVE  Exposures(v) = Exposures(w) + amount
<1>1. PICK f, g : f = [x \in Users |-> w[x].exposure] /\ g = [x \in Users |-> v[x].exposure]
    OBVIOUS
<1>2. /\ Summable(f, Users) /\ Exposures(w) = SumFunctionOnSet(f, Users)
      /\ Summable(g, Users) /\ Exposures(v) = SumFunctionOnSet(g, Users)
      /\ Exposures(w) \in Int
    BY <1>1, ExposuresIsSum
<1>3. AgreeBut(f, g, Users, u)
    BY <1>1 DEF AgreeBut
<1>4. SumFunctionOnSet(g, Users) = SumFunctionOnSet(f, Users) - f[u] + g[u]
    BY <1>2, <1>3, SumChange
<1>5. f[u] \in Int /\ g[u] = f[u] + amount
    BY <1>1 DEF Wallets
<1> QED BY <1>2, <1>4, <1>5

\* A stake is held, or given back.
LEMMA HoldType ==
    ASSUME wallet \in Wallets, NEW u \in Users, NEW amount \in Int,
           wallet[u].balance - amount >= 0
    PROVE  /\ Hold(u, amount) \in Wallets
           /\ Exposures(Hold(u, amount)) = Exposures(wallet) + amount
           /\ \A x \in Users : Hold(u, amount)[x].balance
                = wallet[x].balance + IF x = u THEN -amount ELSE 0
<1>1. PICK w, bal, exp : /\ w = wallet[u]
                         /\ bal = wallet[u].balance - amount
                         /\ exp = wallet[u].exposure + amount
    OBVIOUS
<1>2. wallet[u].balance \in Int /\ wallet[u].exposure \in Int
    BY DEF Wallets
<1>3. bal \in Nat /\ exp \in Int
    BY <1>1, <1>2
<1>4. PICK v : v = [wallet EXCEPT ![u] = [balance |-> bal, exposure |-> exp]]
    OBVIOUS
<1>5. v = Hold(u, amount)
    BY <1>1, <1>4 DEF Hold, Wallets
<1>6. v \in Wallets /\ v[u].balance = bal /\ v[u].exposure = exp
    BY <1>3, <1>4 DEF Wallets
<1>7. \A x \in Users : x # u => v[x] = wallet[x]
    BY <1>4 DEF Wallets
<1>8. Exposures(v) = Exposures(wallet) + amount
    BY <1>1, <1>6, <1>7, ExposureOfOne
<1>9. \A x \in Users : v[x].balance = wallet[x].balance + IF x = u THEN -amount ELSE 0
    <2> TAKE x \in Users
    <2>1. wallet[x].balance \in Int
        BY DEF Wallets
    <2> QED BY <1>1, <1>2, <1>6, <1>7, <2>1
<1> QED BY <1>5, <1>6, <1>8, <1>9

\* Funds are added, or taken away.
Adjusted(u, amount) == [wallet EXCEPT ![u].balance = @ + amount]

LEMMA AdjustedType ==
    ASSUME wallet \in Wallets, NEW u \in Users, NEW amount \in Int,
           wallet[u].balance + amount >= 0,
           NEW v, v = Adjusted(u, amount)
    PROVE  /\ v \in Wallets
           /\ Exposures(v) = Exposures(wallet)
           /\ \A x \in Users : v[x].balance
                = wallet[x].balance + IF x = u THEN amount ELSE 0
<1>1. wallet[u].balance \in Int /\ wallet[u].exposure \in Int
    BY DEF Wallets
<1>2. wallet[u].balance + amount \in Nat
    BY <1>1
<1>3. /\ v \in Wallets /\ v[u].balance = wallet[u].balance + amount
      /\ v[u].exposure = wallet[u].exposure
      /\ \A x \in Users : x # u => v[x] = wallet[x]
    BY <1>2 DEF Wallets, Adjusted
<1>4. [x \in Users |-> v[x].exposure] = [x \in Users |-> wallet[x].exposure]
    BY <1>3
<1>5. \A x \in Users : v[x].balance = wallet[x].balance + IF x = u THEN amount ELSE 0
    <2> TAKE x \in Users
    <2>1. wallet[x].balance \in Int
        BY DEF Wallets
    <2> QED BY <1>3, <2>1
<1> QED BY <1>3, <1>4, <1>5 DEF Exposures

Explained(w, L) == \A u \in Users : w[u].balance = Funds + AmountOf(L, u)

\* What the invariant says of a state, and what makes it true of the next one.
LEMMA InvariantNow ==
    ASSUME DeskInv
    PROVE  /\ DeskOK
           /\ wallet \in Wallets /\ settledStakes \in Nat
           /\ Explained(wallet, ledger)
           /\ Exposures(wallet) + settledStakes = BookTotal(book)
           /\ OnePerKey(ledger)
<1>1. DeskOK /\ BookOK(book) /\ wallet \in Wallets /\ settledStakes \in Nat
    BY DEF DeskInv, DeskOK, TypeOK, Wallets
<1>2. Explained(wallet, ledger)
    BY DEF DeskInv, LedgerExplainsBalance, Explained, AmountOf, RowsOf
<1>3. Exposures(wallet) + settledStakes = BookTotal(book)
    BY <1>1, BookSum DEF DeskInv, CollectionMatchesExposure, Exposures
<1>4. OnePerKey(ledger)
    BY DEF DeskInv, AdjustedOnce, OnePerKey
<1> QED BY <1>1, <1>2, <1>3, <1>4

Typed ==
    /\ BetsOK
    /\ version \in [BetIds -> Nat]
    /\ wallet \in Wallets
    /\ ledger \in Seq(Rows)
    /\ BookOK(book)
    /\ declared \subseteq BetModes
    /\ settledStakes \in Nat
    /\ overtaken \in BOOLEAN

LEMMA TypedNow == ASSUME DeskInv PROVE Typed
BY DEF DeskInv, DeskOK, TypeOK, Typed, Wallets

LEMMA InvariantNext ==
    ASSUME Typed', \A r \in inflight' : RequestOK(r)',
           Explained(wallet', ledger'),
           Exposures(wallet') + settledStakes' = BookTotal(book'),
           OnePerKey(ledger')
    PROVE  DeskInv'
<1>1. TypeOK'
    <2>1. \A b \in Placed' : bets'[b].template \in Templates /\ bets'[b].amount \in Nat \ {0}
        <3>1. \A b \in Placed' : b \in BetIds /\ BetOK(b, bets'[b])
            BY DEF Placed, Typed, BetsOK
        <3> QED BY <3>1, DeskAssumption DEF BetOK
    <2>2. \A i \in DOMAIN ledger' : ledger'[i].user \in Users /\ ledger'[i].amount \in Int
        <3>1. \A i \in DOMAIN ledger' : ledger'[i] \in Rows
            BY DEF Typed
        <3> QED BY <3>1 DEF Rows
    <2> QED BY <2>1, <2>2 DEF TypeOK, Typed, Wallets
<1>2. DeskOK'
    BY <1>1 DEF DeskOK, Typed
<1>3. LedgerExplainsBalance'
    BY DEF LedgerExplainsBalance, Explained, AmountOf, RowsOf
<1>4. CollectionMatchesExposure'
    <2>1. BookOK(book')
        BY DEF Typed
    <2> QED BY <2>1, BookSum DEF CollectionMatchesExposure, Exposures
<1>5. AdjustedOnce'
    BY DEF AdjustedOnce, OnePerKey
<1> QED BY <1>2, <1>3, <1>4, <1>5 DEF DeskInv

-----------------------------------------------------------------------------
(* Requests: what one carries stays right while others write *)

LEMMA BetIsNotNoBet == ASSUME NEW b, NEW bet, BetOK(b, bet) PROVE bet # NoBet
<1>1. "mode" \in DOMAIN bet
    BY DEF BetOK, Fields
<1>2. "mode" \notin DOMAIN NoBet
    BY DEF NoBet
<1> QED BY <1>1, <1>2

LEMMA PendingBet ==
    ASSUME BetsOK, NEW b \in BetIds, bets[b].status = "pending"
    PROVE  PendingOK(b, bets[b]) /\ bets[b] # NoBet
BY DEF BetsOK, PendingOK, NoBet

LEMMA RequestKept ==
    ASSUME NEW r, RequestOK(r),
           \A b \in BetIds : bets[b] # NoBet => bets'[b] # NoBet,
           DOMAIN ledger \subseteq DOMAIN ledger'
    PROVE  RequestOK(r)'
<1>1. CASE r.kind = "change" /\ ChangeOK(r)
    BY <1>1 DEF ChangeOK, RequestOK
<1>2. CASE r.kind = "funds" /\ r.row \in Rows
    BY <1>2 DEF RequestOK
<1>3. CASE r.kind = "unbook" /\ r.row \in Rows /\ r.at \in DOMAIN ledger
    BY <1>3 DEF RequestOK
<1>4. CASE r.kind = "pass" /\ PassOK(r)
    BY <1>4 DEF PassOK, RequestOK
<1> QED BY <1>1, <1>2, <1>3, <1>4 DEF RequestOK

\* A step that writes neither bets nor money.
LEMMA OnlyRequests ==
    ASSUME DeskInv,
           UNCHANGED <<bets, version, wallet, ledger, book, settledStakes, overtaken>>,
           declared' \subseteq BetModes,
           \A r \in inflight' : r \in inflight \/ RequestOK(r)
    PROVE  DeskInv'
<1>1. Typed'
    BY TypedNow DEF Typed, BetsOK
<1>2. \A r \in inflight' : RequestOK(r)'
    <2> TAKE r \in inflight'
    <2>1. RequestOK(r)
        BY DEF DeskInv, DeskOK
    <2> QED BY <2>1, RequestKept
<1>3. /\ Explained(wallet', ledger')
      /\ Exposures(wallet') + settledStakes' = BookTotal(book')
      /\ OnePerKey(ledger')
    BY InvariantNow
<1> QED BY <1>1, <1>2, <1>3, InvariantNext

LEMMA AskKeeps ==
    ASSUME DeskInv, NEW request, Ask(request), \A n : RequestOK([request EXCEPT !.nr = n])
    PROVE  DeskInv'
<1>1. PICK n : inflight' = inflight \union {[request EXCEPT !.nr = n]}
    BY DEF Ask
<1>2. \A r \in inflight' : r \in inflight \/ RequestOK(r)
    BY <1>1
<1>3. UNCHANGED <<bets, version, wallet, ledger, book, declared, settledStakes, overtaken>>
    BY DEF Ask
<1> QED BY <1>2, <1>3, OnlyRequests, TypedNow DEF Typed

LEMMA AskChangeKeeps ==
    ASSUME DeskInv, NEW b \in BetIds, bets[b].status = "pending", NEW next, Ask(Change(b, next)),
           next.amount \in Int,
           Storable(next) => BetOK(b, next) /\ next.status \in {"pending", "cancelled"}
    PROVE  DeskInv'
<1>1. PICK request : request = Change(b, next)
    OBVIOUS
<1>2. PendingOK(b, bets[b]) /\ bets[b] # NoBet
    BY TypedNow, PendingBet DEF Typed
<1>3. \A n : RequestOK([request EXCEPT !.nr = n])
    <2> TAKE n
    <2>1. PICK r : r = [request EXCEPT !.nr = n]
        OBVIOUS
    <2>2. r.kind = "change" /\ r.bet = b /\ r.was = bets[b] /\ r.next = next
        BY <1>1, <2>1 DEF Change
    <2>3. ChangeOK(r)
        BY <1>2, <2>2 DEF ChangeOK
    <2> QED BY <2>1, <2>2, <2>3 DEF RequestOK
<1> QED BY <1>1, <1>3, AskKeeps

LEMMA AskEditBetKeeps ==
    ASSUME DeskInv, NEW b \in BetIds, AskEditBet(b) PROVE DeskInv'
<1>1. bets[b].status = "pending"
    BY DEF AskEditBet
<1>2. PICK amount \in Amounts : Ask(Change(b, EditedBet(bets[b], amount, bets[b].selection)))
    BY DEF AskEditBet
<1>3. PICK next : next = EditedBet(bets[b], amount, bets[b].selection)
    OBVIOUS
<1>4. PendingOK(b, next)
    BY <1>1, <1>3, TypedNow, PendingBet, EditedBetType DEF Typed
<1>5. next.amount \in Int /\ BetOK(b, next) /\ next.status \in {"pending", "cancelled"}
    BY <1>4 DEF PendingOK, BetOK
<1> QED BY <1>1, <1>2, <1>3, <1>5, AskChangeKeeps

LEMMA AskEditLineKeeps ==
    ASSUME DeskInv, NEW b \in BetIds, AskEditLine(b) PROVE DeskInv'
<1>1. bets[b].status = "pending" /\ bets[b].template \in Motors
    BY DEF AskEditLine
<1>2. PICK pana \in Range(bets[b].selection) : \E to \in Panas :
         \E stake \in Amounts \union Kept(bets[b], pana) :
            /\ CanEditLine(bets[b], pana, to, stake)
            /\ Ask(Change(b, EditedLine(bets[b], pana, to, stake)))
    BY DEF AskEditLine
<1>3. PICK to \in Panas : \E stake \in Amounts \union Kept(bets[b], pana) :
            /\ CanEditLine(bets[b], pana, to, stake)
            /\ Ask(Change(b, EditedLine(bets[b], pana, to, stake)))
    BY <1>2
<1>4. PICK stake \in Amounts \union Kept(bets[b], pana) :
            /\ CanEditLine(bets[b], pana, to, stake)
            /\ Ask(Change(b, EditedLine(bets[b], pana, to, stake)))
    BY <1>3
<1>5. PendingOK(b, bets[b])
    BY <1>1, TypedNow, PendingBet DEF Typed
<1>6. stake \in Nat
    <2>1. CASE stake \in Amounts
        BY <2>1, DeskAssumption
    <2>2. CASE stake \in Kept(bets[b], pana)
        <3>1. PICK p \in DOMAIN LineStakes(bets[b]) : stake = LineStakes(bets[b])[p]
            BY <2>2 DEF Kept
        <3> QED BY <1>1, <1>5, <3>1, LineStakesType DEF PendingOK
    <2> QED BY <1>4, <2>1, <2>2
<1>7. PICK next : next = EditedLine(bets[b], pana, to, stake)
    OBVIOUS
<1>8. next.amount \in Int /\ (Storable(next) => PendingOK(b, next))
    BY <1>4, <1>5, <1>6, <1>7, EditedLineType
<1>9. Ask(Change(b, next))
    BY <1>4, <1>7
<1> QED BY <1>1, <1>8, <1>9, AskChangeKeeps DEF PendingOK

LEMMA AskDeleteBetKeeps ==
    ASSUME DeskInv, NEW b \in BetIds, AskDeleteBet(b) PROVE DeskInv'
<1>1. bets[b].status = "pending"
    BY DEF AskDeleteBet
<1>2. PICK next : next = Cancelled(bets[b])
    OBVIOUS
<1>3. BetOK(b, next) /\ next.status = "cancelled"
    BY <1>1, <1>2, TypedNow, PendingBet, CancelledType DEF Typed, PendingOK
<1>4. next.amount \in Int
    BY <1>3 DEF BetOK
<1>5. Ask(Change(b, next))
    BY <1>2 DEF AskDeleteBet
<1> QED BY <1>1, <1>3, <1>4, <1>5, AskChangeKeeps

LEMMA AskDeleteLineKeeps ==
    ASSUME DeskInv, NEW b \in BetIds, AskDeleteLine(b) PROVE DeskInv'
<1>1. bets[b].status = "pending" /\ bets[b].template \in Motors
    BY DEF AskDeleteLine
<1>2. PICK pana \in Range(bets[b].selection) :
         Ask(Change(b, IF Len(bets[b].selection) = 1 THEN Cancelled(bets[b])
                       ELSE LineRemoved(bets[b], pana)))
    BY DEF AskDeleteLine
<1>3. PendingOK(b, bets[b])
    BY <1>1, TypedNow, PendingBet DEF Typed
<1>4. PICK next : next = IF Len(bets[b].selection) = 1 THEN Cancelled(bets[b])
                         ELSE LineRemoved(bets[b], pana)
    OBVIOUS
<1>5. CASE Len(bets[b].selection) = 1
    <2>1. BetOK(b, next) /\ next.status = "cancelled"
        BY <1>3, <1>4, <1>5, CancelledType DEF PendingOK
    <2>2. next.amount \in Int
        BY <2>1 DEF BetOK
    <2> QED BY <1>1, <1>2, <1>4, <2>1, <2>2, AskChangeKeeps
<1>6. CASE Len(bets[b].selection) # 1
    <2>1. next.amount \in Int /\ (Storable(next) => PendingOK(b, next))
        BY <1>1, <1>3, <1>4, <1>6, LineRemovedType
    <2> QED BY <1>1, <1>2, <1>4, <2>1, AskChangeKeeps DEF PendingOK
<1> QED BY <1>5, <1>6

LEMMA AskAdjustFundsKeeps ==
    ASSUME DeskInv, NEW f \in FundsAsked, AskAdjustFunds(f) PROVE DeskInv'
<1>1. PICK request : request = [kind |-> "funds", nr |-> 1, row |-> FundsRow(f)]
    OBVIOUS
<1>2. \A n : RequestOK([request EXCEPT !.nr = n])
    <2> TAKE n
    <2>1. PICK r : r = [request EXCEPT !.nr = n]
        OBVIOUS
    <2>2. r.kind = "funds" /\ r.row \in Rows
        BY <1>1, <2>1, FundsRowType
    <2> QED BY <2>1, <2>2 DEF RequestOK
<1>3. Ask(request)
    BY <1>1 DEF AskAdjustFunds
<1> QED BY <1>2, <1>3, AskKeeps

LEMMA AskDeleteTransactionKeeps ==
    ASSUME DeskInv, NEW i \in DOMAIN ledger, AskDeleteTransaction(i) PROVE DeskInv'
<1>1. PICK request : request = [kind |-> "unbook", nr |-> 1, at |-> i, row |-> ledger[i]]
    OBVIOUS
<1>2. ledger[i] \in Rows
    BY TypedNow DEF Typed
<1>3. \A n : RequestOK([request EXCEPT !.nr = n])
    <2> TAKE n
    <2>1. PICK r : r = [request EXCEPT !.nr = n]
        OBVIOUS
    <2>2. r.kind = "unbook" /\ r.row \in Rows /\ r.at \in DOMAIN ledger
        BY <1>1, <1>2, <2>1
    <2> QED BY <2>1, <2>2 DEF RequestOK
<1>4. Ask(request)
    BY <1>1 DEF AskDeleteTransaction
<1> QED BY <1>3, <1>4, AskKeeps


-----------------------------------------------------------------------------
(* Steps that write money *)

\* A row is added for what is added to a balance.
LEMMA ExplainedNext ==
    ASSUME DeskInv, NEW row \in Rows, NEW w \in Wallets,
           \A x \in Users : w[x].balance
              = wallet[x].balance + IF x = row.user THEN row.amount ELSE 0
    PROVE  Append(ledger, row) \in Seq(Rows) /\ Explained(w, Append(ledger, row))
<1>1. ledger \in Seq(Rows) /\ Explained(wallet, ledger) /\ Funds \in Int
    BY InvariantNow, TypedNow, DeskAssumption DEF Typed
<1>2. \A x \in Users : w[x].balance = Funds + AmountOf(Append(ledger, row), x)
    <2> TAKE x \in Users
    <2>1. AmountOf(Append(ledger, row), x)
            = AmountOf(ledger, x) + IF row.user = x THEN row.amount ELSE 0
        BY <1>1, AmountOfAppended
    <2>2. AmountOf(ledger, x) \in Int
        BY <1>1, AmountIsSum
    <2>3. row.amount \in Int
        BY DEF Rows
    <2>4. wallet[x].balance = Funds + AmountOf(ledger, x)
        BY <1>1 DEF Explained
    <2> QED BY <1>1, <2>1, <2>2, <2>3, <2>4
<1>3. Append(ledger, row) \in Seq(Rows)
    BY <1>1
<1> QED BY <1>2, <1>3 DEF Explained

\* The requests that are left, when bets stay placed and rows stay written.
LEMMA RequestsNext ==
    ASSUME DeskInv, inflight' \subseteq inflight, BetsOK',
           \A b \in BetIds : bets[b] # NoBet => bets'[b] # NoBet,
           DOMAIN ledger \subseteq DOMAIN ledger'
    PROVE  \A r \in inflight' : RequestOK(r)'
<1> TAKE r \in inflight'
<1>1. RequestOK(r)
    BY DEF DeskInv, DeskOK
<1> QED BY <1>1, RequestKept

LEMMA AppendedDomain ==
    ASSUME NEW row, ledger \in Seq(Rows)
    PROVE  DOMAIN ledger \subseteq DOMAIN Append(ledger, row)
OBVIOUS

LEMMA PlaceBetsKeeps ==
    ASSUME DeskInv, NEW order \in Orders, PlaceBets(order) PROVE DeskInv'
<1>1. PICK new : new = [b \in order |-> NewBet(Asked[b].template, Asked[b].mode, Asked[b].value,
                                               Asked[b].amount, Asked[b].odds)]
    OBVIOUS
<1>2. PICK total : total = SumUp([b \in order |-> Asked[b].amount])
    OBVIOUS
<1>3. PICK user : user = Owner[CHOOSE b \in order : TRUE]
    OBVIOUS
<1>4. /\ \A b \in order : /\ bets[b] = NoBet
                          /\ ValidBet(Asked[b].template, "BOTH", Asked[b].mode, Asked[b].value)
      /\ Covers(user, total)
      /\ wallet' = Hold(user, total)
      /\ bets' = [b \in BetIds |-> IF b \in order THEN new[b] ELSE bets[b]]
      /\ ledger' = Append(ledger, DebitRow(user, total, order))
      /\ book' = AddedAll(book, new)
      /\ UNCHANGED <<version, declared, inflight, asked, settledStakes, overtaken>>
    BY <1>1, <1>2, <1>3 DEF PlaceBets
<1>5. order \in SUBSET BetIds /\ order # {} /\ IsFiniteSet(order) /\ user \in Users
    <2>1. order \in SUBSET BetIds /\ order # {}
        BY DeskAssumption
    <2>2. (CHOOSE b \in order : TRUE) \in order
        BY <2>1
    <2>3. user \in Users
        BY <1>3, <2>1, <2>2, DeskAssumption
    <2> QED BY <2>1, <2>3, FS_Subset, DeskAssumption
<1>6. \A b \in order : PendingOK(b, new[b]) /\ new[b].amount = Asked[b].amount
    <2> TAKE b \in order
    <2>1. PendingOK(b, new[b])
        BY <1>1, <1>4, <1>5, NewBetType
    <2>2. new[b].amount = Asked[b].amount
        BY <1>1 DEF NewBet
    <2> QED BY <2>1, <2>2
<1>7. PICK stakes : stakes = [b \in order |-> Asked[b].amount]
    OBVIOUS
<1>8. \A b \in order : stakes[b] \in Nat
    BY <1>5, <1>7, DeskAssumption
<1>9. total = SumFunctionOnSet(stakes, order) /\ total \in Nat
    <2>1. total = SumFunctionOnSet(stakes, order)
        BY <1>2, <1>7, SumUpIsSum
    <2> QED BY <1>5, <1>8, <2>1, SumNatural
<1>10. Typed
    BY TypedNow
<1>11. BetsOK' /\ \A b \in BetIds : bets[b] # NoBet => bets'[b] # NoBet
    <2>1. \A b \in BetIds : bets'[b] = NoBet \/ BetOK(b, bets'[b])
        BY <1>4, <1>6, <1>10 DEF Typed, BetsOK, PendingOK
    <2>2. \A b \in BetIds : bets[b] # NoBet => bets'[b] = bets[b]
        BY <1>4
    <2> QED BY <1>4, <2>1, <2>2 DEF BetsOK
<1>12. /\ wallet' \in Wallets
       /\ Exposures(wallet') = Exposures(wallet) + total
       /\ \A x \in Users : wallet'[x].balance
            = wallet[x].balance + IF x = user THEN -total ELSE 0
    <2>1. wallet[user].balance \in Int
        BY <1>5, <1>10 DEF Typed, Wallets
    <2>2. wallet[user].balance - total >= 0
        BY <1>4, <1>9, <2>1 DEF Covers
    <2> QED BY <1>4, <1>5, <1>9, <1>10, <2>2, HoldType DEF Typed
<1>13. PICK row : row = DebitRow(user, total, order)
    OBVIOUS
<1>14. row \in Rows /\ row.user = user /\ row.amount = -total /\ row.key = NoKey
    BY <1>5, <1>9, <1>13, DebitRowType
<1>15. ledger' \in Seq(Rows) /\ Explained(wallet', ledger')
    BY <1>4, <1>12, <1>13, <1>14, ExplainedNext
<1>16. OnePerKey(ledger')
    BY <1>4, <1>10, <1>13, <1>14, InvariantNow, OnePerKeyAppended DEF Typed
<1>17. BookOK(book') /\ BookTotal(book') = BookTotal(book) + total
    <2>1. DOMAIN new = order
        BY <1>1
    <2>2. \A b \in order : /\ new[b].mode \in BetModes /\ new[b].amount \in Int
                           /\ stakes[b] = new[b].amount
        BY <1>5, <1>6, <1>7, DeskAssumption DEF PendingOK, BetOK
    <2> QED BY <1>4, <1>5, <1>9, <1>10, <2>1, <2>2, AddedAllTotal DEF Typed
<1>18. Exposures(wallet') + settledStakes' = BookTotal(book')
    <2>1. Exposures(wallet) \in Int /\ settledStakes \in Int
        BY InvariantNow, ExposuresType
    <2>2. Exposures(wallet) + settledStakes = BookTotal(book)
        BY InvariantNow
    <2> QED BY <1>4, <1>9, <1>12, <1>17, <2>1, <2>2
<1>19. Typed'
    BY <1>4, <1>10, <1>11, <1>12, <1>15, <1>17 DEF Typed
<1>20. \A r \in inflight' : RequestOK(r)'
    BY <1>4, <1>10, <1>11, AppendedDomain, RequestsNext DEF Typed
<1> QED BY <1>15, <1>16, <1>18, <1>19, <1>20, InvariantNext

LEMMA HeldType ==
    ASSUME NEW b, NEW bet, BetOK(b, bet)
    PROVE  Held(bet) \in Int /\ (bet.status = "pending" => Held(bet) = bet.amount)
BY DEF Held, BetOK

\* What a change does to the book is what it does to the stake that is held.
LEMMA RebookedTotal ==
    ASSUME NEW r, r.bet \in BetIds, BookOK(book), PendingOK(r.bet, r.was), BetOK(r.bet, r.next)
    PROVE  /\ BookOK(Rebooked(r))
           /\ BookTotal(Rebooked(r)) = BookTotal(book) + (Held(r.next) - Held(r.was))
<1>1. /\ r.was.mode \in BetModes /\ r.was.amount \in Int /\ r.was.status = "pending"
      /\ r.next.mode \in BetModes /\ r.next.amount \in Int
    BY DeskAssumption DEF PendingOK, BetOK
<1>2. PICK rest : rest = Removed(book, r.was)
    OBVIOUS
<1>3. BookOK(rest) /\ BookTotal(rest) = BookTotal(book) - r.was.amount
    BY <1>1, <1>2, RemovedTotal
<1>4. BookTotal(book) \in Int
    BY DEF BookOK, BookTotal, BetModes
<1>5. CASE r.next.status = "pending"
    <2>1. Rebooked(r) = Added(rest, r.next)
        BY <1>2, <1>5 DEF Rebooked
    <2>2. BookOK(Rebooked(r)) /\ BookTotal(Rebooked(r)) = BookTotal(rest) + r.next.amount
        BY <1>1, <1>3, <2>1, AddedTotal
    <2>3. Held(r.next) = r.next.amount /\ Held(r.was) = r.was.amount
        BY <1>1, <1>5 DEF Held
    <2> QED BY <1>1, <1>3, <1>4, <2>2, <2>3
<1>6. CASE r.next.status # "pending"
    <2>1. Rebooked(r) = rest
        BY <1>2, <1>6 DEF Rebooked
    <2>2. Held(r.next) = 0 /\ Held(r.was) = r.was.amount
        BY <1>1, <1>6 DEF Held
    <2> QED BY <1>1, <1>3, <1>4, <2>1, <2>2
<1> QED BY <1>5, <1>6

LEMMA CommitChangeKeeps ==
    ASSUME DeskInv, NEW r \in inflight, r.kind = "change", CommitChange(r),
           inflight' \subseteq inflight, UNCHANGED declared
    PROVE  DeskInv'
<1>1. PICK more, user : more = Held(r.next) - Held(r.was) /\ user = Owner[r.bet]
    OBVIOUS
<1>2. /\ more > 0 => Covers(user, more)
      /\ Storable(r.next)
      /\ wallet' = Hold(user, more)
      /\ bets' = [bets EXCEPT ![r.bet] = Saved(bets[r.bet], r.was, r.next)]
      /\ version' = [version EXCEPT
                       ![r.bet] = version[r.bet] + IF ReplacesPanas(r) THEN 1 ELSE 0]
      /\ book' = Rebooked(r)
      /\ ledger' = IF more = 0 THEN ledger ELSE Append(ledger, EditRow(user, more))
      /\ overtaken' = (overtaken \/ bets[r.bet] # r.was)
      /\ UNCHANGED settledStakes
    BY <1>1 DEF CommitChange
<1>3. Typed
    BY TypedNow
<1>4. ChangeOK(r)
    BY DEF DeskInv, DeskOK, RequestOK
<1>5. /\ r.bet \in BetIds /\ BetOK(r.bet, bets[r.bet])
      /\ PendingOK(r.bet, r.was) /\ BetOK(r.bet, r.next)
    BY <1>2, <1>3, <1>4 DEF ChangeOK, Typed, BetsOK
<1>6. more \in Int /\ user \in Users
    <2>1. Held(r.next) \in Int /\ Held(r.was) \in Int
        BY <1>5, HeldType DEF PendingOK
    <2> QED BY <1>1, <1>5, <2>1, DeskAssumption
<1>7. BetsOK' /\ \A b \in BetIds : bets[b] # NoBet => bets'[b] # NoBet
    <2>1. PICK saved : saved = Saved(bets[r.bet], r.was, r.next)
        OBVIOUS
    <2>2. BetOK(r.bet, saved)
        BY <1>5, <2>1, SavedType DEF PendingOK
    <2>3. saved # NoBet
        BY <2>2, BetIsNotNoBet
    <2>4. bets' = [bets EXCEPT ![r.bet] = saved] /\ bets = [b \in BetIds |-> bets[b]]
        BY <1>2, <1>3, <2>1 DEF Typed, BetsOK
    <2>5. \A b \in BetIds : bets'[b] = IF b = r.bet THEN saved ELSE bets[b]
        BY <2>4
    <2>6. \A b \in BetIds : bets'[b] = NoBet \/ BetOK(b, bets'[b])
        BY <1>3, <2>2, <2>5 DEF Typed, BetsOK
    <2>7. bets' = [b \in BetIds |-> bets'[b]]
        BY <2>4
    <2> QED BY <2>3, <2>5, <2>6, <2>7 DEF BetsOK
<1>8. /\ wallet' \in Wallets
      /\ Exposures(wallet') = Exposures(wallet) + more
      /\ \A x \in Users : wallet'[x].balance
           = wallet[x].balance + IF x = user THEN -more ELSE 0
    <2>1. wallet[user].balance \in Nat
        BY <1>3, <1>6 DEF Typed, Wallets
    <2>2. wallet[user].balance - more >= 0
        BY <1>2, <1>6, <2>1 DEF Covers
    <2> QED BY <1>2, <1>3, <1>6, <2>2, HoldType DEF Typed
<1>9. /\ ledger' \in Seq(Rows) /\ Explained(wallet', ledger') /\ OnePerKey(ledger')
      /\ DOMAIN ledger \subseteq DOMAIN ledger'
    <2>1. CASE more = 0
        <3>1. \A x \in Users : wallet'[x].balance = wallet[x].balance
            <4> TAKE x \in Users
            <4>1. wallet[x].balance \in Int
                BY <1>3 DEF Typed, Wallets
            <4> QED BY <1>8, <2>1, <4>1
        <3> QED BY <1>2, <1>3, <2>1, <3>1, InvariantNow DEF Typed, Explained
    <2>2. CASE more # 0
        <3>1. PICK row : row = EditRow(user, more)
            OBVIOUS
        <3>2. row \in Rows /\ row.user = user /\ row.amount = -more /\ row.key = NoKey
            <4>1. -more \in Int
                BY <1>6
            <4> QED BY <1>6, <3>1, <4>1, RowType DEF EditRow, Kinds
        <3>3. ledger' = Append(ledger, row)
            BY <1>2, <2>2, <3>1
        <3>4. ledger' \in Seq(Rows) /\ Explained(wallet', ledger')
            BY <1>8, <3>2, <3>3, ExplainedNext
        <3>5. OnePerKey(ledger')
            BY <1>3, <3>2, <3>3, InvariantNow, OnePerKeyAppended DEF Typed
        <3> QED BY <1>3, <3>3, <3>4, <3>5, AppendedDomain DEF Typed
    <2> QED BY <2>1, <2>2
<1>10. BookOK(book') /\ BookTotal(book') = BookTotal(book) + more
    BY <1>1, <1>2, <1>3, <1>5, RebookedTotal DEF Typed
<1>11. Exposures(wallet') + settledStakes' = BookTotal(book')
    <2>1. Exposures(wallet) \in Int /\ settledStakes \in Int
        BY InvariantNow, ExposuresType
    <2>2. Exposures(wallet) + settledStakes = BookTotal(book)
        BY InvariantNow
    <2> QED BY <1>2, <1>6, <1>8, <1>10, <2>1, <2>2
<1>12. version' \in [BetIds -> Nat] /\ overtaken' \in BOOLEAN
    BY <1>2, <1>3, <1>5 DEF Typed
<1>13. Typed'
    BY <1>2, <1>3, <1>7, <1>8, <1>9, <1>10, <1>12 DEF Typed
<1>14. \A x \in inflight' : RequestOK(x)'
    BY <1>7, <1>9, RequestsNext
<1> QED BY <1>9, <1>11, <1>13, <1>14, InvariantNext

LEMMA CommitFundsKeeps ==
    ASSUME DeskInv, NEW r \in inflight, r.kind = "funds", CommitFunds(r),
           inflight' \subseteq inflight, UNCHANGED declared
    PROVE  DeskInv'
<1>1. PICK row, user, amount : row = r.row /\ user = r.row.user /\ amount = r.row.amount
    OBVIOUS
<1>2. /\ amount < 0 => Covers(user, -amount)
      /\ KeyFree(row)
      /\ wallet' = [wallet EXCEPT ![user].balance = @ + amount]
      /\ ledger' = Append(ledger, row)
      /\ UNCHANGED <<bets, version, book, settledStakes, overtaken>>
    BY <1>1 DEF CommitFunds
<1>3. Typed
    BY TypedNow
<1>4. row \in Rows
    BY <1>1 DEF DeskInv, DeskOK, RequestOK
<1>5. user \in Users /\ amount \in Int
    BY <1>1, <1>4 DEF Rows
<1>6. /\ wallet' \in Wallets
      /\ Exposures(wallet') = Exposures(wallet)
      /\ \A x \in Users : wallet'[x].balance
           = wallet[x].balance + IF x = user THEN amount ELSE 0
    <2>1. wallet[user].balance \in Nat
        BY <1>3, <1>5 DEF Typed, Wallets
    <2>2. wallet[user].balance + amount >= 0
        BY <1>2, <1>5, <2>1 DEF Covers
    <2>3. wallet' = Adjusted(user, amount)
        BY <1>2 DEF Adjusted
    <2> QED BY <1>3, <1>5, <2>2, <2>3, AdjustedType DEF Typed
<1>7. ledger' \in Seq(Rows) /\ Explained(wallet', ledger')
    <2>1. user = row.user /\ amount = row.amount
        BY <1>1
    <2>2. \A x \in Users : wallet'[x].balance
             = wallet[x].balance + IF x = row.user THEN row.amount ELSE 0
        BY <1>6, <2>1
    <2> QED BY <1>2, <1>4, <1>6, <2>2, ExplainedNext
<1>8. OnePerKey(ledger')
    <2>1. \A i \in DOMAIN ledger :
             ~(ledger[i].user = row.user /\ ledger[i].key = row.key /\ ~ledger[i].deleted)
        BY <1>2 DEF KeyFree, KeyUsed
    <2> QED BY <1>2, <1>3, <1>4, <2>1, InvariantNow, OnePerKeyAppended DEF Typed
<1>9. Exposures(wallet') + settledStakes' = BookTotal(book')
    BY <1>2, <1>6, InvariantNow
<1>10. Typed'
    BY <1>2, <1>3, <1>6, <1>7 DEF Typed, BetsOK
<1>11. \A x \in inflight' : RequestOK(x)'
    BY <1>2, <1>3, <1>10, AppendedDomain, RequestsNext DEF Typed
<1> QED BY <1>7, <1>8, <1>9, <1>10, <1>11, InvariantNext

LEMMA CommitUnbookKeeps ==
    ASSUME DeskInv, NEW r \in inflight, r.kind = "unbook", CommitUnbook(r),
           inflight' \subseteq inflight, UNCHANGED declared
    PROVE  DeskInv'
<1>1. PICK user, amount : user = r.row.user /\ amount = r.row.amount
    OBVIOUS
<1>2. PICK marked : marked = [ledger EXCEPT ![r.at].deleted = TRUE]
    OBVIOUS
<1>3. /\ Covers(user, amount)
      /\ wallet' = [wallet EXCEPT ![user].balance = @ - amount]
      /\ ledger' = Append(marked, Row(user, -amount, "reversal"))
      /\ overtaken' = (overtaken \/ ledger[r.at].deleted)
      /\ UNCHANGED <<bets, version, book, settledStakes>>
    BY <1>1, <1>2 DEF CommitUnbook
<1>4. Typed
    BY TypedNow
<1>5. r.row \in Rows /\ r.at \in DOMAIN ledger
    BY DEF DeskInv, DeskOK, RequestOK
<1>6. user \in Users /\ amount \in Int /\ -amount \in Int
    BY <1>1, <1>5 DEF Rows
<1>7. /\ wallet' \in Wallets
      /\ Exposures(wallet') = Exposures(wallet)
      /\ \A x \in Users : wallet'[x].balance
           = wallet[x].balance + IF x = user THEN -amount ELSE 0
    <2>1. wallet[user].balance \in Nat
        BY <1>4, <1>6 DEF Typed, Wallets
    <2>2. wallet[user].balance + (-amount) >= 0
        BY <1>3, <1>6, <2>1 DEF Covers
    <2>3. wallet' = Adjusted(user, -amount)
        <3>1. wallet[user].balance - amount = wallet[user].balance + (-amount)
            BY <1>6, <2>1
        <3> QED BY <1>3, <3>1 DEF Adjusted
    <2> QED BY <1>4, <1>6, <2>2, <2>3, AdjustedType DEF Typed
<1>8. /\ marked \in Seq(Rows) /\ DOMAIN marked = DOMAIN ledger
      /\ \A i \in DOMAIN ledger :
            /\ marked[i].user = ledger[i].user /\ marked[i].amount = ledger[i].amount
            /\ marked[i].key = ledger[i].key
            /\ ledger[i].deleted => marked[i].deleted
    <2>1. PICK old, now : old = ledger[r.at] /\ now = [old EXCEPT !.deleted = TRUE]
        OBVIOUS
    <2>2. old \in Rows
        BY <1>4, <1>5, <2>1 DEF Typed
    <2>3. /\ now \in Rows /\ now.user = old.user /\ now.amount = old.amount
          /\ now.key = old.key /\ now.deleted
        BY <2>1, <2>2 DEF Rows
    <2>4. marked = [ledger EXCEPT ![r.at] = now]
        BY <1>2, <2>1
    <2> QED BY <1>4, <1>5, <2>1, <2>3, <2>4 DEF Typed
<1>9. PICK row : row = Row(user, -amount, "reversal")
    OBVIOUS
<1>10. row \in Rows /\ row.user = user /\ row.amount = -amount /\ row.key = NoKey
    BY <1>6, <1>9, RowType DEF Kinds
<1>11. ledger' \in Seq(Rows) /\ DOMAIN ledger \subseteq DOMAIN ledger'
    BY <1>3, <1>8, <1>9, <1>10
<1>12. Explained(wallet', ledger')
    <2>1. \A x \in Users : wallet'[x].balance = Funds + AmountOf(ledger', x)
        <3> TAKE x \in Users
        <3>1. AmountOf(ledger', x) = AmountOf(marked, x) + IF user = x THEN -amount ELSE 0
            BY <1>3, <1>8, <1>9, <1>10, AmountOfAppended
        <3>2. AmountOf(marked, x) = AmountOf(ledger, x) /\ AmountOf(ledger, x) \in Int
            BY <1>4, <1>8, AmountOfMarked, AmountIsSum DEF Typed
        <3>3. wallet[x].balance = Funds + AmountOf(ledger, x) /\ Funds \in Int
            BY InvariantNow, DeskAssumption DEF Explained
        <3>4. wallet'[x].balance = wallet[x].balance + IF x = user THEN -amount ELSE 0
            BY <1>7
        <3> QED BY <1>6, <3>1, <3>2, <3>3, <3>4
    <2> QED BY <2>1 DEF Explained
<1>13. OnePerKey(ledger')
    <2>1. OnePerKey(marked)
        BY <1>8, InvariantNow, OnePerKeyMarked
    <2> QED BY <1>3, <1>8, <1>9, <1>10, <2>1, OnePerKeyAppended
<1>14. Exposures(wallet') + settledStakes' = BookTotal(book')
    BY <1>3, <1>7, InvariantNow
<1>15. Typed'
    BY <1>3, <1>4, <1>7, <1>11 DEF Typed, BetsOK
<1>16. \A x \in inflight' : RequestOK(x)'
    BY <1>3, <1>11, <1>15, RequestsNext DEF Typed
<1> QED BY <1>12, <1>13, <1>14, <1>15, <1>16, InvariantNext

LEMMA CommitKeeps ==
    ASSUME DeskInv, NEW r \in inflight, r.kind # "pass", Commit(r)
    PROVE  DeskInv'
<1>1. inflight' \subseteq inflight /\ UNCHANGED declared
    BY DEF Commit
<1>2. CASE r.kind = "change"
    BY <1>1, <1>2, CommitChangeKeeps DEF Commit
<1>3. CASE r.kind = "funds"
    BY <1>1, <1>3, CommitFundsKeeps DEF Commit
<1>4. CASE r.kind # "change" /\ r.kind # "funds"
    <2>1. r.kind = "unbook"
        BY <1>4 DEF DeskInv, DeskOK, RequestOK
    <2>2. CommitUnbook(r)
        BY <1>4 DEF Commit
    <2> QED BY <1>1, <2>1, <2>2, CommitUnbookKeeps
<1> QED BY <1>2, <1>3, <1>4


-----------------------------------------------------------------------------
(* A pass of the settlement *)

LEMMA EnumerationType ==
    ASSUME NEW S, IsFiniteSet(S)
    PROVE  /\ Cardinality(S) \in Nat
           /\ SetToSeq(S) \in Bijection(1 .. Cardinality(S), S)
<1>1. PICK n : n = Cardinality(S)
    OBVIOUS
<1>2. n \in Nat /\ ExistsBijection(1 .. n, S)
    BY <1>1, FS_CardinalityType
<1>3. \E f \in [1 .. n -> S] : IsInjective(f)
    BY <1>2 DEF ExistsBijection, Bijection, Injection
<1>4. PICK s : s = SetToSeq(S)
    OBVIOUS
<1>5. s \in [1 .. n -> S] /\ IsInjective(s)
    BY <1>1, <1>3, <1>4 DEF SetToSeq
<1>6. s \in Injection(1 .. n, S)
    BY <1>5 DEF Injection
<1>7. Cardinality(1 .. n) = n /\ IsFiniteSet(1 .. n)
    BY <1>2, FS_Interval
<1>8. s \in Surjection(1 .. n, S)
    BY <1>1, <1>6, <1>7, FS_Injection
<1> QED BY <1>1, <1>2, <1>4, <1>6, <1>8 DEF Bijection

\* The rows of the winners add, for each user, what his bets have won.
LEMMA WinRowsType ==
    ASSUME ledger \in Seq(Rows), NEW won \in SUBSET BetIds, NEW payouts,
           \A b \in won : payouts[b] \in Nat,
           NEW rows, rows = [n \in DOMAIN SetToSeq(won) |->
                               WinRow(SetToSeq(won)[n], payouts[SetToSeq(won)[n]])]
    PROVE  /\ rows \in Seq(Rows)
           /\ \A n \in DOMAIN rows : rows[n].key = NoKey
           /\ \A u \in Users : AmountOf(rows, u)
                                 = SumFunctionOnSet(payouts, {b \in won : Owner[b] = u})
<1>1. PICK winners, k : winners = SetToSeq(won) /\ k = Cardinality(won)
    OBVIOUS
<1>2. IsFiniteSet(won)
    BY FS_Subset, DeskAssumption
<1>3. k \in Nat /\ winners \in Bijection(1 .. k, won)
    BY <1>1, <1>2, EnumerationType
<1>4. /\ winners \in [1 .. k -> won]
      /\ \A m, n \in 1 .. k : winners[m] = winners[n] => m = n
      /\ \A b \in won : \E n \in 1 .. k : winners[n] = b
    BY <1>3 DEF Bijection, Injection, IsInjective, Surjection
<1>5. rows = [n \in 1 .. k |-> WinRow(winners[n], payouts[winners[n]])]
    BY <1>1, <1>4
<1>6. \A n \in 1 .. k : /\ rows[n] \in Rows /\ rows[n].key = NoKey
                        /\ rows[n].user = Owner[winners[n]]
                        /\ rows[n].amount = payouts[winners[n]]
    <2> TAKE n \in 1 .. k
    <2>1. PICK b, payout : b = winners[n] /\ payout = payouts[b]
        OBVIOUS
    <2>2. b \in BetIds /\ payout \in Int
        BY <1>4, <2>1
    <2>3. rows[n] = WinRow(b, payout)
        BY <1>5, <2>1
    <2> QED BY <2>1, <2>2, <2>3, WinRowType
<1>7. rows \in Seq(Rows) /\ DOMAIN rows = 1 .. k
    BY <1>3, <1>5, <1>6
<1>8. ASSUME NEW u \in Users
      PROVE  AmountOf(rows, u) = SumFunctionOnSet(payouts, {b \in won : Owner[b] = u})
    <2>1. PICK S, T, f : /\ S = RowsOf(rows, u)
                         /\ T = {b \in won : Owner[b] = u}
                         /\ f = [n \in DOMAIN rows |-> rows[n].amount]
        OBVIOUS
    <2>2. Summable(f, S) /\ AmountOf(rows, u) = SumFunctionOnSet(f, S)
        BY <1>7, <2>1, AmountIsSum, SummablePart
    <2>3. Summable(payouts, T)
        BY <1>2, <2>1, FS_Subset DEF Summable
    <2>4. \A n \in S : n \in 1 .. k /\ rows[n].user = u
        BY <1>7, <2>1 DEF RowsOf
    <2>5. \A n \in S : winners[n] \in T /\ payouts[winners[n]] = f[n]
        BY <1>4, <1>6, <1>7, <2>1, <2>4
    <2>6. \A m, n \in S : winners[m] = winners[n] => m = n
        BY <1>4, <2>4
    <2>7. \A b \in T : \E n \in S : winners[n] = b
        <3> TAKE b \in T
        <3>1. PICK n \in 1 .. k : winners[n] = b
            BY <1>4, <2>1
        <3>2. n \in S
            BY <1>6, <1>7, <2>1, <3>1 DEF RowsOf
        <3> QED BY <3>1, <3>2
    <2>8. SumFunctionOnSet(payouts, T) = SumFunctionOnSet(f, S)
        BY <2>2, <2>3, <2>5, <2>6, <2>7, SumRenamed
    <2> QED BY <2>1, <2>2, <2>8
<1> QED BY <1>6, <1>7, <1>8

\* The stakes that are released are taken from their owners.
Released(w, v, stakes, due) ==
    /\ \A b \in due : stakes[b] \in Nat
    /\ \A u \in Users : v[u].exposure
          = w[u].exposure - SumFunctionOnSet(stakes, {b \in due : Owner[b] = u})

LEMMA ExposuresReleased ==
    ASSUME NEW w \in Wallets, NEW v \in Wallets, NEW due \in SUBSET BetIds, NEW stakes,
           Released(w, v, stakes, due)
    PROVE  Exposures(v) = Exposures(w) - SumFunctionOnSet(stakes, due)
<1>1. PICK f, g, h : /\ f = [u \in Users |-> v[u].exposure]
                     /\ g = [u \in Users |->
                               SumFunctionOnSet(stakes, {b \in due : Owner[b] = u})]
                     /\ h = [u \in Users |-> w[u].exposure]
    OBVIOUS
<1>2. Summable(stakes, due)
    BY FS_Subset, DeskAssumption DEF Released, Summable
<1>3. SumFunctionOnSet(g, Users) = SumFunctionOnSet(stakes, due)
    <2>1. \A b \in due : Owner[b] \in Users
        BY DeskAssumption
    <2> QED BY <1>1, <1>2, <2>1, SumByOwner, DeskAssumption
<1>4. Summable(g, Users)
    <2>1. ASSUME NEW u \in Users PROVE g[u] \in Int
        <3>1. PICK T : T = {b \in due : Owner[b] = u}
            OBVIOUS
        <3>2. T \in SUBSET due
            BY <3>1
        <3>3. SumFunctionOnSet(stakes, T) \in Int
            BY <1>2, <3>2, SummablePart, SumType
        <3> QED BY <1>1, <3>1, <3>3
    <2> QED BY <2>1, DeskAssumption DEF Summable
<1>5. /\ Summable(f, Users) /\ Exposures(v) = SumFunctionOnSet(f, Users)
      /\ Exposures(w) = SumFunctionOnSet(h, Users)
    BY <1>1, ExposuresIsSum
<1>6. AddUp(f, g, h, Users)
    <2> SUFFICES ASSUME NEW u \in Users PROVE h[u] = f[u] + g[u]
        BY DEF AddUp
    <2>1. h[u] \in Int /\ g[u] \in Int
        BY <1>1, <1>4 DEF Summable, Wallets
    <2>2. f[u] = h[u] - g[u]
        BY <1>1 DEF Released
    <2> QED BY <2>1, <2>2
<1>7. SumFunctionOnSet(h, Users) = SumFunctionOnSet(f, Users) + SumFunctionOnSet(g, Users)
    BY <1>4, <1>5, <1>6, SumPlus
<1>8. SumFunctionOnSet(f, Users) \in Int /\ SumFunctionOnSet(g, Users) \in Int
    BY <1>4, <1>5, SumType
<1> QED BY <1>3, <1>5, <1>7, <1>8

LEMMA CommitPassKeeps ==
    ASSUME DeskInv, NEW r \in inflight, r.kind = "pass", CommitPass(r)
    PROVE  DeskInv'
<1> DEFINE due == DOMAIN r.was
           end == [b \in due |-> Settled(r.was[b], Session[r.mode], Session)]
           won == {b \in due : end[b].status = "won"}
           rows == [n \in DOMAIN SetToSeq(won) |->
                      WinRow(SetToSeq(won)[n], end[SetToSeq(won)[n]].payout)]
<1>1. /\ wallet' = [u \in Users |->
            [balance  |-> wallet[u].balance
                            + SumUp([b \in {c \in won : Owner[c] = u} |-> end[b].payout]),
             exposure |-> wallet[u].exposure
                            - SumUp([b \in {c \in due : Owner[c] = u} |-> end[b].amount])]]
      /\ bets' = [b \in BetIds |->
            IF b \in due THEN [bets[b] EXCEPT !.status = end[b].status, !.payout = end[b].payout]
            ELSE bets[b]]
      /\ ledger' = ledger \o rows
      /\ settledStakes' = settledStakes + SumUp([b \in due |-> end[b].amount])
      /\ overtaken' = (overtaken \/ \E b \in due : bets[b] # r.was[b])
      /\ inflight' = inflight \ {r}
      /\ UNCHANGED <<version, book, declared, asked>>
    BY Zenon DEF CommitPass
<1>2. due = DOMAIN r.was /\ end = [b \in due |-> Settled(r.was[b], Session[r.mode], Session)]
    OBVIOUS
<1>3. won = {b \in due : end[b].status = "won"}
    OBVIOUS
<1>4. rows = [n \in DOMAIN SetToSeq(won) |->
                WinRow(SetToSeq(won)[n], end[SetToSeq(won)[n]].payout)]
    OBVIOUS
<1> HIDE DEF due, end, won, rows
<1>5. Typed /\ wallet \in Wallets /\ ledger \in Seq(Rows)
    BY TypedNow DEF Typed
<1>6. PassOK(r)
    BY DEF DeskInv, DeskOK, RequestOK
<1>7. due \in SUBSET BetIds /\ IsFiniteSet(due) /\ won \in SUBSET due
    BY <1>2, <1>3, <1>6, FS_Subset, DeskAssumption DEF PassOK
<1>8. PICK payouts, stakes : /\ payouts = [b \in due |-> end[b].payout]
                             /\ stakes = [b \in due |-> end[b].amount]
    OBVIOUS
<1>9. \A b \in due : /\ bets[b] # NoBet /\ end[b].status \in {"won", "lost"}
                     /\ payouts[b] \in Nat /\ stakes[b] \in Nat
                     /\ payouts[b] = end[b].payout /\ stakes[b] = end[b].amount
    <2> TAKE b \in due
    <2>1. b \in BetIds /\ bets[b] # NoBet /\ PendingOK(b, r.was[b])
        BY <1>2, <1>6, <1>7 DEF PassOK
    <2>2. end[b] = Settled(r.was[b], Session[r.mode], Session)
        BY <1>2
    <2>3. /\ end[b].status \in {"won", "lost"} /\ end[b].payout \in Nat
          /\ end[b].amount = r.was[b].amount
        BY <2>1, <2>2, SettledType
    <2>4. end[b].amount \in Nat
        BY <2>1, <2>3 DEF PendingOK, BetOK
    <2> QED BY <1>8, <2>1, <2>3, <2>4
<1>10. Summable(payouts, due) /\ Summable(stakes, due)
    BY <1>7, <1>9 DEF Summable
<1>11. ASSUME NEW u \in Users
       PROVE  /\ SumUp([b \in {c \in won : Owner[c] = u} |-> end[b].payout])
                   = SumFunctionOnSet(payouts, {c \in won : Owner[c] = u})
              /\ SumFunctionOnSet(payouts, {c \in won : Owner[c] = u}) \in Nat
              /\ SumUp([b \in {c \in due : Owner[c] = u} |-> end[b].amount])
                   = SumFunctionOnSet(stakes, {c \in due : Owner[c] = u})
              /\ SumFunctionOnSet(stakes, {c \in due : Owner[c] = u}) \in Nat
    <2>1. PICK S, T : S = {c \in won : Owner[c] = u} /\ T = {c \in due : Owner[c] = u}
        OBVIOUS
    <2>2. S \in SUBSET due /\ T \in SUBSET due /\ IsFiniteSet(S) /\ IsFiniteSet(T)
        BY <1>7, <2>1, FS_Subset
    <2>3. PICK f, g : f = [b \in S |-> end[b].payout] /\ g = [b \in T |-> end[b].amount]
        OBVIOUS
    <2>4. SumUp(f) = SumFunctionOnSet(payouts, S)
        <3>1. Summable(payouts, S) /\ Agree(payouts, f, S) /\ DOMAIN f = S
            BY <1>9, <1>10, <2>2, <2>3, SummablePart DEF Agree
        <3> QED BY <3>1, SumUpOf
    <2>5. SumUp(g) = SumFunctionOnSet(stakes, T)
        <3>1. Summable(stakes, T) /\ Agree(stakes, g, T) /\ DOMAIN g = T
            BY <1>9, <1>10, <2>2, <2>3, SummablePart DEF Agree
        <3> QED BY <3>1, SumUpOf
    <2>6. SumFunctionOnSet(payouts, S) \in Nat /\ SumFunctionOnSet(stakes, T) \in Nat
        BY <1>9, <2>2, SumNatural
    <2> QED BY <2>1, <2>3, <2>4, <2>5, <2>6
<1>12. /\ wallet' \in Wallets
       /\ \A u \in Users :
            /\ wallet'[u].balance = wallet[u].balance
                 + SumFunctionOnSet(payouts, {c \in won : Owner[c] = u})
            /\ wallet'[u].exposure = wallet[u].exposure
                 - SumFunctionOnSet(stakes, {c \in due : Owner[c] = u})
    <2>1. PICK B, E : /\ B = [u \in Users |->
                              SumFunctionOnSet(payouts, {c \in won : Owner[c] = u})]
                      /\ E = [u \in Users |->
                              SumFunctionOnSet(stakes, {c \in due : Owner[c] = u})]
        OBVIOUS
    <2>2. ASSUME NEW u \in Users PROVE B[u] \in Nat /\ E[u] \in Int
        <3>1. /\ B[u] = SumFunctionOnSet(payouts, {c \in won : Owner[c] = u})
              /\ E[u] = SumFunctionOnSet(stakes, {c \in due : Owner[c] = u})
            BY <2>1
        <3>2. /\ SumFunctionOnSet(payouts, {c \in won : Owner[c] = u}) \in Nat
              /\ SumFunctionOnSet(stakes, {c \in due : Owner[c] = u}) \in Nat
            BY <1>11
        <3> QED BY <3>1, <3>2
    <2>3. wallet' = [u \in Users |-> [balance  |-> wallet[u].balance + B[u],
                                      exposure |-> wallet[u].exposure - E[u]]]
        BY <1>1, <1>11, <2>1
    <2>4. \A u \in Users : wallet[u].balance \in Nat /\ wallet[u].exposure \in Int
        BY <1>5 DEF Typed, Wallets
    <2>5. \A u \in Users : /\ wallet[u].balance + B[u] \in Nat
                           /\ wallet[u].exposure - E[u] \in Int
        BY <2>2, <2>4
    <2>6. wallet' \in Wallets
        BY <2>3, <2>5 DEF Wallets
    <2> QED BY <2>1, <2>3, <2>6
<1>13. Exposures(wallet') = Exposures(wallet) - SumFunctionOnSet(stakes, due)
    <2>1. Released(wallet, wallet', stakes, due)
        BY <1>9, <1>12 DEF Released
    <2>2. wallet' \in Wallets /\ due \in SUBSET BetIds
        BY <1>7, <1>12
    <2> QED BY <1>5, <2>1, <2>2, ExposuresReleased
<1>14. settledStakes' = settledStakes + SumFunctionOnSet(stakes, due)
       /\ SumFunctionOnSet(stakes, due) \in Nat
    <2>1. SumUp(stakes) = SumFunctionOnSet(stakes, due)
        BY <1>8, SumUpIsSum
    <2> QED BY <1>1, <1>7, <1>8, <1>9, <2>1, SumNatural
<1>15. BetsOK' /\ \A b \in BetIds : bets[b] # NoBet => bets'[b] # NoBet
    <2>1. ASSUME NEW b \in BetIds
          PROVE  /\ bets'[b] = NoBet \/ BetOK(b, bets'[b])
                 /\ bets[b] # NoBet => bets'[b] # NoBet
        <3>1. CASE b \in due
            <4>1. PICK bet, next : /\ bet = bets[b]
                                   /\ next = [bet EXCEPT !.status = end[b].status,
                                                         !.payout = end[b].payout]
                OBVIOUS
            <4>2. BetOK(b, bet)
                BY <1>5, <1>9, <3>1, <4>1 DEF Typed, BetsOK
            <4>3. BetOK(b, next)
                <5>1. end[b].payout \in Nat /\ end[b].status \in {"won", "lost"}
                    BY <1>9, <3>1
                <5>2. DOMAIN next = Fields
                    BY <4>1, <4>2 DEF BetOK
                <5> QED BY <4>1, <4>2, <5>1, <5>2 DEF BetOK, Fields
            <4>4. bets'[b] = next
                BY <1>1, <3>1, <4>1
            <4> QED BY <4>3, <4>4, BetIsNotNoBet
        <3>2. CASE b \notin due
            BY <1>1, <1>5, <3>2 DEF Typed, BetsOK
        <3> QED BY <3>1, <3>2
    <2>2. bets' = [b \in BetIds |-> bets'[b]]
        BY <1>1
    <2> QED BY <2>1, <2>2 DEF BetsOK
<1>16. /\ rows \in Seq(Rows)
       /\ \A n \in DOMAIN rows : rows[n].key = NoKey
       /\ \A u \in Users : AmountOf(rows, u)
                             = SumFunctionOnSet(payouts, {c \in won : Owner[c] = u})
    <2>1. PICK winners : winners = SetToSeq(won)
        OBVIOUS
    <2>2. IsFiniteSet(won) /\ won \in SUBSET BetIds
        BY <1>7, FS_Subset
    <2>3. \A n \in DOMAIN winners : winners[n] \in won
        BY <2>1, <2>2, EnumerationType DEF Bijection, Injection
    <2>4. \A n \in DOMAIN winners : end[winners[n]].payout = payouts[winners[n]]
        BY <1>7, <1>9, <2>3
    <2>5. rows = [n \in DOMAIN winners |-> WinRow(winners[n], payouts[winners[n]])]
        BY <1>4, <2>1, <2>4
    <2>6. \A b \in won : payouts[b] \in Nat
        BY <1>7, <1>9
    <2>7. rows = [n \in DOMAIN SetToSeq(won) |->
                    WinRow(SetToSeq(won)[n], payouts[SetToSeq(won)[n]])]
        BY <2>1, <2>5
    <2> QED BY <1>5, <2>2, <2>6, <2>7, WinRowsType
<1>17. ledger' \in Seq(Rows) /\ DOMAIN ledger \subseteq DOMAIN ledger'
    <2>1. ledger \o rows \in Seq(Rows) /\ Len(ledger \o rows) = Len(ledger) + Len(rows)
        BY <1>5, <1>16, ConcatProperties
    <2>2. Len(ledger) \in Nat /\ Len(rows) \in Nat
        BY <1>5, <1>16
    <2>3. DOMAIN (ledger \o rows) = 1 .. Len(ledger \o rows) /\ DOMAIN ledger = 1 .. Len(ledger)
        BY <1>5, <2>1
    <2>4. DOMAIN ledger \subseteq DOMAIN (ledger \o rows)
        BY <2>1, <2>2, <2>3
    <2> QED BY <1>1, <2>1, <2>4
<1>18. Explained(wallet', ledger')
    <2>1. \A u \in Users : wallet'[u].balance = Funds + AmountOf(ledger', u)
        <3> TAKE u \in Users
        <3>1. AmountOf(ledger', u) = AmountOf(ledger, u) + AmountOf(rows, u)
            BY <1>1, <1>5, <1>16, AmountOfBoth DEF Typed
        <3>2. AmountOf(ledger, u) \in Int /\ AmountOf(rows, u) \in Int
            BY <1>5, <1>16, AmountIsSum DEF Typed
        <3>3. wallet[u].balance = Funds + AmountOf(ledger, u) /\ Funds \in Int
            BY InvariantNow, DeskAssumption DEF Explained
        <3>4. wallet'[u].balance = wallet[u].balance + AmountOf(rows, u)
            BY <1>12, <1>16
        <3> QED BY <3>1, <3>2, <3>3, <3>4
    <2> QED BY <2>1 DEF Explained
<1>19. OnePerKey(ledger')
    BY <1>1, <1>5, <1>16, InvariantNow, OnePerKeyBoth DEF Typed
<1>20. Exposures(wallet') + settledStakes' = BookTotal(book')
    <2>1. Exposures(wallet) \in Int /\ settledStakes \in Int
        BY InvariantNow, ExposuresType
    <2>2. Exposures(wallet) + settledStakes = BookTotal(book)
        BY InvariantNow
    <2>3. BookTotal(book') = BookTotal(book)
        BY <1>1
    <2> QED BY <1>13, <1>14, <2>1, <2>2, <2>3
<1>21. Typed'
    <2>1. settledStakes' \in Nat
        <3>1. settledStakes \in Nat
            BY InvariantNow
        <3> QED BY <1>14, <3>1
    <2>3. overtaken' \in BOOLEAN
        BY <1>1
    <2>2. version' = version /\ book' = book /\ declared' = declared
        BY <1>1
    <2> QED BY <1>5, <1>12, <1>15, <1>17, <2>1, <2>2, <2>3 DEF Typed
<1>22. \A x \in inflight' : RequestOK(x)'
    BY <1>1, <1>15, <1>17, RequestsNext
<1> QED BY <1>18, <1>19, <1>20, <1>21, <1>22, InvariantNext

-----------------------------------------------------------------------------
(* The invariant *)

LEMMA InitiallyInvariant == ASSUME Init PROVE DeskInv
<1> USE DEF Init
<1>1. TypeOK
    <2>1. wallet \in [Users -> [balance : Nat, exposure : Int]]
        BY DeskAssumption
    <2>2. Placed = {}
        BY DEF Placed
    <2>3. \A b \in Placed : bets[b].template \in Templates /\ bets[b].amount \in Nat \ {0}
        BY <2>2
    <2>4. \A i \in DOMAIN ledger : ledger[i].user \in Users /\ ledger[i].amount \in Int
        OBVIOUS
    <2>5. version \in [BetIds -> Nat] /\ declared \subseteq BetModes
          /\ settledStakes \in Nat /\ overtaken \in BOOLEAN
        OBVIOUS
    <2> QED BY <2>1, <2>3, <2>4, <2>5 DEF TypeOK
<1>2. BookOK(book) /\ BookTotal(book) = 0
    BY DEF BookOK, BookTotal, NoBook, BetModes
<1>3. ledger \in Seq(Rows) /\ DOMAIN ledger = {}
    OBVIOUS
<1>4. DeskOK
    BY <1>1, <1>2, <1>3 DEF DeskOK, BetsOK
<1>5. LedgerExplainsBalance
    <2> SUFFICES ASSUME NEW u \in Users
                 PROVE  wallet[u].balance = Funds + AmountOf(ledger, u)
        BY DEF LedgerExplainsBalance, AmountOf, RowsOf
    <2>1. RowsOf(ledger, u) = {}
        BY <1>3 DEF RowsOf
    <2>2. AmountOf(ledger, u) = 0
        BY <1>3, <2>1, AmountIsSum, SumEmpty
    <2> QED BY <2>2, DeskAssumption
<1>6. CollectionMatchesExposure
    <2>1. PICK f : f = [u \in Users |-> wallet[u].exposure]
        OBVIOUS
    <2>2. \A u \in Users : f[u] = 0
        BY <2>1
    <2>3. SumUp(f) = 0
        BY <2>1, <2>2, SumUpIsSum, SumZero, DeskAssumption
    <2> QED BY <1>2, <2>1, <2>3, BookSum DEF CollectionMatchesExposure
<1>7. AdjustedOnce
    BY <1>3 DEF AdjustedOnce
<1> QED BY <1>4, <1>5, <1>6, <1>7 DEF DeskInv

LEMMA ReadPassKeeps ==
    ASSUME DeskInv, NEW mode \in BetModes, ReadPass(mode) PROVE DeskInv'
<1>1. PICK due : due = {b \in BetIds : bets[b].status = "pending" /\ InPass(bets[b], mode)}
    OBVIOUS
<1>2. PICK request : request = [kind |-> "pass", mode |-> mode, was |-> [b \in due |-> bets[b]]]
    OBVIOUS
<1>3. /\ inflight' = inflight \union {request}
      /\ UNCHANGED <<bets, version, wallet, ledger, book, declared, settledStakes, overtaken>>
    BY <1>1, <1>2 DEF ReadPass
<1>4. RequestOK(request)
    <2>1. /\ request.kind = "pass" /\ DOMAIN request.was = due
          /\ \A b \in due : request.was[b] = bets[b]
        BY <1>2
    <2>2. \A b \in due : b \in BetIds /\ bets[b].status = "pending"
        BY <1>1
    <2>3. \A b \in due : bets[b] # NoBet /\ PendingOK(b, request.was[b])
        BY <2>1, <2>2, TypedNow, PendingBet DEF Typed
    <2> QED BY <2>1, <2>2, <2>3 DEF RequestOK, PassOK
<1>5. \A r \in inflight' : r \in inflight \/ RequestOK(r)
    BY <1>3, <1>4
<1> QED BY <1>3, <1>5, OnlyRequests, TypedNow DEF Typed

LEMMA NextKeeps == ASSUME DeskInv, [Next]_vars PROVE DeskInv'
<1>1. CASE \E order \in Orders : PlaceBets(order)
    BY <1>1, PlaceBetsKeeps
<1>2. CASE \E b \in BetIds : AskEditBet(b) \/ AskEditLine(b) \/ AskDeleteBet(b) \/ AskDeleteLine(b)
    BY <1>2, AskEditBetKeeps, AskEditLineKeeps, AskDeleteBetKeeps, AskDeleteLineKeeps
<1>3. CASE \E f \in FundsAsked : AskAdjustFunds(f)
    BY <1>3, AskAdjustFundsKeeps
<1>4. CASE \E i \in DOMAIN ledger : AskDeleteTransaction(i)
    BY <1>4, AskDeleteTransactionKeeps
<1>5. CASE \E r \in {x \in inflight : x.kind # "pass"} : Commit(r) \/ Abort(r)
    <2>1. PICK r \in inflight : r.kind # "pass" /\ (Commit(r) \/ Abort(r))
        BY <1>5
    <2>2. CASE Commit(r)
        BY <2>1, <2>2, CommitKeeps
    <2>3. CASE Abort(r)
        BY <2>3, OnlyRequests, TypedNow DEF Abort, Typed
    <2> QED BY <2>1, <2>2, <2>3
<1>6. CASE \E mode \in BetModes : Declare(mode) \/ ReadPass(mode)
    <2>1. PICK mode \in BetModes : Declare(mode) \/ ReadPass(mode)
        BY <1>6
    <2>2. CASE Declare(mode)
        BY <2>2, OnlyRequests, TypedNow DEF Declare, Typed
    <2> QED BY <2>1, <2>2, ReadPassKeeps
<1>7. CASE \E r \in {x \in inflight : x.kind = "pass"} : CommitPass(r)
    BY <1>7, CommitPassKeeps
<1>8. CASE UNCHANGED vars
    <2>1. UNCHANGED <<bets, version, wallet, ledger, book, declared, inflight,
                      settledStakes, overtaken>>
        BY <1>8 DEF vars
    <2> QED BY <2>1, OnlyRequests, TypedNow DEF Typed
<1> QED BY <1>1, <1>2, <1>3, <1>4, <1>5, <1>6, <1>7, <1>8 DEF Next

LEMMA AlwaysInvariant == Spec => []DeskInv
<1>1. Init => DeskInv
    BY InitiallyInvariant
<1>2. DeskInv /\ [Next]_vars => DeskInv'
    BY NextKeeps
<1> QED BY <1>1, <1>2, PTL DEF Spec

\* Every stored bet has a stake, however requests that have read the bet overtake
\* each other (the schema refuses the others when a bet is saved); and no request
\* and no pass takes a balance below zero. Of the exposure it says only that it is
\* an integer.
THEOREM DeskTypeCorrect == Spec => []TypeOK
<1>1. DeskInv => TypeOK
    BY DEF DeskInv, DeskOK
<1> QED BY <1>1, AlwaysInvariant, PTL

\* A balance is the opening balance and the amounts of all transactions that were
\* ever written for the user: each transaction of the database writes the wallet
\* and the row of the ledger together, whatever it read before.
THEOREM BalanceIsTheLedger == Spec => []LedgerExplainsBalance
<1>1. DeskInv => LedgerExplainsBalance
    BY DEF DeskInv
<1> QED BY <1>1, AlwaysInvariant, PTL

\* What the wallets hold and the settlement has released is what the books have
\* collected: an edit or a deletion changes the exposure of a wallet by what it
\* changes in the book, also when it works on a bet that was changed meanwhile.
THEOREM CollectionIsHeld == Spec => []CollectionMatchesExposure
<1>1. DeskInv => CollectionMatchesExposure
    BY DEF DeskInv
<1> QED BY <1>1, AlwaysInvariant, PTL

\* However many requests with the key of an adjustment are under way, one of
\* them adjusts the funds: the unique key is looked at where the row is written.
THEOREM FundsAdjustedOnce == Spec => []AdjustedOnce
<1>1. DeskInv => AdjustedOnce
    BY DEF DeskInv
<1> QED BY <1>1, AlwaysInvariant, PTL

-----------------------------------------------------------------------------
(* Books, figure by figure *)

\* The collection of a mode, or what the outcome of a key would cost.
Figure(b, m, c, k) == IF c THEN b[m].collection ELSE AmountAt(b[m].at, k)

\* What a bet adds to it.
Adds(bet, m, c, k) ==
    IF ExposureMode(bet) # m THEN 0
    ELSE IF c THEN bet.amount ELSE AmountAt(GenerateFromBet(bet).at, k)

\* Amounts by key as they are stored: none of them is zero.
CleanAt(at) == at = [k \in DOMAIN at |-> at[k]] /\ \A k \in DOMAIN at : at[k] \in Int \ {0}

CleanBook(b) ==
    /\ b = [m \in BetModes |-> b[m]]
    /\ \A m \in BetModes : /\ b[m] = [collection |-> b[m].collection, at |-> b[m].at]
                           /\ b[m].collection \in Int
                           /\ CleanAt(b[m].at)

\* A bet that can be booked.
Bookable(bet) ==
    /\ ExposureMode(bet) \in BetModes
    /\ bet.amount \in Int
    /\ \A k \in DOMAIN GenerateFromBet(bet).at : GenerateFromBet(bet).at[k] \in Int

LEMMA AmountAtPlus ==
    ASSUME NEW f, NEW g, \A k \in DOMAIN f : f[k] \in Int, \A k \in DOMAIN g : g[k] \in Int
    PROVE  CleanAt(PlusAt(f, g)) /\ \A k : AmountAt(PlusAt(f, g), k) = AmountAt(f, k) + AmountAt(g, k)
<1>1. PICK h : h = [k \in DOMAIN f \union DOMAIN g |-> AmountAt(f, k) + AmountAt(g, k)]
    OBVIOUS
<1>2. \A k : AmountAt(f, k) \in Int /\ AmountAt(g, k) \in Int
    BY DEF AmountAt
<1>3. PICK D : D = {k \in DOMAIN h : h[k] # 0}
    OBVIOUS
<1>4. PlusAt(f, g) = [k \in D |-> h[k]]
    BY <1>1, <1>3 DEF PlusAt, Normalized, Restrict
<1>5. \A k \in D : h[k] \in Int \ {0}
    BY <1>1, <1>2, <1>3
<1>6. \A k : (k \notin D => AmountAt(f, k) + AmountAt(g, k) = 0)
             /\ (k \in D => h[k] = AmountAt(f, k) + AmountAt(g, k))
    <2> TAKE k
    <2>1. CASE k \in DOMAIN f \union DOMAIN g
        BY <1>1, <1>3, <2>1
    <2>2. CASE k \notin DOMAIN f \union DOMAIN g
        BY <1>1, <1>3, <2>2 DEF AmountAt
    <2> QED BY <2>1, <2>2
<1> QED BY <1>4, <1>5, <1>6 DEF CleanAt, AmountAt

LEMMA FigureType ==
    ASSUME NEW b, CleanBook(b), NEW m \in BetModes, NEW c \in BOOLEAN, NEW k
    PROVE  Figure(b, m, c, k) \in Int
<1>1. PICK at : at = b[m].at
    OBVIOUS
<1>2. b[m].collection \in Int /\ CleanAt(at)
    BY <1>1 DEF CleanBook
<1>3. AmountAt(at, k) \in Int
    BY <1>2 DEF CleanAt, AmountAt
<1> QED BY <1>1, <1>2, <1>3 DEF Figure

LEMMA AddsType ==
    ASSUME NEW bet, Bookable(bet), NEW m, NEW c \in BOOLEAN, NEW k PROVE Adds(bet, m, c, k) \in Int
BY DEF Bookable, Adds, AmountAt

\* Adding a bet adds to each figure what the bet adds to it.
LEMMA FiguresAdded ==
    ASSUME NEW b, CleanBook(b), NEW bet, Bookable(bet)
    PROVE  /\ CleanBook(Added(b, bet))
           /\ \A m \in BetModes, c \in BOOLEAN : \A k :
                Figure(Added(b, bet), m, c, k) = Figure(b, m, c, k) + Adds(bet, m, c, k)
<1> PICK n, delta : n = ExposureMode(bet) /\ delta = GenerateFromBet(bet)
    OBVIOUS
<1>1. n \in BetModes /\ delta.mode = n /\ delta.collection = bet.amount
    BY DEF Bookable, GenerateFromBet
<1>2. PICK d : d = [collection |-> b[n].collection + bet.amount, at |-> PlusAt(b[n].at, delta.at)]
    OBVIOUS
<1>3. Added(b, bet) = [b EXCEPT ![n] = d]
    BY <1>1, <1>2 DEF Added, ApplyDelta
<1>4. b = [m \in BetModes |-> b[m]]
    BY DEF CleanBook
<1>5. \A m \in BetModes : Added(b, bet)[m] = IF m = n THEN d ELSE b[m]
    BY <1>3, <1>4
<1>6. Added(b, bet) = [m \in BetModes |-> Added(b, bet)[m]]
    BY <1>3, <1>4
<1>7. /\ CleanAt(PlusAt(b[n].at, delta.at))
      /\ \A k : AmountAt(PlusAt(b[n].at, delta.at), k) = AmountAt(b[n].at, k) + AmountAt(delta.at, k)
    <2>1. \A k \in DOMAIN b[n].at : b[n].at[k] \in Int
        BY <1>1 DEF CleanBook, CleanAt
    <2>2. \A k \in DOMAIN delta.at : delta.at[k] \in Int
        BY DEF Bookable
    <2> QED BY <2>1, <2>2, AmountAtPlus
<1>8. b[n].collection \in Int /\ bet.amount \in Int
    BY <1>1 DEF CleanBook, Bookable
<1>9. /\ d = [collection |-> d.collection, at |-> d.at] /\ d.collection \in Int /\ CleanAt(d.at)
    BY <1>2, <1>7, <1>8
<1>10. CleanBook(Added(b, bet))
    BY <1>5, <1>6, <1>9 DEF CleanBook
<1>11. ASSUME NEW m \in BetModes, NEW c \in BOOLEAN, NEW k
       PROVE  Figure(Added(b, bet), m, c, k) = Figure(b, m, c, k) + Adds(bet, m, c, k)
    <2>1. CASE m = n
        BY <1>2, <1>5, <1>7, <2>1 DEF Figure, Adds
    <2>2. CASE m # n
        BY <1>5, <2>2, FigureType DEF Figure, Adds
    <2> QED BY <2>1, <2>2
<1> QED BY <1>10, <1>11

LEMMA AmountAtNegated ==
    ASSUME NEW f, \A k \in DOMAIN f : f[k] \in Int
    PROVE  /\ \A k \in DOMAIN Negated(f) : Negated(f)[k] \in Int
           /\ \A k : AmountAt(Negated(f), k) = -AmountAt(f, k)
BY DEF Negated, AmountAt

\* Removing it takes the same away, which leaves no key behind.
LEMMA FiguresRemoved ==
    ASSUME NEW b, CleanBook(b), NEW bet, Bookable(bet)
    PROVE  /\ CleanBook(Removed(b, bet))
           /\ \A m \in BetModes, c \in BOOLEAN : \A k :
                Figure(Removed(b, bet), m, c, k) = Figure(b, m, c, k) - Adds(bet, m, c, k)
<1> PICK n, delta : n = ExposureMode(bet) /\ delta = GenerateFromBet(bet)
    OBVIOUS
<1> PICK less : less = Negated(delta.at)
    OBVIOUS
<1>1. n \in BetModes /\ delta.mode = n /\ delta.collection = bet.amount
    BY DEF Bookable, GenerateFromBet
<1>2. PICK d : d = [collection |-> b[n].collection + (-bet.amount), at |-> PlusAt(b[n].at, less)]
    OBVIOUS
<1>3. Removed(b, bet) = [b EXCEPT ![n] = d]
    BY <1>1, <1>2 DEF Removed, ApplyDelta
<1>4. b = [m \in BetModes |-> b[m]]
    BY DEF CleanBook
<1>5. \A m \in BetModes : Removed(b, bet)[m] = IF m = n THEN d ELSE b[m]
    BY <1>3, <1>4
<1>6. Removed(b, bet) = [m \in BetModes |-> Removed(b, bet)[m]]
    BY <1>3, <1>4
<1>7. /\ CleanAt(PlusAt(b[n].at, less))
      /\ \A k : AmountAt(PlusAt(b[n].at, less), k) = AmountAt(b[n].at, k) + (-AmountAt(delta.at, k))
      /\ \A k : AmountAt(b[n].at, k) \in Int /\ AmountAt(delta.at, k) \in Int
    <2>1. \A k \in DOMAIN b[n].at : b[n].at[k] \in Int
        BY <1>1 DEF CleanBook, CleanAt
    <2>2. \A k \in DOMAIN delta.at : delta.at[k] \in Int
        BY DEF Bookable
    <2>3. /\ \A k \in DOMAIN less : less[k] \in Int
          /\ \A k : AmountAt(less, k) = -AmountAt(delta.at, k)
        BY <2>2, AmountAtNegated
    <2>4. /\ CleanAt(PlusAt(b[n].at, less))
          /\ \A k : AmountAt(PlusAt(b[n].at, less), k) = AmountAt(b[n].at, k) + AmountAt(less, k)
        BY <2>1, <2>3, AmountAtPlus
    <2>5. \A k : AmountAt(b[n].at, k) \in Int /\ AmountAt(delta.at, k) \in Int
        BY <2>1, <2>2 DEF AmountAt
    <2> QED BY <2>3, <2>4, <2>5
<1>8. b[n].collection \in Int /\ bet.amount \in Int
    BY <1>1 DEF CleanBook, Bookable
<1>9. /\ d = [collection |-> d.collection, at |-> d.at] /\ d.collection \in Int /\ CleanAt(d.at)
    BY <1>2, <1>7, <1>8
<1>10. CleanBook(Removed(b, bet))
    BY <1>5, <1>6, <1>9 DEF CleanBook
<1>11. ASSUME NEW m \in BetModes, NEW c \in BOOLEAN, NEW k
       PROVE  Figure(Removed(b, bet), m, c, k) = Figure(b, m, c, k) - Adds(bet, m, c, k)
    <2>1. CASE m = n
        <3>1. Removed(b, bet)[m] = d
            BY <1>5, <2>1
        <3>2. d.collection = b[n].collection - bet.amount
            BY <1>2, <1>8
        <3>3. AmountAt(d.at, k) = AmountAt(b[n].at, k) - AmountAt(delta.at, k)
            BY <1>2, <1>7
        <3> QED BY <2>1, <3>1, <3>2, <3>3 DEF Figure, Adds
    <2>2. CASE m # n
        BY <1>5, <2>2, FigureType DEF Figure, Adds
    <2> QED BY <2>1, <2>2
<1> QED BY <1>10, <1>11

\* A book is determined by its figures.
LEMMA SameFigures ==
    ASSUME NEW b, CleanBook(b), NEW d, CleanBook(d),
           \A m \in BetModes, c \in BOOLEAN : \A k : Figure(b, m, c, k) = Figure(d, m, c, k)
    PROVE  b = d
<1>1. ASSUME NEW m \in BetModes PROVE b[m] = d[m]
    <2>1. b[m].collection = d[m].collection
        <3>1. Figure(b, m, TRUE, 0) = Figure(d, m, TRUE, 0)
            OBVIOUS
        <3> QED BY <3>1 DEF Figure
    <2>2. PICK f, g : f = b[m].at /\ g = d[m].at
        OBVIOUS
    <2>3. \A k : AmountAt(f, k) = AmountAt(g, k)
        <3> TAKE k
        <3>1. Figure(b, m, FALSE, k) = Figure(d, m, FALSE, k)
            OBVIOUS
        <3> QED BY <2>2, <3>1 DEF Figure
    <2>4. CleanAt(f) /\ CleanAt(g)
        BY <2>2 DEF CleanBook
    <2>5. DOMAIN f = DOMAIN g
        BY <2>3, <2>4 DEF CleanAt, AmountAt
    <2>6. \A k \in DOMAIN f : f[k] = g[k]
        BY <2>3, <2>5 DEF AmountAt
    <2>7. f = g
        BY <2>4, <2>5, <2>6 DEF CleanAt
    <2> QED BY <2>1, <2>2, <2>7 DEF CleanBook
<1> QED BY <1>1 DEF CleanBook

LEMMA EmptyFigures ==
    /\ CleanBook([m \in BetModes |-> NoBook])
    /\ \A m \in BetModes, c \in BOOLEAN : \A k : Figure([n \in BetModes |-> NoBook], m, c, k) = 0
<1>1. DOMAIN <<>> = {} /\ <<>> = [k \in DOMAIN <<>> |-> <<>>[k]]
    OBVIOUS
<1>2. CleanAt(<<>>)
    BY <1>1 DEF CleanAt
<1> QED BY <1>1, <1>2 DEF CleanBook, Figure, AmountAt, NoBook

LEMMA FiniteBets == IsFiniteSet(BetIds)
BY DeskAssumption

\* A sum over a part of a set, as one over all of it.
LEMMA SumOverAll ==
    ASSUME NEW S, IsFiniteSet(S), NEW T \in SUBSET S, NEW f, Summable(f, T),
           NEW h, \A x \in S : h[x] = IF x \in T THEN f[x] ELSE 0
    PROVE  SumFunctionOnSet(f, T) = SumFunctionOnSet(h, S) /\ Summable(h, S)
<1>1. PICK g : g = [x \in S |-> IF x \in T THEN f[x] ELSE 0]
    OBVIOUS
<1>2. SumFunctionOnSet(f, T) = SumFunctionOnSet(g, S)
    BY <1>1, SumOfPart
<1>3. Summable(g, S) /\ Summable(h, S)
    BY <1>1 DEF Summable
<1>4. Agree(g, h, S)
    BY <1>1 DEF Agree
<1> QED BY <1>2, <1>3, <1>4, SumSame

AddsOf(of, m, c, k) == [b \in DOMAIN of |-> Adds(of[b], m, c, k)]

LEMMA AddsSummable ==
    ASSUME NEW S, IsFiniteSet(S), NEW of, DOMAIN of = S, \A b \in S : Bookable(of[b]),
           NEW m, NEW c \in BOOLEAN, NEW k
    PROVE  Summable(AddsOf(of, m, c, k), S)
BY AddsType DEF AddsOf, Summable

RaisedBy(old, bk, of, S) ==
    /\ CleanBook(bk)
    /\ \A m \in BetModes, c \in BOOLEAN : \A k :
          Figure(bk, m, c, k) = Figure(old, m, c, k) + SumFunctionOnSet(AddsOf(of, m, c, k), S)

\* Several bets add the sum of what each adds, whatever the order.
LEMMA FiguresOfAll ==
    ASSUME NEW old, CleanBook(old), NEW S, IsFiniteSet(S), NEW of, DOMAIN of = S,
           \A b \in S : Bookable(of[b])
    PROVE  RaisedBy(old, AddedAll(old, of), of, S)
<1>1. PICK g : IsBooks(g, old, of, S) /\ AddedAll(old, of) = g[S]
    <2> PICK g : g = CHOOSE h : IsBooks(h, old, of, S)
        OBVIOUS
    <2>1. \E h : IsBooks(h, old, of, S)
        BY BooksExist
    <2>2. IsBooks(g, old, of, S)
        BY <2>1
    <2> QED BY <2>2, BooksUnfold
<1> DEFINE Good(T) ==
             /\ CleanBook(g[T])
             /\ \A m \in BetModes, c \in BOOLEAN : \A k :
                  Figure(g[T], m, c, k)
                    = Figure(old, m, c, k) + SumFunctionOnSet(AddsOf(of, m, c, k), T)
           Bad == {T \in SUBSET S : ~Good(T)}
<1>2. ASSUME Bad # {} PROVE FALSE
    <2>1. PICK T \in Bad : \A U \in SUBSET T : U # T => U \notin Bad
        <3>1. Bad \in SUBSET (SUBSET S)
            OBVIOUS
        <3> HIDE DEF Bad
        <3> QED BY <1>2, <3>1, SmallestSet
    <2>2. T \in SUBSET S /\ ~Good(T)
        BY <2>1
    <2>3. T # {}
        <3> SUFFICES ASSUME T = {} PROVE FALSE
            OBVIOUS
        <3>1. g[T] = old
            BY <1>1, <2>2 DEF IsBooks
        <3>2. \A m \in BetModes, c \in BOOLEAN : \A k :
                 Figure(g[T], m, c, k)
                   = Figure(old, m, c, k) + SumFunctionOnSet(AddsOf(of, m, c, k), T)
            BY <3>1, SumEmpty, FigureType
        <3> QED BY <2>2, <3>1, <3>2
    <2> PICK x : x = First(T)
        OBVIOUS
    <2>4. x \in T /\ x \in S
        BY <2>2, <2>3, FirstIsElement
    <2> PICK U : U = T \ {x}
        OBVIOUS
    <2>5. Good(U)
        <3>1. U \in SUBSET T /\ U # T /\ U \in SUBSET S
            BY <2>2, <2>4
        <3> QED BY <2>1, <3>1
    <2>6. g[T] = Added(g[U], of[x])
        BY <1>1, <2>2, <2>3 DEF IsBooks
    <2>7. CleanBook(g[U]) /\ Bookable(of[x])
        BY <2>4, <2>5
    <2>8. /\ CleanBook(g[T])
          /\ \A m \in BetModes, c \in BOOLEAN : \A k :
                Figure(g[T], m, c, k) = Figure(g[U], m, c, k) + Adds(of[x], m, c, k)
        <3>1. PICK p, bet : p = g[U] /\ bet = of[x]
            OBVIOUS
        <3>2. CleanBook(p) /\ Bookable(bet)
            BY <2>7, <3>1
        <3>3. /\ CleanBook(Added(p, bet))
              /\ \A m \in BetModes, c \in BOOLEAN : \A k :
                   Figure(Added(p, bet), m, c, k) = Figure(p, m, c, k) + Adds(bet, m, c, k)
            BY <3>2, FiguresAdded
        <3>4. g[T] = Added(p, bet)
            BY <2>6, <3>1
        <3> QED BY <3>1, <3>3, <3>4
    <2>9. ASSUME NEW m \in BetModes, NEW c \in BOOLEAN, NEW k
          PROVE  Figure(g[T], m, c, k)
                   = Figure(old, m, c, k) + SumFunctionOnSet(AddsOf(of, m, c, k), T)
        <3> PICK f : f = AddsOf(of, m, c, k)
            OBVIOUS
        <3>1. Summable(f, S)
            BY AddsSummable
        <3>2. Summable(f, T) /\ Summable(f, U)
            BY <2>2, <3>1, SummablePart
        <3>3. SumFunctionOnSet(f, T) = f[x] + SumFunctionOnSet(f, U)
            BY <2>4, <3>2, SumAnyFirst
        <3>4. f[x] = Adds(of[x], m, c, k)
            BY <2>4 DEF AddsOf
        <3>5. SumFunctionOnSet(f, U) \in Int /\ f[x] \in Int /\ Figure(old, m, c, k) \in Int
            BY <2>4, <3>1, <3>2, SumType, FigureType DEF Summable
        <3>6. Figure(g[U], m, c, k) = Figure(old, m, c, k) + SumFunctionOnSet(f, U)
            BY <2>5
        <3>7. Figure(g[T], m, c, k) = Figure(g[U], m, c, k) + f[x]
            BY <2>8, <3>4
        <3> QED BY <3>3, <3>5, <3>6, <3>7
    <2> QED BY <2>2, <2>8, <2>9
<1>3. Good(S)
    BY <1>2
<1> QED BY <1>1, <1>3 DEF RaisedBy

-----------------------------------------------------------------------------
(* Books and wallets as sums over the bets *)

\* The bets that are on the books.
Booked(bet) == bet.status \notin {"none", "cancelled"}

Counts(bs, m, c, k) == [b \in BetIds |-> IF Booked(bs[b]) THEN Adds(bs[b], m, c, k) ELSE 0]

\* Every figure of the books is the sum over all bets of what they count there.
BookAgrees(bk, bs) ==
    /\ CleanBook(bk)
    /\ \A m \in BetModes, c \in BOOLEAN : \A k :
          Figure(bk, m, c, k) = SumFunctionOnSet(Counts(bs, m, c, k), BetIds)

Holds(bs, u) == [b \in BetIds |-> IF Owner[b] = u THEN Held(bs[b]) ELSE 0]

\* Every exposure is what the bets of the user hold.
WalletsAgree(w, bs) ==
    \A u \in Users : w[u].exposure = SumFunctionOnSet(Holds(bs, u), BetIds)

AllOK(bs) == \A b \in BetIds : bs[b] = NoBet \/ BetOK(b, bs[b])

LEMMA BetBookable ==
    ASSUME NEW b \in BetIds, NEW bet, BetOK(b, bet) PROVE Bookable(bet)
<1>1. bet.mode \in BetModes /\ bet.amount \in Int /\ bet.odds \in Nat
    BY DeskAssumption DEF BetOK
<1>2. ExposureMode(bet) \in BetModes
    BY <1>1, ExposureModeType
<1>3. PICK at : at = GenerateFromBet(bet).at
    OBVIOUS
<1>4. CASE bet.template \in Motors
    <2>1. at = [k \in {<<"pana", <<p>> >> : p \in Range(bet.selection)} |->
                  bet.odds * LineStake(bet, k[2][1])]
        BY <1>3, <1>4 DEF GenerateFromBet
    <2>2. ASSUME NEW k \in DOMAIN at PROVE at[k] \in Int
        <3>1. PICK p : p = k[2][1]
            OBVIOUS
        <3>2. LineStake(bet, p) \in Nat
            BY <1>4, LineStakeType
        <3>3. bet.odds * LineStake(bet, p) \in Nat
            BY <1>1, <3>2, ProductType
        <3>4. at[k] = bet.odds * LineStake(bet, p)
            BY <2>1, <3>1
        <3> QED BY <3>3, <3>4
    <2> QED BY <1>1, <1>2, <1>3, <2>2 DEF Bookable
<1>5. CASE bet.template \notin Motors
    <2>1. PICK key : at = [k \in {key} |-> bet.odds * bet.amount]
        BY <1>3, <1>5 DEF GenerateFromBet
    <2>2. bet.amount \in Nat
        BY DEF BetOK
    <2>3. bet.odds * bet.amount \in Nat
        BY <1>1, <2>2, ProductType
    <2>4. \A k \in DOMAIN at : at[k] \in Int
        BY <2>1, <2>3
    <2> QED BY <1>1, <1>2, <1>3, <2>4 DEF Bookable
<1> QED BY <1>4, <1>5

LEMMA CountsType ==
    ASSUME NEW bs, AllOK(bs), NEW m, NEW c \in BOOLEAN, NEW k
    PROVE  /\ Summable(Counts(bs, m, c, k), BetIds)
           /\ SumFunctionOnSet(Counts(bs, m, c, k), BetIds) \in Int
<1>1. ASSUME NEW b \in BetIds PROVE Counts(bs, m, c, k)[b] \in Int
    <2>1. CASE bs[b] = NoBet
        BY <2>1 DEF Counts, Booked, NoBet
    <2>2. CASE BetOK(b, bs[b])
        <3>1. Adds(bs[b], m, c, k) \in Int
            BY <2>2, BetBookable, AddsType
        <3> QED BY <3>1 DEF Counts
    <2> QED BY <2>1, <2>2 DEF AllOK
<1>2. Summable(Counts(bs, m, c, k), BetIds)
    BY <1>1, FiniteBets DEF Summable
<1> QED BY <1>2, SumType

LEMMA HoldsType ==
    ASSUME NEW bs, AllOK(bs), NEW u
    PROVE  /\ Summable(Holds(bs, u), BetIds)
           /\ SumFunctionOnSet(Holds(bs, u), BetIds) \in Int
<1>1. ASSUME NEW b \in BetIds PROVE Holds(bs, u)[b] \in Int
    <2>1. CASE bs[b] = NoBet
        BY <2>1 DEF Holds, Held, NoBet
    <2>2. CASE BetOK(b, bs[b])
        BY <2>2, HeldType DEF Holds
    <2> QED BY <2>1, <2>2 DEF AllOK
<1>2. Summable(Holds(bs, u), BetIds)
    BY <1>1, FiniteBets DEF Summable
<1> QED BY <1>2, SumType

LEMMA CountsOfBooked ==
    ASSUME NEW bs, AllOK(bs), NEW S \in SUBSET BetIds, \A b \in BetIds : b \in S <=> Booked(bs[b]),
           NEW of, DOMAIN of = S, \A b \in S : of[b] = bs[b],
           NEW m, NEW c \in BOOLEAN, NEW k
    PROVE  /\ SumFunctionOnSet(AddsOf(of, m, c, k), S)
                = SumFunctionOnSet(Counts(bs, m, c, k), BetIds)
           /\ SumFunctionOnSet(AddsOf(of, m, c, k), S) \in Int
<1> PICK f, g : f = AddsOf(of, m, c, k) /\ g = Counts(bs, m, c, k)
    OBVIOUS
<1>1. \A b \in BetIds : g[b] = IF b \in S THEN f[b] ELSE 0
    BY DEF Counts, AddsOf
<1>2. Summable(g, BetIds)
    BY CountsType
<1>3. Summable(f, S)
    <2>1. \A b \in S : f[b] \in Int
        BY <1>1, <1>2 DEF Summable
    <2> QED BY <2>1, FS_Subset, FiniteBets DEF Summable
<1> QED BY <1>1, <1>3, SumOverAll, SumType, FiniteBets

\* The books that agree with the bets are those that the bets make from nothing.
LEMMA BookIsRebuilt ==
    ASSUME AllOK(bets), BookAgrees(book, bets)
    PROVE  book = AddedAll([m \in BetModes |-> NoBook],
                           Restrict(bets, {b \in Placed : bets[b].status # "cancelled"}))
<1> PICK S, none, of : /\ S = {b \in Placed : bets[b].status # "cancelled"}
                       /\ none = [m \in BetModes |-> NoBook]
                       /\ of = [b \in S |-> bets[b]]
    OBVIOUS
<1>1. S \in SUBSET BetIds /\ IsFiniteSet(S) /\ DOMAIN of = S
    BY FS_Subset, FiniteBets DEF Placed
<1>2. Restrict(bets, S) = of
    BY DEF Restrict
<1>3. \A b \in BetIds : b \in S <=> Booked(bets[b])
    <2> TAKE b \in BetIds
    <2>1. CASE bets[b] = NoBet
        BY <2>1 DEF Placed, Booked, NoBet
    <2>2. CASE BetOK(b, bets[b])
        BY <2>2, BetIsNotNoBet DEF Placed, Booked, BetOK
    <2> QED BY <2>1, <2>2 DEF AllOK
<1>4. \A b \in S : Bookable(of[b])
    <2> TAKE b \in S
    <2>1. b \in BetIds /\ of[b] = bets[b] /\ BetOK(b, bets[b])
        BY <1>1 DEF Placed, AllOK
    <2> QED BY <2>1, BetBookable
<1>5. CleanBook(none) /\ \A m \in BetModes, c \in BOOLEAN : \A k : Figure(none, m, c, k) = 0
    BY EmptyFigures
<1>6. PICK rebuilt : rebuilt = AddedAll(none, of)
    OBVIOUS
<1>7. RaisedBy(none, rebuilt, of, S)
    BY <1>1, <1>4, <1>5, <1>6, FiguresOfAll
<1>8. ASSUME NEW m \in BetModes, NEW c \in BOOLEAN, NEW k
      PROVE  Figure(book, m, c, k) = Figure(rebuilt, m, c, k)
    <2>1. /\ SumFunctionOnSet(AddsOf(of, m, c, k), S) = SumFunctionOnSet(Counts(bets, m, c, k), BetIds)
          /\ SumFunctionOnSet(AddsOf(of, m, c, k), S) \in Int
        BY <1>1, <1>3, CountsOfBooked
    <2>2. Figure(book, m, c, k) = SumFunctionOnSet(Counts(bets, m, c, k), BetIds)
        BY DEF BookAgrees
    <2>3. Figure(rebuilt, m, c, k)
            = Figure(none, m, c, k) + SumFunctionOnSet(AddsOf(of, m, c, k), S)
        BY <1>7 DEF RaisedBy
    <2>4. Figure(none, m, c, k) = 0
        BY <1>5
    <2> QED BY <2>1, <2>2, <2>3, <2>4
<1>9. CleanBook(book)
    BY DEF BookAgrees
<1>10. book = rebuilt
    <2>1. CleanBook(rebuilt)
        BY <1>7 DEF RaisedBy
    <2> QED BY <1>8, <1>9, <2>1, SameFigures
<1> QED BY <1>2, <1>6, <1>10

\* The exposure that agrees with the bets is the sum over those of the user.
LEMMA WalletIsRebuilt ==
    ASSUME AllOK(bets), WalletsAgree(wallet, bets), NEW u \in Users
    PROVE  wallet[u].exposure = SumUp([b \in {c \in BetIds : Owner[c] = u} |-> Held(bets[b])])
<1> PICK S, f, g : /\ S = {c \in BetIds : Owner[c] = u}
                   /\ f = [b \in S |-> Held(bets[b])]
                   /\ g = Holds(bets, u)
    OBVIOUS
<1>1. S \in SUBSET BetIds
    OBVIOUS
<1>2. Summable(g, BetIds)
    BY HoldsType
<1>3. \A b \in S : f[b] = g[b]
    BY DEF Holds
<1>4. Summable(f, S)
    <2>1. IsFiniteSet(S)
        BY <1>1, FS_Subset, FiniteBets
    <2> QED BY <1>1, <1>2, <1>3, <2>1 DEF Summable
<1>5. \A b \in BetIds : g[b] = IF b \in S THEN f[b] ELSE 0
    BY DEF Holds
<1>6. SumFunctionOnSet(f, S) = SumFunctionOnSet(g, BetIds)
    BY <1>1, <1>4, <1>5, SumOverAll, FiniteBets
<1>7. SumUp(f) = SumFunctionOnSet(f, S)
    BY SumUpIsSum
<1> QED BY <1>6, <1>7 DEF WalletsAgree

-----------------------------------------------------------------------------
(* What a change of the bets does to these sums *)

Counted(bet, m, c, k) == IF Booked(bet) THEN Adds(bet, m, c, k) ELSE 0

OnlyBet(bs, ds, b) == \A x \in BetIds : x # b => ds[x] = bs[x]

LEMMA CountsOfOne ==
    ASSUME NEW bs, NEW ds, AllOK(bs), AllOK(ds), NEW b \in BetIds, OnlyBet(bs, ds, b),
           NEW m, NEW c \in BOOLEAN, NEW k
    PROVE  SumFunctionOnSet(Counts(ds, m, c, k), BetIds)
             = SumFunctionOnSet(Counts(bs, m, c, k), BetIds)
                 - Counted(bs[b], m, c, k) + Counted(ds[b], m, c, k)
<1> PICK f, g : f = Counts(bs, m, c, k) /\ g = Counts(ds, m, c, k)
    OBVIOUS
<1>1. Summable(f, BetIds) /\ Summable(g, BetIds)
    BY CountsType
<1>2. AgreeBut(f, g, BetIds, b)
    BY DEF AgreeBut, Counts, OnlyBet
<1>3. f[b] = Counted(bs[b], m, c, k) /\ g[b] = Counted(ds[b], m, c, k)
    BY DEF Counts, Counted
<1> QED BY <1>1, <1>2, <1>3, SumChange

LEMMA HoldsOfOne ==
    ASSUME NEW bs, NEW ds, AllOK(bs), AllOK(ds), NEW b \in BetIds, OnlyBet(bs, ds, b), NEW u
    PROVE  SumFunctionOnSet(Holds(ds, u), BetIds)
             = SumFunctionOnSet(Holds(bs, u), BetIds)
                 + IF Owner[b] = u THEN Held(ds[b]) - Held(bs[b]) ELSE 0
<1> PICK f, g : f = Holds(bs, u) /\ g = Holds(ds, u)
    OBVIOUS
<1>1. Summable(f, BetIds) /\ Summable(g, BetIds)
    BY HoldsType
<1>2. AgreeBut(f, g, BetIds, b)
    BY DEF AgreeBut, Holds, OnlyBet
<1>3. SumFunctionOnSet(g, BetIds) = SumFunctionOnSet(f, BetIds) - f[b] + g[b]
    BY <1>1, <1>2, SumChange
<1>4. f[b] \in Int /\ g[b] \in Int /\ SumFunctionOnSet(f, BetIds) \in Int
    BY <1>1, SumType DEF Summable
<1>5. CASE Owner[b] = u
    <2>1. f[b] = Held(bs[b]) /\ g[b] = Held(ds[b])
        BY <1>5 DEF Holds
    <2> QED BY <1>3, <1>4, <1>5, <2>1
<1>6. CASE Owner[b] # u
    <2>1. f[b] = 0 /\ g[b] = 0
        BY <1>6 DEF Holds
    <2> QED BY <1>3, <1>4, <1>6, <2>1
<1> QED BY <1>5, <1>6

\* Bets that are placed.
Fresh(bs, ds, order) ==
    \A b \in BetIds : IF b \in order
                      THEN bs[b] = NoBet /\ ds[b].status = "pending"
                      ELSE ds[b] = bs[b]

LEMMA CountsOfNew ==
    ASSUME NEW bs, NEW ds, AllOK(bs), AllOK(ds), NEW order \in SUBSET BetIds, Fresh(bs, ds, order),
           NEW new, DOMAIN new = order, \A b \in order : ds[b] = new[b] /\ Bookable(new[b]),
           NEW m, NEW c \in BOOLEAN, NEW k
    PROVE  SumFunctionOnSet(Counts(ds, m, c, k), BetIds)
             = SumFunctionOnSet(Counts(bs, m, c, k), BetIds)
                 + SumFunctionOnSet(AddsOf(new, m, c, k), order)
<1> PICK f, g, h : f = Counts(bs, m, c, k) /\ g = AddsOf(new, m, c, k) /\ h = Counts(ds, m, c, k)
    OBVIOUS
<1>1. IsFiniteSet(order)
    BY FS_Subset, FiniteBets
<1>2. Summable(f, BetIds) /\ Summable(g, order)
    BY <1>1, CountsType, AddsSummable
<1>3. ASSUME NEW b \in BetIds PROVE h[b] = IF b \in order THEN f[b] + g[b] ELSE f[b]
    <2>1. CASE b \in order
        <3>1. f[b] = 0
            BY <2>1 DEF Fresh, Counts, Booked, NoBet
        <3>2. h[b] = Adds(new[b], m, c, k) /\ g[b] = Adds(new[b], m, c, k)
            BY <2>1 DEF Fresh, Counts, Booked, AddsOf
        <3>3. g[b] \in Int
            BY <1>2, <2>1 DEF Summable
        <3> QED BY <2>1, <3>1, <3>2, <3>3
    <2>2. CASE b \notin order
        BY <2>2 DEF Fresh, Counts
    <2> QED BY <2>1, <2>2
<1> QED BY <1>2, <1>3, SumRaise

LEMMA HoldsOfNew ==
    ASSUME NEW bs, NEW ds, AllOK(bs), AllOK(ds), NEW order \in SUBSET BetIds, Fresh(bs, ds, order),
           NEW stakes, \A b \in order : stakes[b] = ds[b].amount,
           NEW user, \A b \in order : Owner[b] = user,
           NEW u
    PROVE  SumFunctionOnSet(Holds(ds, u), BetIds)
             = SumFunctionOnSet(Holds(bs, u), BetIds)
                 + IF u = user THEN SumFunctionOnSet(stakes, order) ELSE 0
<1> PICK f, h : f = Holds(bs, u) /\ h = Holds(ds, u)
    OBVIOUS
<1>1. Summable(f, BetIds)
    BY HoldsType
<1>2. CASE u = user
    <2>1. \A b \in order : stakes[b] \in Int
        BY DEF AllOK, Fresh, BetOK, NoBet
    <2>2. Summable(stakes, order)
        BY <2>1, FS_Subset, FiniteBets DEF Summable
    <2>3. ASSUME NEW b \in BetIds PROVE h[b] = IF b \in order THEN f[b] + stakes[b] ELSE f[b]
        <3>1. CASE b \in order
            <4>1. f[b] = 0 /\ h[b] = stakes[b]
                BY <1>2, <3>1 DEF Fresh, Holds, Held, NoBet
            <4> QED BY <2>1, <3>1, <4>1
        <3>2. CASE b \notin order
            BY <3>2 DEF Fresh, Holds
        <3> QED BY <3>1, <3>2
    <2> QED BY <1>1, <1>2, <2>2, <2>3, SumRaise
<1>3. CASE u # user
    <2>1. Agree(f, h, BetIds)
        BY <1>3 DEF Agree, Fresh, Holds
    <2> QED BY <1>1, <1>3, <2>1, SumSame, SumType
<1> QED BY <1>2, <1>3

\* Bets that are settled keep what they were booked with.
SameStake(bet, next) ==
    /\ next.template = bet.template /\ next.mode = bet.mode /\ next.odds = bet.odds
    /\ next.selection = bet.selection /\ next.amount = bet.amount
    /\ next.stakes = bet.stakes /\ next.per = bet.per

LEMMA SameStakeAdds ==
    ASSUME NEW bet, NEW next, SameStake(bet, next), NEW m, NEW c, NEW k
    PROVE  Adds(next, m, c, k) = Adds(bet, m, c, k)
<1>1. ExposureMode(next) = ExposureMode(bet)
    BY DEF SameStake, ExposureMode
<1>2. \A p : LineStake(next, p) = LineStake(bet, p)
    BY DEF SameStake, LineStake, RowStake
<1>3. GenerateFromBet(next).at = GenerateFromBet(bet).at
    <2>1. CASE bet.template \in Motors
        <3> DEFINE S == {<<"pana", <<p>> >> : p \in Range(bet.selection)}
        <3>1. [k2 \in S |-> next.odds * LineStake(next, k2[2][1])]
                = [k2 \in S |-> bet.odds * LineStake(bet, k2[2][1])]
            BY <1>2 DEF SameStake
        <3> QED BY <2>1, <3>1 DEF SameStake, GenerateFromBet
    <2>2. CASE bet.template \notin Motors
        BY <2>2 DEF SameStake, GenerateFromBet
    <2> QED BY <2>1, <2>2
<1> QED BY <1>1, <1>3 DEF SameStake, Adds

SettledSome(bs, ds, due) ==
    \A b \in BetIds : IF b \in due
                      THEN /\ SameStake(bs[b], ds[b])
                           /\ bs[b].status = "pending" /\ ds[b].status \in {"won", "lost"}
                      ELSE ds[b] = bs[b]

LEMMA CountsOfSettled ==
    ASSUME NEW bs, NEW ds, NEW due, SettledSome(bs, ds, due), NEW m, NEW c, NEW k
    PROVE  Counts(ds, m, c, k) = Counts(bs, m, c, k)
<1>1. ASSUME NEW b \in BetIds PROVE Counted(ds[b], m, c, k) = Counted(bs[b], m, c, k)
    <2>1. CASE b \in due
        BY <2>1, SameStakeAdds DEF SettledSome, Counted, Booked
    <2>2. CASE b \notin due
        BY <2>2 DEF SettledSome
    <2> QED BY <2>1, <2>2
<1> QED BY <1>1 DEF Counts, Counted

LEMMA HoldsOfSettled ==
    ASSUME NEW bs, NEW ds, AllOK(bs), AllOK(ds), NEW due \in SUBSET BetIds,
           SettledSome(bs, ds, due), NEW u, NEW stakes, \A b \in due : stakes[b] = bs[b].amount
    PROVE  SumFunctionOnSet(Holds(ds, u), BetIds)
             = SumFunctionOnSet(Holds(bs, u), BetIds)
                 - SumFunctionOnSet(stakes, {b \in due : Owner[b] = u})
<1> PICK f, h, T : f = Holds(bs, u) /\ h = Holds(ds, u) /\ T = {b \in due : Owner[b] = u}
    OBVIOUS
<1>1. Summable(f, BetIds) /\ Summable(h, BetIds)
    BY HoldsType
<1>2. T \in SUBSET BetIds
    OBVIOUS
<1>3. ASSUME NEW b \in T PROVE stakes[b] \in Int /\ f[b] = stakes[b] /\ h[b] = 0
    <2>1. b \in BetIds /\ b \in due /\ Owner[b] = u
        OBVIOUS
    <2>2. bs[b].status = "pending" /\ ds[b].status # "pending"
        BY <2>1 DEF SettledSome
    <2>3. BetOK(b, bs[b])
        BY <2>1, <2>2 DEF AllOK, NoBet
    <2> QED BY <2>1, <2>2, <2>3 DEF Holds, Held, BetOK
<1>4. Summable(stakes, T)
    BY <1>2, <1>3, FS_Subset, FiniteBets DEF Summable
<1>5. ASSUME NEW b \in BetIds PROVE f[b] = IF b \in T THEN h[b] + stakes[b] ELSE h[b]
    <2>1. CASE b \in T
        BY <1>3, <2>1
    <2>2. CASE b \notin T
        <3>1. CASE Owner[b] = u
            BY <2>2, <3>1 DEF SettledSome, Holds
        <3>2. CASE Owner[b] # u
            BY <2>2, <3>2 DEF Holds
        <3> QED BY <3>1, <3>2
    <2> QED BY <2>1, <2>2
<1>6. SumFunctionOnSet(f, BetIds) = SumFunctionOnSet(h, BetIds) + SumFunctionOnSet(stakes, T)
    BY <1>1, <1>2, <1>4, <1>5, SumRaise
<1>7. SumFunctionOnSet(h, BetIds) \in Int /\ SumFunctionOnSet(stakes, T) \in Int
    BY <1>1, <1>4, SumType
<1> QED BY <1>6, <1>7

-----------------------------------------------------------------------------
(* What an outcome would cost *)

\* The parts of a bet that is no motor bet have the lengths its game asks for.
Formed(bet) ==
    bet.template \notin Motors =>
      /\ bet.per = NoStake
      /\ DOMAIN bet.selection = DOMAIN RULE_TEMPLATES[bet.template]
      /\ \A i \in DOMAIN bet.selection :
            DOMAIN bet.selection[i] = 1 .. RULE_TEMPLATES[bet.template][i].length

Singles == Templates \ Motors

LEMMA PartsOf ==
    /\ RULE_TEMPLATES["SINGLE_DIGIT"] = <<DigitPart(1)>>
    /\ RULE_TEMPLATES["JODI"] = <<DigitPart(2)>>
    /\ RULE_TEMPLATES["SINGLE_PANA"] = <<PanaPart("single")>>
    /\ RULE_TEMPLATES["DOUBLE_PANA"] = <<PanaPart("double")>>
    /\ RULE_TEMPLATES["TRIPLE_PANA"] = <<PanaPart("triple")>>
    /\ RULE_TEMPLATES["HALF_SANGAM_A"] = <<PanaPart("any"), DigitPart(1)>>
    /\ RULE_TEMPLATES["HALF_SANGAM_B"] = <<DigitPart(1), PanaPart("any")>>
    /\ RULE_TEMPLATES["FULL_SANGAM"] = <<PanaPart("any"), PanaPart("any")>>
BY DEF RULE_TEMPLATES

LEMMA CanonicalDomain == ASSUME NEW v PROVE DOMAIN Canonical(v) = DOMAIN v
BY DEF Canonical, SortDigits

\* The lengths of the parts of a game, as sets of indices.
LEMMA PartTypes ==
    ASSUME NEW t \in Singles, NEW i \in DOMAIN RULE_TEMPLATES[t]
    PROVE  LET part == RULE_TEMPLATES[t][i]
           IN  /\ part.type \in {"digit", "pana"}
               /\ part.type = "pana" => part.length = 3
BY DEF Singles, Templates, Motors, RULE_TEMPLATES, DigitPart, PanaPart, Part

LEMMA PartLength ==
    ASSUME NEW t \in Singles, NEW i \in DOMAIN RULE_TEMPLATES[t], NEW v \in Seq(Digits),
           ValidPart(RULE_TEMPLATES[t][i], v)
    PROVE  DOMAIN v = 1 .. RULE_TEMPLATES[t][i].length
<1> PICK part : part = RULE_TEMPLATES[t][i]
    OBVIOUS
<1>1. part.type \in {"digit", "pana"} /\ (part.type = "pana" => part.length = 3)
    BY PartTypes
<1>2. Len(v) = part.length
    BY <1>1 DEF ValidPart, ValidPana, IsPana
<1> QED BY <1>2

APana(p) == DOMAIN p = 1 .. 3
ADigit(p) == DOMAIN p = 1 .. 1

LEMMA DigitsAreNoPanas ==
    /\ \A p, q : ADigit(p) /\ APana(q) => p # q
    /\ \A d : ADigit(<<d>>)
    /\ \A p : APana(p) => p # NoPana
<1>1. 3 \in 1 .. 3 /\ 3 \notin 1 .. 1 /\ 1 \in 1 .. 3
    OBVIOUS
<1>2. DOMAIN NoPana = {}
    BY DEF NoPana
<1> QED BY <1>1, <1>2 DEF ADigit, APana

KeyOf(bet) == <<KeyType[bet.template], bet.selection>>

\* Single games go by the pana or its digit.
LEMMA SingleHits ==
    ASSUME NEW bet, bet.template \in Singles \ Combined, Formed(bet), NEW pana, APana(pana),
           NEW mode, NEW open, NEW after
    PROVE  IsWinningBet(bet, pana, after) <=> KeyOf(bet) \in OutcomeKeys(pana, mode, open)
<1> PICK s, digit : s = bet.selection /\ digit = <<DigitOf(pana)>>
    OBVIOUS
<1>1. IsWinningBet(bet, pana, after) <=> s = <<digit>> \/ s = <<pana>>
    BY DigitsAreNoPanas DEF IsWinningBet, WinsOn, Singles
<1>2. ADigit(digit)
    BY DigitsAreNoPanas
<1>3. CASE bet.template = "SINGLE_DIGIT"
    <2>1. ADigit(s[1])
        BY <1>3, PartsOf DEF Formed, DigitPart, Part, ADigit, Motors
    <2>2. s # <<pana>>
        BY <2>1, DigitsAreNoPanas
    <2>3. KeyOf(bet) = <<"single", s>>
        BY <1>3 DEF KeyOf, KeyType
    <2>4. KeyOf(bet) \in OutcomeKeys(pana, mode, open) <=> s = <<digit>>
        BY <2>3 DEF OutcomeKeys, CompositeKeys
    <2> QED BY <1>1, <2>2, <2>4
<1>4. CASE bet.template \in {"SINGLE_PANA", "DOUBLE_PANA", "TRIPLE_PANA"}
    <2>1. APana(s[1])
        BY <1>4, PartsOf DEF Formed, PanaPart, Part, APana, Motors
    <2>2. s # <<digit>>
        BY <1>2, <2>1, DigitsAreNoPanas
    <2>3. KeyOf(bet) = <<"pana", s>>
        BY <1>4 DEF KeyOf, KeyType
    <2>4. KeyOf(bet) \in OutcomeKeys(pana, mode, open) <=> s = <<pana>>
        BY <2>3 DEF OutcomeKeys, CompositeKeys
    <2> QED BY <1>1, <2>2, <2>4
<1> QED BY <1>3, <1>4 DEF Singles, Combined, Templates, RULE_TEMPLATES, Motors

\* The others need both results, and go by one form of them each.
LEMMA CombinedHits ==
    ASSUME NEW bet, bet.template \in Combined, Formed(bet), NEW pana, APana(pana),
           NEW open, open = NoPana \/ APana(open),
           NEW after, after["open"] = open, after["close"] = pana
    PROVE  IsWinningBet(bet, pana, after) <=> KeyOf(bet) \in OutcomeKeys(pana, "close", open)
<1> PICK s, t, first, last : /\ s = bet.selection /\ t = bet.template
                             /\ first = <<DigitOf(open)>> /\ last = <<DigitOf(pana)>>
    OBVIOUS
<1>1. ADigit(first) /\ ADigit(last) /\ pana # NoPana
    BY DigitsAreNoPanas
<1>2. t \notin Motors /\ t \in {"JODI", "HALF_SANGAM_A", "HALF_SANGAM_B", "FULL_SANGAM"}
    BY DEF Motors, Combined
<1>3. CASE open = NoPana
    <2>1. ~IsWinningBet(bet, pana, after)
        BY <1>3 DEF IsWinningBet, IsDrawn
    <2>2. KeyOf(bet)[1] \notin {"single", "pana"}
        BY <1>2 DEF KeyOf, KeyType
    <2> QED BY <1>3, <2>1, <2>2 DEF OutcomeKeys
<1>4. CASE open # NoPana
    <2>1. IsWinningBet(bet, pana, after)
            <=> IF t = "JODI" THEN s = << <<DigitOf(open), DigitOf(pana)>> >>
                ELSE s \in {<<open, last>>, <<first, pana>>, <<open, pana>>}
        BY <1>1, <1>4 DEF IsWinningBet, IsDrawn, SangamResults
    <2>2. OutcomeKeys(pana, "close", open)
            = {<<"single", <<last>> >>, <<"pana", <<pana>> >>,
               <<"jodi", << <<DigitOf(open), DigitOf(pana)>> >> >>,
               <<"HS_A", <<open, last>> >>, <<"HS_B", <<first, pana>> >>, <<"FS", <<open, pana>> >>}
        BY <1>4 DEF OutcomeKeys, CompositeKeys
    <2>3. APana(open)
        BY <1>4
    <2>4. CASE t = "JODI"
        BY <2>1, <2>2, <2>4 DEF KeyOf, KeyType
    <2>5. CASE t = "HALF_SANGAM_A"
        <3>1. APana(s[1]) /\ ADigit(s[2])
            BY <1>2, <2>5, PartsOf DEF Formed, PanaPart, DigitPart, Part, APana, ADigit
        <3>2. s # <<first, pana>> /\ s # <<open, pana>>
            BY <1>1, <3>1, DigitsAreNoPanas
        <3>3. KeyOf(bet) = <<"HS_A", s>>
            BY <2>5 DEF KeyOf, KeyType
        <3>4. KeyOf(bet) \in OutcomeKeys(pana, "close", open) <=> s = <<open, last>>
            BY <2>2, <3>3
        <3> QED BY <2>1, <2>5, <3>2, <3>4
    <2>6. CASE t = "HALF_SANGAM_B"
        <3>1. ADigit(s[1]) /\ APana(s[2])
            BY <1>2, <2>6, PartsOf DEF Formed, PanaPart, DigitPart, Part, APana, ADigit
        <3>2. s # <<open, last>> /\ s # <<open, pana>>
            BY <1>1, <2>3, <3>1, DigitsAreNoPanas
        <3>3. KeyOf(bet) = <<"HS_B", s>>
            BY <2>6 DEF KeyOf, KeyType
        <3>4. KeyOf(bet) \in OutcomeKeys(pana, "close", open) <=> s = <<first, pana>>
            BY <2>2, <3>3
        <3> QED BY <2>1, <2>6, <3>2, <3>4
    <2>7. CASE t = "FULL_SANGAM"
        <3>1. APana(s[1]) /\ APana(s[2])
            BY <1>2, <2>7, PartsOf DEF Formed, PanaPart, Part, APana
        <3>2. s # <<open, last>> /\ s # <<first, pana>>
            BY <1>1, <3>1, DigitsAreNoPanas
        <3>3. KeyOf(bet) = <<"FS", s>>
            BY <2>7 DEF KeyOf, KeyType
        <3>4. KeyOf(bet) \in OutcomeKeys(pana, "close", open) <=> s = <<open, pana>>
            BY <2>2, <3>3
        <3> QED BY <2>1, <2>7, <3>2, <3>4
    <2> QED BY <1>2, <2>4, <2>5, <2>6, <2>7
<1> QED BY <1>3, <1>4

-----------------------------------------------------------------------------
(* The lines of a motor bet *)

\* The panas of a motor bet are distinct; once its lines have stakes, each line
\* has one, and they sum to the stake of the bet.
LinesAgree(bet) ==
    /\ bet.template \in Motors => IsInjective(bet.selection)
    /\ DOMAIN bet.stakes # {} => /\ bet.template \in Motors
                                 /\ DOMAIN bet.stakes = Range(bet.selection)
                                 /\ SumUp(bet.stakes) = bet.amount

\* Only a bet that has won has a payout.
Agrees(bet) == LinesAgree(bet) /\ Formed(bet) /\ (bet.status # "won" => bet.payout = 0)

LEMMA EmptyStakes == DOMAIN <<>> = {}
OBVIOUS

LEMMA NewBetAgrees ==
    ASSUME NEW b \in BetIds,
           ValidBet(Asked[b].template, "BOTH", Asked[b].mode, Asked[b].value)
    PROVE  Agrees(NewBet(Asked[b].template, Asked[b].mode, Asked[b].value,
                         Asked[b].amount, Asked[b].odds))
<1> PICK t, v : t = Asked[b].template /\ v = Asked[b].value
    OBVIOUS
<1>1. t \in Motors => IsInjective(v[1])
    <2> SUFFICES ASSUME t \in Motors PROVE IsInjective(v[1])
        OBVIOUS
    <2>1. DOMAIN RULE_TEMPLATES[t] = {1} /\ RULE_TEMPLATES[t][1].type = "pana_set"
        BY DEF RULE_TEMPLATES, Motors, PanasPart, Part
    <2>2. ValidPart(RULE_TEMPLATES[t][1], v[1])
        BY <2>1 DEF ValidBet
    <2> QED BY <2>1, <2>2 DEF ValidPart, ValidPanaSet
<1>2. PICK bet : bet = NewBet(t, Asked[b].mode, v, Asked[b].amount, Asked[b].odds)
    OBVIOUS
<1>3. /\ bet.template = t /\ bet.selection = Selection(t, v) /\ DOMAIN bet.stakes = {}
      /\ bet.payout = 0
    BY <1>2, EmptyStakes DEF NewBet
<1>4. t \in Motors => bet.selection = v[1]
    BY <1>3 DEF Selection
<1>5. Formed(bet)
    <2> SUFFICES ASSUME t \notin Motors PROVE Formed(bet)
        BY <1>3 DEF Formed
    <2>1. t \in Singles /\ v \in Seq(Seq(Digits)) /\ DOMAIN v = DOMAIN RULE_TEMPLATES[t]
        BY DeskAssumption, ValuesAssumption DEF Singles, ValidBet
    <2>2. \A i \in DOMAIN v : DOMAIN v[i] = 1 .. RULE_TEMPLATES[t][i].length
        <3> TAKE i \in DOMAIN v
        <3>1. v[i] \in Seq(Digits) /\ ValidPart(RULE_TEMPLATES[t][i], v[i])
            BY <2>1 DEF ValidBet
        <3> QED BY <2>1, <3>1, PartLength
    <2>3. bet.selection = CanonicalSelection(v) /\ bet.per = NoStake
        BY <1>2 DEF NewBet, Selection
    <2>4. DOMAIN bet.selection = DOMAIN v /\ \A i \in DOMAIN v : DOMAIN bet.selection[i] = DOMAIN v[i]
        BY <2>3, CanonicalDomain DEF CanonicalSelection
    <2> QED BY <1>3, <2>1, <2>2, <2>3, <2>4 DEF Formed
<1> QED BY <1>1, <1>2, <1>3, <1>4, <1>5 DEF Agrees, LinesAgree

LEMMA EditedBetAgrees ==
    ASSUME NEW b, NEW bet, PendingOK(b, bet), Agrees(bet), NEW amount
    PROVE  Agrees(EditedBet(bet, amount, bet.selection))
<1>1. PICK next : next = EditedBet(bet, amount, bet.selection)
    OBVIOUS
<1>2. /\ next.template = bet.template /\ next.status = bet.status /\ next.payout = bet.payout
    BY <1>1 DEF EditedBet, PendingOK, BetOK, Fields
<1>3. CASE bet.template \in Motors
    <2>1. next.selection = bet.selection /\ DOMAIN next.stakes = {}
        BY <1>1, <1>3, EmptyStakes DEF EditedBet, PendingOK, BetOK, Fields
    <2> QED BY <1>1, <1>2, <1>3, <2>1 DEF Agrees, LinesAgree, Formed
<1>4. CASE bet.template \notin Motors
    <2>1. /\ next.stakes = bet.stakes /\ next.per = bet.per
          /\ next.selection = CanonicalSelection(bet.selection)
        BY <1>1, <1>4 DEF EditedBet, PendingOK, BetOK, Fields
    <2>2. /\ DOMAIN next.selection = DOMAIN bet.selection
          /\ \A i \in DOMAIN bet.selection : DOMAIN next.selection[i] = DOMAIN bet.selection[i]
        BY <2>1, CanonicalDomain DEF CanonicalSelection
    <2>3. Formed(next)
        BY <1>2, <2>1, <2>2 DEF Agrees, Formed
    <2> QED BY <1>1, <1>2, <1>4, <2>1, <2>3 DEF Agrees, LinesAgree
<1> QED BY <1>3, <1>4

LEMMA CancelledAgrees ==
    ASSUME NEW b, NEW bet, BetOK(b, bet), Agrees(bet) PROVE Agrees(Cancelled(bet))
BY DEF Cancelled, Agrees, LinesAgree, Formed, BetOK, Fields

LEMMA RangeMoved ==
    ASSUME NEW s \in Seq(Seq(Digits)), NEW pana \in Range(s), NEW to, IsInjective(s),
           to = pana \/ to \notin Range(s)
    PROVE  /\ Range(Moved(s, pana, to)) = (Range(s) \ {pana}) \union {to}
           /\ IsInjective(Moved(s, pana, to))
<1>1. PICK m : m = Moved(s, pana, to)
    OBVIOUS
<1>2. DOMAIN m = DOMAIN s /\ \A i \in DOMAIN s : m[i] = IF s[i] = pana THEN to ELSE s[i]
    BY <1>1 DEF Moved
<1>3. Range(m) = (Range(s) \ {pana}) \union {to}
    BY <1>2 DEF Range
<1>4. \A i \in DOMAIN s : s[i] \in Range(s)
    BY DEF Range
<1>5. IsInjective(m)
    <2> SUFFICES ASSUME NEW i \in DOMAIN s, NEW j \in DOMAIN s, m[i] = m[j] PROVE i = j
        BY <1>2, Zenon DEF IsInjective
    <2>1. s[i] = s[j] => i = j
        BY DEF IsInjective
    <2>2. /\ m[i] = IF s[i] = pana THEN to ELSE s[i]
          /\ m[j] = IF s[j] = pana THEN to ELSE s[j]
          /\ s[i] \in Range(s) /\ s[j] \in Range(s)
        BY <1>2, <1>4
    <2>3. CASE to = pana
        BY <2>1, <2>2, <2>3
    <2>4. CASE to \notin Range(s)
        BY <2>1, <2>2, <2>4
    <2> QED BY <2>3, <2>4
<1> QED BY <1>1, <1>3, <1>5

LEMMA LineStakesDomain ==
    ASSUME NEW bet, LinesAgree(bet) PROVE DOMAIN LineStakes(bet) = Range(bet.selection)
BY DEF LinesAgree, LineStakes

LEMMA EditedLineAgrees ==
    ASSUME NEW b, NEW bet, PendingOK(b, bet), Agrees(bet), NEW pana, NEW to, NEW stake,
           CanEditLine(bet, pana, to, stake)
    PROVE  Agrees(EditedLine(bet, pana, to, stake))
<1> PICK selection : selection = Moved(bet.selection, pana, to)
    OBVIOUS
<1> PICK stakes : stakes = [p \in (DOMAIN LineStakes(bet) \ {pana}) \union {to} |->
                              IF p = to THEN stake ELSE LineStakes(bet)[p]]
    OBVIOUS
<1> PICK amount : amount = SumUp([p \in Range(selection) |-> stakes[p]])
    OBVIOUS
<1>1. /\ bet.template \in Motors /\ pana \in Range(bet.selection)
      /\ to = pana \/ to \notin Range(bet.selection)
      /\ bet.selection \in Seq(Seq(Digits)) /\ LinesAgree(bet) /\ IsInjective(bet.selection)
    BY DEF CanEditLine, PendingOK, BetOK, Agrees, LinesAgree
<1>2. Range(selection) = (Range(bet.selection) \ {pana}) \union {to} /\ IsInjective(selection)
    BY <1>1, RangeMoved
<1>3. DOMAIN stakes = Range(selection)
    BY <1>1, <1>2, LineStakesDomain
<1>4. stakes = [p \in Range(selection) |-> stakes[p]]
    <2>1. stakes = [p \in DOMAIN stakes |-> stakes[p]]
        OBVIOUS
    <2> QED BY <1>3, <2>1
<1>5. SumUp(stakes) = amount
    BY <1>4
<1>6. PICK next : next = EditedLine(bet, pana, to, stake)
    OBVIOUS
<1>7. next = [bet EXCEPT !.selection = selection, !.stakes = stakes, !.per = NoStake,
                         !.amount = amount]
    BY <1>6 DEF EditedLine
<1>8. /\ next.selection = selection /\ next.stakes = stakes /\ next.amount = amount
      /\ next.template = bet.template /\ next.status = bet.status /\ next.payout = bet.payout
    BY <1>7 DEF PendingOK, BetOK, Fields
<1> QED BY <1>1, <1>2, <1>3, <1>5, <1>6, <1>8 DEF Agrees, LinesAgree, Formed

LEMMA AroundOne ==
    ASSUME NEW n \in Nat, NEW i \in 1 .. n
    PROVE  /\ (i - 1) + (n - i) = n - 1
           /\ \A j \in 1 .. n - 1 : IF j <= i - 1 THEN j \in 1 .. n /\ j # i
                                    ELSE j + 1 \in 1 .. n /\ j + 1 # i
           /\ \A k \in 1 .. n : k # i => \/ k <= i - 1 /\ k \in 1 .. n - 1
                                         \/ ~(k - 1 <= i - 1) /\ k - 1 \in 1 .. n - 1 /\ (k - 1) + 1 = k
OBVIOUS

LEMMA RangeWithout ==
    ASSUME NEW S, NEW s \in Seq(S), NEW p \in Range(s), IsInjective(s)
    PROVE  /\ Range(Without(s, p)) = Range(s) \ {p}
           /\ IsInjective(Without(s, p))
<1>1. PICK i : i \in DOMAIN s /\ s[i] = p /\ i = CHOOSE j \in DOMAIN s : s[j] = p
    BY DEF Range
<1>2. PICK n : n = Len(s) /\ n \in Nat /\ DOMAIN s = 1 .. n /\ i \in 1 .. n
    BY <1>1
<1>3. PICK w, l, r : w = Without(s, p) /\ l = SubSeq(s, 1, i - 1) /\ r = SubSeq(s, i + 1, n)
    OBVIOUS
<1>4. w = l \o r
    BY <1>1, <1>2, <1>3 DEF Without, RemoveAt
<1>5. /\ l \in Seq(S) /\ Len(l) = i - 1 /\ \A j \in 1 .. i - 1 : l[j] = s[j]
    <2>1. \A j \in 1 .. i - 1 : s[j] \in S
        BY <1>2
    <2> QED BY <1>2, <1>3, <2>1, SubSeqProperties
<1>6. /\ r \in Seq(S) /\ Len(r) = n - i /\ \A j \in 1 .. n - i : r[j] = s[i + j]
    <2>1. \A j \in i + 1 .. n : s[j] \in S
        BY <1>2
    <2> QED BY <1>2, <1>3, <2>1, SubSeqProperties
<1>7. /\ DOMAIN w = 1 .. n - 1
      /\ \A j \in 1 .. n - 1 : w[j] = IF j <= i - 1 THEN s[j] ELSE s[j + 1]
    <2>1. w \in Seq(S) /\ Len(w) = n - 1
        BY <1>2, <1>4, <1>5, <1>6, ConcatProperties, AroundOne
    <2>2. ASSUME NEW j \in 1 .. n - 1 PROVE w[j] = IF j <= i - 1 THEN s[j] ELSE s[j + 1]
        <3>1. CASE j <= i - 1
            <4>1. w[j] = l[j]
                BY <1>2, <1>4, <1>5, <1>6, <3>1, ConcatProperties
            <4> QED BY <1>2, <1>5, <3>1, <4>1
        <3>2. CASE ~(j <= i - 1)
            <4>1. w[j] = r[j - (i - 1)] /\ j - (i - 1) \in 1 .. n - i /\ i + (j - (i - 1)) = j + 1
                BY <1>2, <1>4, <1>5, <1>6, <3>2, ConcatProperties
            <4> QED BY <1>6, <3>2, <4>1
        <3> QED BY <3>1, <3>2
    <2> QED BY <2>1, <2>2
<1>8. \A k \in 1 .. n : s[k] = p <=> k = i
    BY <1>1, <1>2 DEF IsInjective
<1>9. Range(w) = Range(s) \ {p}
    <2>1. ASSUME NEW j \in 1 .. n - 1 PROVE w[j] \in Range(s) \ {p}
        <3>1. PICK x : x = IF j <= i - 1 THEN j ELSE j + 1
            OBVIOUS
        <3>2. x \in 1 .. n /\ x # i /\ w[j] = s[x]
            BY <1>2, <1>7, <3>1, AroundOne
        <3>3. s[x] \in Range(s) /\ s[x] # p
            BY <1>2, <1>8, <3>2 DEF Range
        <3> QED BY <3>2, <3>3
    <2>2. ASSUME NEW k \in 1 .. n, k # i PROVE \E j \in 1 .. n - 1 : w[j] = s[k]
        <3>1. CASE k <= i - 1 /\ k \in 1 .. n - 1
            BY <1>7, <3>1
        <3>2. CASE ~(k - 1 <= i - 1) /\ k - 1 \in 1 .. n - 1 /\ (k - 1) + 1 = k
            BY <1>7, <3>2
        <3> QED BY <1>2, <2>2, <3>1, <3>2, AroundOne
    <2>3. Range(w) = {w[j] : j \in 1 .. n - 1} /\ Range(s) = {s[k] : k \in 1 .. n}
        BY <1>2, <1>7 DEF Range
    <2>4. \A x \in Range(w) : x \in Range(s) \ {p}
        BY <2>1, <2>3
    <2>5. \A x \in Range(s) \ {p} : x \in Range(w)
        <3> TAKE x \in Range(s) \ {p}
        <3>1. PICK k \in 1 .. n : s[k] = x
            BY <2>3
        <3>2. k # i
            BY <1>8, <3>1
        <3> QED BY <2>2, <2>3, <3>1, <3>2
    <2> QED BY <2>4, <2>5
<1>10. IsInjective(w)
    <2> SUFFICES ASSUME NEW j \in 1 .. n - 1, NEW k \in 1 .. n - 1, w[j] = w[k] PROVE j = k
        BY <1>7, Zenon DEF IsInjective
    <2>1. PICK x, y : /\ x = (IF j <= i - 1 THEN j ELSE j + 1)
                      /\ y = (IF k <= i - 1 THEN k ELSE k + 1)
        OBVIOUS
    <2>2. x \in 1 .. n /\ y \in 1 .. n /\ s[x] = s[y]
        BY <1>2, <1>7, <2>1, AroundOne
    <2>3. x = y
        BY <1>2, <2>2 DEF IsInjective
    <2> QED BY <1>2, <2>1, <2>3
<1> QED BY <1>3, <1>9, <1>10

LEMMA RestrictedSum ==
    ASSUME NEW f, IsFiniteSet(DOMAIN f), \A x \in DOMAIN f : f[x] \in Int, NEW p \in DOMAIN f
    PROVE  SumUp(Restrict(f, DOMAIN f \ {p})) = SumUp(f) - f[p]
<1>1. PICK S, g : S = DOMAIN f \ {p} /\ g = Restrict(f, DOMAIN f \ {p})
    OBVIOUS
<1>2. DOMAIN g = S /\ Agree(f, g, S)
    BY <1>1 DEF Restrict, Agree
<1>3. Summable(f, DOMAIN f) /\ Summable(f, S)
    BY <1>1, FS_Subset DEF Summable
<1>4. SumUp(g) = SumFunctionOnSet(f, S) /\ SumUp(f) = SumFunctionOnSet(f, DOMAIN f)
    BY <1>2, <1>3, SumUpOf, SumUpIsSum
<1> QED BY <1>1, <1>3, <1>4, SumRemove

LEMMA FiniteRange == ASSUME NEW S, NEW s \in Seq(S) PROVE IsFiniteSet(Range(s))
<1>1. s \in Surjection(DOMAIN s, Range(s))
    BY DEF Surjection, Range
<1>2. IsFiniteSet(DOMAIN s)
    BY FS_Interval
<1> QED BY <1>1, <1>2, FS_Surjection

LEMMA LineRemovedAgrees ==
    ASSUME NEW b, NEW bet, PendingOK(b, bet), Agrees(bet), bet.template \in Motors,
           NEW pana \in Range(bet.selection)
    PROVE  Agrees(LineRemoved(bet, pana))
<1> PICK selection, amount, stakes :
        /\ selection = Without(bet.selection, pana)
        /\ amount = bet.amount - LineStake(bet, pana)
        /\ stakes = Restrict(bet.stakes, DOMAIN bet.stakes \ {pana})
    OBVIOUS
<1>1. PICK next : next = LineRemoved(bet, pana)
    OBVIOUS
<1>2. PICK per : next = [bet EXCEPT !.selection = selection, !.amount = amount,
                                    !.stakes = stakes, !.per = per]
    BY <1>1 DEF LineRemoved
<1>3. /\ next.selection = selection /\ next.stakes = stakes /\ next.amount = amount
      /\ next.template = bet.template /\ next.status = bet.status /\ next.payout = bet.payout
    BY <1>2 DEF PendingOK, BetOK, Fields
<1>4. bet.selection \in Seq(Seq(Digits)) /\ LinesAgree(bet) /\ IsInjective(bet.selection)
    BY DEF PendingOK, BetOK, Agrees, LinesAgree
<1>5. Range(selection) = Range(bet.selection) \ {pana} /\ IsInjective(selection)
    BY <1>4, RangeWithout
<1>6. DOMAIN stakes = DOMAIN bet.stakes \ {pana}
    BY DEF Restrict
<1>7. ASSUME DOMAIN stakes # {}
      PROVE  DOMAIN stakes = Range(selection) /\ SumUp(stakes) = amount
    <2>1. DOMAIN bet.stakes = Range(bet.selection) /\ SumUp(bet.stakes) = bet.amount
        BY <1>4, <1>6, <1>7 DEF LinesAgree
    <2>2. LineStake(bet, pana) = bet.stakes[pana]
        BY <2>1 DEF LineStake
    <2>3. IsFiniteSet(DOMAIN bet.stakes) /\ \A p \in DOMAIN bet.stakes : bet.stakes[p] \in Int
        BY <1>4, <2>1, FiniteRange DEF PendingOK, BetOK
    <2>4. SumUp(stakes) = SumUp(bet.stakes) - bet.stakes[pana]
        BY <2>1, <2>3, RestrictedSum
    <2> QED BY <1>5, <1>6, <2>1, <2>2, <2>4
<1> QED BY <1>1, <1>3, <1>5, <1>7 DEF Agrees, LinesAgree, Formed

\* What is settled keeps its lines, and pays only if it has won.
LEMMA SettledAgrees ==
    ASSUME NEW bet, NEW next, Agrees(bet), SameStake(bet, next),
           next.status # "won" => next.payout = 0
    PROVE  Agrees(next)
BY DEF Agrees, LinesAgree, Formed, SameStake

-----------------------------------------------------------------------------
(* Bets, books and wallets agree until a request is overtaken *)

\* The inductive form of BetsAgree: sums over all bets instead of a fold and of
\* sums over those of a user, and the same of the bets that changes under way write.
BetsAgreed ==
    /\ BookAgrees(book, bets)
    /\ WalletsAgree(wallet, bets)
    /\ \A b \in BetIds : bets[b] = NoBet \/ Agrees(bets[b])
    /\ \A r \in inflight : r.kind = "change" => Agrees(r.next)

LEMMA BetsAre == ASSUME DeskInv PROVE AllOK(bets)
BY DEF DeskInv, DeskOK, BetsOK, AllOK

LEMMA PendingAgrees ==
    ASSUME DeskInv, BetsAgreed, NEW b \in BetIds, bets[b].status = "pending"
    PROVE  PendingOK(b, bets[b]) /\ Agrees(bets[b])
BY TypedNow, PendingBet DEF Typed, BetsAgreed

\* A step that writes neither bets nor books nor exposures.
LEMMA OnlyRequestsAgree ==
    ASSUME BetsAgreed, UNCHANGED <<bets, book>>,
           \A u \in Users : wallet'[u].exposure = wallet[u].exposure,
           \A r \in inflight' : r \in inflight \/ (r.kind = "change" => Agrees(r.next))
    PROVE  BetsAgreed'
<1>1. BookAgrees(book', bets') /\ \A b \in BetIds : bets'[b] = NoBet \/ Agrees(bets'[b])
    BY DEF BetsAgreed
<1>2. WalletsAgree(wallet', bets')
    BY DEF BetsAgreed, WalletsAgree
<1>3. \A r \in inflight' : r.kind = "change" => Agrees(r.next)
    BY DEF BetsAgreed
<1> QED BY <1>1, <1>2, <1>3 DEF BetsAgreed

LEMMA AskAgrees ==
    ASSUME BetsAgreed, NEW request, Ask(request),
           \A n : LET r == [request EXCEPT !.nr = n] IN r.kind = "change" => Agrees(r.next)
    PROVE  BetsAgreed'
<1>1. PICK n : inflight' = inflight \union {[request EXCEPT !.nr = n]}
    BY DEF Ask
<1>2. UNCHANGED <<bets, book>> /\ \A u \in Users : wallet'[u].exposure = wallet[u].exposure
    BY DEF Ask
<1>3. \A r \in inflight' : r \in inflight \/ (r.kind = "change" => Agrees(r.next))
    BY <1>1
<1> QED BY <1>2, <1>3, OnlyRequestsAgree

LEMMA AskChangeAgrees ==
    ASSUME BetsAgreed, NEW b, NEW next, Ask(Change(b, next)), Agrees(next) PROVE BetsAgreed'
<1>1. PICK request : request = Change(b, next)
    OBVIOUS
<1>2. \A n : LET r == [request EXCEPT !.nr = n] IN r.kind = "change" => Agrees(r.next)
    <2> TAKE n
    <2>1. [request EXCEPT !.nr = n].next = next
        BY <1>1 DEF Change
    <2> QED BY <2>1
<1> QED BY <1>1, <1>2, AskAgrees

LEMMA AskEditBetAgrees ==
    ASSUME DeskInv, BetsAgreed, NEW b \in BetIds, AskEditBet(b) PROVE BetsAgreed'
<1>1. PendingOK(b, bets[b]) /\ Agrees(bets[b])
    BY PendingAgrees DEF AskEditBet
<1>2. PICK amount \in Amounts : Ask(Change(b, EditedBet(bets[b], amount, bets[b].selection)))
    BY DEF AskEditBet
<1>3. PICK next : next = EditedBet(bets[b], amount, bets[b].selection)
    OBVIOUS
<1>4. Agrees(next)
    BY <1>1, <1>3, EditedBetAgrees
<1> QED BY <1>2, <1>3, <1>4, AskChangeAgrees

LEMMA AskEditLineAgrees ==
    ASSUME DeskInv, BetsAgreed, NEW b \in BetIds, AskEditLine(b) PROVE BetsAgreed'
<1>1. PendingOK(b, bets[b]) /\ Agrees(bets[b])
    BY PendingAgrees DEF AskEditLine
<1>2. PICK pana, to, stake :
         /\ CanEditLine(bets[b], pana, to, stake)
         /\ Ask(Change(b, EditedLine(bets[b], pana, to, stake)))
    BY DEF AskEditLine
<1>3. PICK next : next = EditedLine(bets[b], pana, to, stake)
    OBVIOUS
<1>4. Agrees(next)
    BY <1>1, <1>2, <1>3, EditedLineAgrees
<1> QED BY <1>2, <1>3, <1>4, AskChangeAgrees

LEMMA AskDeleteBetAgrees ==
    ASSUME DeskInv, BetsAgreed, NEW b \in BetIds, AskDeleteBet(b) PROVE BetsAgreed'
<1>1. PendingOK(b, bets[b]) /\ Agrees(bets[b])
    BY PendingAgrees DEF AskDeleteBet
<1>2. Agrees(Cancelled(bets[b]))
    BY <1>1, CancelledAgrees DEF PendingOK
<1> QED BY <1>2, AskChangeAgrees DEF AskDeleteBet

LEMMA AskDeleteLineAgrees ==
    ASSUME DeskInv, BetsAgreed, NEW b \in BetIds, AskDeleteLine(b) PROVE BetsAgreed'
<1>1. PendingOK(b, bets[b]) /\ Agrees(bets[b]) /\ bets[b].template \in Motors
    BY PendingAgrees DEF AskDeleteLine
<1>2. PICK pana \in Range(bets[b].selection) :
         Ask(Change(b, IF Len(bets[b].selection) = 1 THEN Cancelled(bets[b])
                       ELSE LineRemoved(bets[b], pana)))
    BY DEF AskDeleteLine
<1>3. PICK next : next = IF Len(bets[b].selection) = 1 THEN Cancelled(bets[b])
                         ELSE LineRemoved(bets[b], pana)
    OBVIOUS
<1>4. Agrees(next)
    BY <1>1, <1>2, <1>3, CancelledAgrees, LineRemovedAgrees DEF PendingOK
<1> QED BY <1>2, <1>3, <1>4, AskChangeAgrees

LEMMA AskAdjustFundsAgrees ==
    ASSUME BetsAgreed, NEW f, AskAdjustFunds(f) PROVE BetsAgreed'
<1>1. PICK request : request = [kind |-> "funds", nr |-> 1, row |-> FundsRow(f)]
    OBVIOUS
<1>2. \A n : LET r == [request EXCEPT !.nr = n] IN r.kind = "change" => Agrees(r.next)
    <2> TAKE n
    <2>1. [request EXCEPT !.nr = n].kind = "funds"
        BY <1>1
    <2> QED BY <2>1
<1> QED BY <1>1, <1>2, AskAgrees DEF AskAdjustFunds

LEMMA AskDeleteTransactionAgrees ==
    ASSUME BetsAgreed, NEW i, AskDeleteTransaction(i) PROVE BetsAgreed'
<1>1. PICK request : request = [kind |-> "unbook", nr |-> 1, at |-> i, row |-> ledger[i]]
    OBVIOUS
<1>2. \A n : LET r == [request EXCEPT !.nr = n] IN r.kind = "change" => Agrees(r.next)
    <2> TAKE n
    <2>1. [request EXCEPT !.nr = n].kind = "unbook"
        BY <1>1
    <2> QED BY <2>1
<1> QED BY <1>1, <1>2, AskAgrees DEF AskDeleteTransaction

\* What is done to a wallet, as its exposures see it.
LEMMA HoldExposes ==
    ASSUME wallet \in Wallets, NEW u \in Users, NEW amount \in Int,
           NEW x \in Users
    PROVE  Hold(u, amount)[x].exposure = wallet[x].exposure + IF x = u THEN amount ELSE 0
<1>1. wallet[x].exposure \in Int
    BY DEF Wallets
<1>2. CASE x = u
    BY <1>1, <1>2 DEF Hold, Wallets
<1>3. CASE x # u
    <2>1. Hold(u, amount)[x] = wallet[x]
        BY <1>3 DEF Hold, Wallets
    <2> QED BY <1>1, <1>3, <2>1
<1> QED BY <1>2, <1>3

LEMMA AdjustedExposes ==
    ASSUME wallet \in Wallets, NEW u \in Users, NEW amount, NEW v,
           v = [wallet EXCEPT ![u].balance = amount], NEW x \in Users
    PROVE  v[x].exposure = wallet[x].exposure
BY DEF Wallets

LEMMA CommitFundsAgrees ==
    ASSUME DeskInv, BetsAgreed, NEW r \in inflight, r.kind = "funds", CommitFunds(r),
           inflight' \subseteq inflight
    PROVE  BetsAgreed'
<1>1. PICK user, amount : user = r.row.user /\ amount = wallet[user].balance + r.row.amount
    OBVIOUS
<1>2. user \in Users
    BY <1>1 DEF DeskInv, DeskOK, RequestOK, Rows
<1>3. wallet' = [wallet EXCEPT ![user].balance = amount] /\ UNCHANGED <<bets, book>>
    BY <1>1 DEF CommitFunds
<1>4. \A x \in Users : wallet'[x].exposure = wallet[x].exposure
    BY <1>2, <1>3, TypedNow, AdjustedExposes DEF Typed
<1> QED BY <1>3, <1>4, OnlyRequestsAgree

LEMMA CommitUnbookAgrees ==
    ASSUME DeskInv, BetsAgreed, NEW r \in inflight, r.kind = "unbook", CommitUnbook(r),
           inflight' \subseteq inflight
    PROVE  BetsAgreed'
<1>1. PICK user, amount : user = r.row.user /\ amount = wallet[user].balance - r.row.amount
    OBVIOUS
<1>2. user \in Users
    BY <1>1 DEF DeskInv, DeskOK, RequestOK, Rows
<1>3. wallet' = [wallet EXCEPT ![user].balance = amount] /\ UNCHANGED <<bets, book>>
    BY <1>1 DEF CommitUnbook
<1>4. \A x \in Users : wallet'[x].exposure = wallet[x].exposure
    BY <1>2, <1>3, TypedNow, AdjustedExposes DEF Typed
<1> QED BY <1>3, <1>4, OnlyRequestsAgree

LEMMA PlaceBetsAgrees ==
    ASSUME DeskInv, DeskInv', BetsAgreed, NEW order \in Orders, PlaceBets(order) PROVE BetsAgreed'
<1>1. PICK new, total, user :
         /\ new = [b \in order |-> NewBet(Asked[b].template, Asked[b].mode, Asked[b].value,
                                          Asked[b].amount, Asked[b].odds)]
         /\ total = SumUp([b \in order |-> Asked[b].amount])
         /\ user = Owner[CHOOSE b \in order : TRUE]
    OBVIOUS
<1>2. /\ \A b \in order : /\ bets[b] = NoBet
                          /\ ValidBet(Asked[b].template, "BOTH", Asked[b].mode, Asked[b].value)
      /\ wallet' = Hold(user, total)
      /\ bets' = [b \in BetIds |-> IF b \in order THEN new[b] ELSE bets[b]]
      /\ book' = AddedAll(book, new)
      /\ UNCHANGED inflight
    BY <1>1 DEF PlaceBets
<1>3. /\ order \in SUBSET BetIds /\ IsFiniteSet(order) /\ user \in Users
      /\ \A b \in order : Owner[b] = user
    <2>1. order \in SUBSET BetIds /\ order # {}
        BY DeskAssumption
    <2>2. (CHOOSE b \in order : TRUE) \in order
        BY <2>1
    <2>3. user \in Users /\ \A b \in order : Owner[b] = user
        BY <1>1, <2>1, <2>2, DeskAssumption
    <2> QED BY <2>1, <2>3, FS_Subset, FiniteBets
<1>4. AllOK(bets) /\ AllOK(bets')
    BY BetsAre DEF DeskInv, DeskOK, BetsOK, AllOK
<1>5. \A b \in order : /\ PendingOK(b, new[b]) /\ Agrees(new[b]) /\ bets'[b] = new[b]
                       /\ Bookable(new[b]) /\ new[b].amount = Asked[b].amount
    <2> TAKE b \in order
    <2>1. PendingOK(b, new[b]) /\ Agrees(new[b])
        BY <1>1, <1>2, <1>3, NewBetType, NewBetAgrees
    <2>2. new[b].amount = Asked[b].amount /\ bets'[b] = new[b]
        BY <1>1, <1>2, <1>3 DEF NewBet
    <2> QED BY <1>3, <2>1, <2>2, BetBookable DEF PendingOK
<1>6. DOMAIN new = order
    BY <1>1
<1>7. Fresh(bets, bets', order)
    BY <1>2, <1>5 DEF Fresh, PendingOK
<1>8. BookAgrees(book', bets')
    <2>1. CleanBook(book) /\ RaisedBy(book, book', new, order)
        BY <1>2, <1>3, <1>5, <1>6, FiguresOfAll DEF BetsAgreed, BookAgrees
    <2>2. ASSUME NEW m \in BetModes, NEW c \in BOOLEAN, NEW k
          PROVE  Figure(book', m, c, k) = SumFunctionOnSet(Counts(bets', m, c, k), BetIds)
        <3>1. Figure(book', m, c, k)
                = Figure(book, m, c, k) + SumFunctionOnSet(AddsOf(new, m, c, k), order)
            BY <2>1 DEF RaisedBy
        <3>2. Figure(book, m, c, k) = SumFunctionOnSet(Counts(bets, m, c, k), BetIds)
            BY DEF BetsAgreed, BookAgrees
        <3>3. SumFunctionOnSet(Counts(bets', m, c, k), BetIds)
                = SumFunctionOnSet(Counts(bets, m, c, k), BetIds)
                    + SumFunctionOnSet(AddsOf(new, m, c, k), order)
            BY <1>3, <1>4, <1>5, <1>6, <1>7, CountsOfNew
        <3> QED BY <3>1, <3>2, <3>3
    <2> QED BY <2>1, <2>2 DEF BookAgrees, RaisedBy
<1>9. PICK stakes : stakes = [b \in order |-> Asked[b].amount]
    OBVIOUS
<1>10. total = SumFunctionOnSet(stakes, order) /\ total \in Int
    <2>1. total = SumFunctionOnSet(stakes, order)
        BY <1>1, <1>9, SumUpIsSum
    <2>2. \A b \in order : stakes[b] \in Nat
        BY <1>3, <1>9, DeskAssumption
    <2>3. SumFunctionOnSet(stakes, order) \in Nat
        BY <1>3, <2>2, SumNatural
    <2> QED BY <2>1, <2>3
<1>11. WalletsAgree(wallet', bets')
    <2>1. ASSUME NEW u \in Users
          PROVE  wallet'[u].exposure = SumFunctionOnSet(Holds(bets', u), BetIds)
        <3>1. wallet'[u].exposure = wallet[u].exposure + IF u = user THEN total ELSE 0
            BY <1>2, <1>3, <1>10, TypedNow, HoldExposes DEF Typed
        <3>2. wallet[u].exposure = SumFunctionOnSet(Holds(bets, u), BetIds)
            BY DEF BetsAgreed, WalletsAgree
        <3>3. \A b \in order : stakes[b] = bets'[b].amount
            BY <1>5, <1>9
        <3>4. SumFunctionOnSet(Holds(bets', u), BetIds)
                = SumFunctionOnSet(Holds(bets, u), BetIds)
                    + IF u = user THEN SumFunctionOnSet(stakes, order) ELSE 0
            <4> PICK bs, ds : bs = bets /\ ds = bets'
                OBVIOUS
            <4>1. /\ AllOK(bs) /\ AllOK(ds) /\ Fresh(bs, ds, order)
                  /\ \A x \in order : stakes[x] = ds[x].amount
                BY <1>4, <1>7, <3>3
            <4>2. order \in SUBSET BetIds /\ \A x \in order : Owner[x] = user
                BY <1>3
            <4>3. SumFunctionOnSet(Holds(ds, u), BetIds)
                    = SumFunctionOnSet(Holds(bs, u), BetIds)
                        + IF u = user THEN SumFunctionOnSet(stakes, order) ELSE 0
                BY <4>1, <4>2, HoldsOfNew
            <4> QED BY <4>3
        <3> QED BY <1>10, <3>1, <3>2, <3>4
    <2> QED BY <2>1 DEF WalletsAgree
<1>12. \A b \in BetIds : bets'[b] = NoBet \/ Agrees(bets'[b])
    BY <1>2, <1>5 DEF BetsAgreed
<1>13. \A r \in inflight' : r.kind = "change" => Agrees(r.next)
    BY <1>2 DEF BetsAgreed
<1> QED BY <1>8, <1>11, <1>12, <1>13 DEF BetsAgreed

\* A request that has not been overtaken writes the bet it carries.
LEMMA SavedIsNext ==
    ASSUME NEW b, NEW was, NEW next, BetOK(b, was), BetOK(b, next)
    PROVE  LET saved == Saved(was, was, next)
           IN  /\ SameStake(next, saved) /\ saved.status = next.status
               /\ saved.payout = next.payout
<1> PICK saved : saved = Saved(was, was, next)
    OBVIOUS
<1>1. \A f \in Fields : saved[f] = next[f]
    BY DEF Saved, BetOK
<1> QED BY <1>1 DEF SameStake, Fields

LEMMA SameAgrees ==
    ASSUME NEW bet, NEW next, SameStake(bet, next), Agrees(bet),
           next.status = bet.status, next.payout = bet.payout
    PROVE  Agrees(next)
BY DEF Agrees, LinesAgree, Formed, SameStake

\* What a change does to the figures of the books.
LEMMA RebookedFigures ==
    ASSUME NEW r, r.bet \in BetIds, CleanBook(book), PendingOK(r.bet, r.was), BetOK(r.bet, r.next),
           r.next.status \in {"pending", "cancelled"}
    PROVE  /\ CleanBook(Rebooked(r))
           /\ \A m \in BetModes, c \in BOOLEAN : \A k :
                Figure(Rebooked(r), m, c, k)
                  = Figure(book, m, c, k) - Adds(r.was, m, c, k) + Counted(r.next, m, c, k)
<1>1. PICK was, next, rest : was = r.was /\ next = r.next /\ rest = Removed(book, was)
    OBVIOUS
<1>2. Bookable(was) /\ Bookable(next)
    BY <1>1, BetBookable DEF PendingOK
<1>3. /\ CleanBook(rest)
      /\ \A m \in BetModes, c \in BOOLEAN : \A k :
           Figure(rest, m, c, k) = Figure(book, m, c, k) - Adds(was, m, c, k)
    BY <1>1, <1>2, FiguresRemoved
<1>4. CASE next.status = "pending"
    <2>1. Rebooked(r) = Added(rest, next)
        BY <1>1, <1>4 DEF Rebooked
    <2>2. /\ CleanBook(Added(rest, next))
          /\ \A m \in BetModes, c \in BOOLEAN : \A k :
               Figure(Added(rest, next), m, c, k) = Figure(rest, m, c, k) + Adds(next, m, c, k)
        BY <1>2, <1>3, FiguresAdded
    <2>3. \A m, c, k : Counted(next, m, c, k) = Adds(next, m, c, k)
        BY <1>4 DEF Counted, Booked
    <2> QED BY <1>1, <1>3, <2>1, <2>2, <2>3
<1>5. CASE next.status # "pending"
    <2>1. Rebooked(r) = rest
        BY <1>1, <1>5 DEF Rebooked
    <2>2. \A m, c, k : Counted(next, m, c, k) = 0
        BY <1>1, <1>5 DEF Counted, Booked
    <2>3. ASSUME NEW m \in BetModes, NEW c \in BOOLEAN, NEW k
          PROVE  Figure(rest, m, c, k)
                   = Figure(book, m, c, k) - Adds(was, m, c, k) + Counted(next, m, c, k)
        <3>1. Figure(rest, m, c, k) = Figure(book, m, c, k) - Adds(was, m, c, k)
            BY <1>3
        <3>2. Figure(rest, m, c, k) \in Int
            BY <1>3, FigureType
        <3> QED BY <2>2, <3>1, <3>2
    <2> QED BY <1>1, <1>3, <2>1, <2>3
<1> QED BY <1>4, <1>5

LEMMA CommitChangeAgrees ==
    ASSUME DeskInv, DeskInv', BetsAgreed, NEW r \in inflight, r.kind = "change", CommitChange(r),
           inflight' \subseteq inflight, ~overtaken'
    PROVE  BetsAgreed'
<1>1. PICK b, user, was, next, more :
         /\ b = r.bet /\ user = Owner[b] /\ was = r.was /\ next = r.next
         /\ more = Held(next) - Held(was)
    OBVIOUS
<1>2. /\ Storable(next) /\ bets[b] = was
      /\ wallet' = Hold(user, more)
      /\ bets' = [bets EXCEPT ![b] = Saved(was, was, next)]
      /\ book' = Rebooked(r)
    BY <1>1 DEF CommitChange
<1>3. ChangeOK(r)
    BY DEF DeskInv, DeskOK, RequestOK
<1>4. /\ b \in BetIds /\ PendingOK(b, was) /\ BetOK(b, next) /\ BetOK(b, was)
      /\ next.status \in {"pending", "cancelled"}
    BY <1>1, <1>2, <1>3 DEF ChangeOK, PendingOK
<1>5. AllOK(bets) /\ AllOK(bets')
    BY BetsAre DEF DeskInv, DeskOK, BetsOK, AllOK
<1>6. PICK saved : saved = Saved(was, was, next)
    OBVIOUS
<1>7. bets'[b] = saved /\ OnlyBet(bets, bets', b)
    <2>1. bets = [x \in BetIds |-> bets[x]]
        BY DEF DeskInv, DeskOK, BetsOK
    <2> QED BY <1>2, <1>4, <1>6, <2>1 DEF OnlyBet
<1>8. SameStake(next, saved) /\ saved.status = next.status /\ saved.payout = next.payout
    BY <1>4, <1>6, SavedIsNext
<1>9. BookAgrees(book', bets')
    <2>1. CleanBook(book)
        BY DEF BetsAgreed, BookAgrees
    <2>2. /\ CleanBook(book')
          /\ \A m \in BetModes, c \in BOOLEAN : \A k :
               Figure(book', m, c, k)
                 = Figure(book, m, c, k) - Adds(was, m, c, k) + Counted(next, m, c, k)
        BY <1>1, <1>2, <1>4, <2>1, RebookedFigures
    <2>3. ASSUME NEW m \in BetModes, NEW c \in BOOLEAN, NEW k
          PROVE  Figure(book', m, c, k) = SumFunctionOnSet(Counts(bets', m, c, k), BetIds)
        <3>1. Figure(book, m, c, k) = SumFunctionOnSet(Counts(bets, m, c, k), BetIds)
            BY DEF BetsAgreed, BookAgrees
        <3>2. Counted(bets[b], m, c, k) = Adds(was, m, c, k)
            BY <1>2, <1>4 DEF Counted, Booked, PendingOK
        <3>3. Counted(bets'[b], m, c, k) = Counted(next, m, c, k)
            BY <1>7, <1>8, SameStakeAdds DEF Counted, Booked
        <3>4. SumFunctionOnSet(Counts(bets', m, c, k), BetIds)
                = SumFunctionOnSet(Counts(bets, m, c, k), BetIds)
                    - Counted(bets[b], m, c, k) + Counted(bets'[b], m, c, k)
            BY <1>4, <1>5, <1>7, CountsOfOne
        <3> QED BY <2>2, <3>1, <3>2, <3>3, <3>4
    <2> QED BY <2>2, <2>3 DEF BookAgrees
<1>10. WalletsAgree(wallet', bets')
    <2>1. Held(next) \in Int /\ Held(was) \in Int /\ Held(bets'[b]) = Held(next) /\ user \in Users
        <3>1. Held(saved) = Held(next)
            BY <1>8 DEF Held, SameStake
        <3> QED BY <1>1, <1>4, <1>7, <3>1, HeldType, DeskAssumption
    <2>2. ASSUME NEW u \in Users
          PROVE  wallet'[u].exposure = SumFunctionOnSet(Holds(bets', u), BetIds)
        <3>1. wallet'[u].exposure = wallet[u].exposure + IF u = user THEN more ELSE 0
            BY <1>1, <1>2, <2>1, TypedNow, HoldExposes DEF Typed
        <3>2. wallet[u].exposure = SumFunctionOnSet(Holds(bets, u), BetIds)
            BY DEF BetsAgreed, WalletsAgree
        <3>3. SumFunctionOnSet(Holds(bets', u), BetIds)
                = SumFunctionOnSet(Holds(bets, u), BetIds)
                    + IF Owner[b] = u THEN Held(bets'[b]) - Held(bets[b]) ELSE 0
            BY <1>4, <1>5, <1>7, HoldsOfOne
        <3> QED BY <1>1, <1>2, <2>1, <3>1, <3>2, <3>3
    <2> QED BY <2>2 DEF WalletsAgree
<1>11. \A x \in BetIds : bets'[x] = NoBet \/ Agrees(bets'[x])
    <2>1. Agrees(next)
        BY <1>1 DEF BetsAgreed
    <2>2. Agrees(saved)
        BY <1>8, <2>1, SameAgrees
    <2> QED BY <1>7, <2>2 DEF BetsAgreed, OnlyBet
<1>12. \A x \in inflight' : x.kind = "change" => Agrees(x.next)
    BY DEF BetsAgreed
<1> QED BY <1>9, <1>10, <1>11, <1>12 DEF BetsAgreed

\* What a pass makes of a bet it has read: the bet, decided.
Decided(bet, end) == [bet EXCEPT !.status = end.status, !.payout = end.payout]

LEMMA PassSettles ==
    ASSUME NEW b \in BetIds, NEW bet, PendingOK(b, bet), NEW pana, NEW session, NEW end,
           end = Settled(bet, pana, session), NEW next,
           next = Decided(bet, end)
    PROVE  /\ SameStake(bet, next)
           /\ next.status = end.status /\ next.payout = end.payout
           /\ next.status \in {"won", "lost"}
           /\ next.status # "won" => next.payout = 0
<1>1. DOMAIN bet = Fields
    BY DEF PendingOK, BetOK
<1>2. SameStake(bet, next) /\ next.status = end.status /\ next.payout = end.payout
    BY <1>1 DEF SameStake, Fields, Decided
<1>3. end.status \in {"won", "lost"} /\ (end.status # "won" => end.payout = 0)
    BY <1>1 DEF Settled, Fields
<1> QED BY <1>2, <1>3

LEMMA PassWrites ==
    ASSUME DeskInv, NEW r \in inflight, r.kind = "pass", CommitPass(r), ~overtaken'
    PROVE  /\ DOMAIN r.was \in SUBSET BetIds
           /\ \A b \in DOMAIN r.was :
                /\ PendingOK(b, bets[b]) /\ r.was[b] = bets[b]
                /\ LET end == Settled(bets[b], Session[r.mode], Session)
                   IN  bets'[b] = Decided(bets[b], end)
           /\ \A b \in BetIds \ DOMAIN r.was : bets'[b] = bets[b]
           /\ UNCHANGED book
           /\ inflight' \subseteq inflight
           /\ \A u \in Users : wallet'[u].exposure
                = wallet[u].exposure
                    - SumUp([b \in {c \in DOMAIN r.was : Owner[c] = u} |-> bets[b].amount])
<1> PICK due, end : /\ due = DOMAIN r.was
                    /\ end = [b \in due |-> Settled(r.was[b], Session[r.mode], Session)]
    OBVIOUS
<1>1. /\ bets' = [b \in BetIds |->
            IF b \in due THEN [bets[b] EXCEPT !.status = end[b].status, !.payout = end[b].payout]
            ELSE bets[b]]
      /\ overtaken' = (overtaken \/ \E b \in due : bets[b] # r.was[b])
      /\ inflight' = inflight \ {r}
      /\ UNCHANGED book
    BY DEF CommitPass
<1>2. \A u \in Users : wallet'[u].exposure
         = wallet[u].exposure - SumUp([b \in {c \in due : Owner[c] = u} |-> end[b].amount])
    <2>1. PICK balances : wallet' = [u \in Users |->
            [balance  |-> balances[u],
             exposure |-> wallet[u].exposure
                            - SumUp([b \in {c \in due : Owner[c] = u} |-> end[b].amount])]]
        <3>1. PICK f : f = [u \in Users |-> wallet[u].balance
                              + SumUp([b \in {c \in {d \in due : end[d].status = "won"} :
                                                Owner[c] = u} |-> end[b].payout])]
            OBVIOUS
        <3>2. wallet' = [u \in Users |->
                [balance  |-> f[u],
                 exposure |-> wallet[u].exposure
                                - SumUp([b \in {c \in due : Owner[c] = u} |-> end[b].amount])]]
            BY <3>1 DEF CommitPass
        <3> QED BY <3>2
    <2> QED BY <2>1
<1>3. PassOK(r)
    BY DEF DeskInv, DeskOK, RequestOK
<1>4. due \in SUBSET BetIds /\ \A b \in due : PendingOK(b, bets[b]) /\ r.was[b] = bets[b]
    BY <1>1, <1>3 DEF PassOK
<1>5. \A b \in due : end[b] = Settled(bets[b], Session[r.mode], Session)
                     /\ end[b].amount = bets[b].amount
    <2> TAKE b \in due
    <2>1. b \in BetIds /\ PendingOK(b, bets[b]) /\ end[b] = Settled(bets[b], Session[r.mode], Session)
        BY <1>4
    <2> QED BY <2>1, SettledType
<1>6. \A u \in Users : [b \in {c \in due : Owner[c] = u} |-> end[b].amount]
                         = [b \in {c \in due : Owner[c] = u} |-> bets[b].amount]
    BY <1>5
<1> QED BY <1>1, <1>2, <1>4, <1>5, <1>6 DEF Decided

LEMMA CommitPassAgrees ==
    ASSUME DeskInv, DeskInv', BetsAgreed, NEW r \in inflight, r.kind = "pass", CommitPass(r),
           ~overtaken'
    PROVE  BetsAgreed'
<1>1. PICK due : due = DOMAIN r.was
    OBVIOUS
<1>2. /\ due \in SUBSET BetIds
      /\ \A b \in due :
           /\ PendingOK(b, bets[b])
           /\ LET end == Settled(bets[b], Session[r.mode], Session)
              IN  bets'[b] = Decided(bets[b], end)
      /\ \A b \in BetIds \ due : bets'[b] = bets[b]
      /\ UNCHANGED book
      /\ inflight' \subseteq inflight
      /\ \A u \in Users : wallet'[u].exposure
           = wallet[u].exposure - SumUp([b \in {c \in due : Owner[c] = u} |-> bets[b].amount])
    BY <1>1, PassWrites
<1>3. ASSUME NEW b \in due
      PROVE  /\ SameStake(bets[b], bets'[b]) /\ bets[b].status = "pending"
             /\ bets'[b].status \in {"won", "lost"}
             /\ bets'[b].status # "won" => bets'[b].payout = 0
    <2>1. PICK bet, next, pana, session, end :
             /\ bet = bets[b] /\ next = bets'[b] /\ pana = Session[r.mode] /\ session = Session
             /\ end = Settled(bet, pana, session)
        OBVIOUS
    <2>2. /\ b \in BetIds /\ PendingOK(b, bet)
          /\ next = Decided(bet, end)
        BY <1>2, <2>1
    <2>3. /\ SameStake(bet, next) /\ next.status \in {"won", "lost"}
          /\ next.status # "won" => next.payout = 0
        <3>1. end = Settled(bet, pana, session)
            BY <2>1
        <3> HIDE <2>1
        <3> QED BY <2>2, <3>1, PassSettles
    <2> QED BY <2>1, <2>2, <2>3 DEF PendingOK
<1>4. SettledSome(bets, bets', due)
    BY <1>2, <1>3 DEF SettledSome
<1>5. AllOK(bets) /\ AllOK(bets')
    BY BetsAre DEF DeskInv, DeskOK, BetsOK, AllOK
<1>6. BookAgrees(book', bets')
    <2>1. \A m, c, k : Counts(bets', m, c, k) = Counts(bets, m, c, k)
        <3> PICK bs, ds : bs = bets /\ ds = bets'
            OBVIOUS
        <3>1. SettledSome(bs, ds, due)
            BY <1>4
        <3> TAKE m, c, k
        <3>2. Counts(ds, m, c, k) = Counts(bs, m, c, k)
            BY <3>1, CountsOfSettled
        <3> QED BY <3>2
    <2>2. book' = book
        BY <1>2
    <2>3. ASSUME NEW m \in BetModes, NEW c \in BOOLEAN, NEW k
          PROVE  Figure(book, m, c, k) = SumFunctionOnSet(Counts(bets', m, c, k), BetIds)
        <3>1. Counts(bets', m, c, k) = Counts(bets, m, c, k)
            BY <2>1
        <3> QED BY <3>1 DEF BetsAgreed, BookAgrees
    <2> QED BY <2>2, <2>3 DEF BetsAgreed, BookAgrees
<1>7. WalletsAgree(wallet', bets')
    <2>1. ASSUME NEW u \in Users
          PROVE  wallet'[u].exposure = SumFunctionOnSet(Holds(bets', u), BetIds)
        <3>1. PICK T, stakes : /\ T = {b \in due : Owner[b] = u}
                               /\ stakes = [b \in T |-> bets[b].amount]
            OBVIOUS
        <3>2. PICK all : all = [b \in due |-> bets[b].amount]
            OBVIOUS
        <3>3. SumUp(stakes) = SumFunctionOnSet(all, T)
            <4>1. IsFiniteSet(T)
                BY <1>2, <3>1, FS_Subset, FiniteBets
            <4>2. \A b \in T : all[b] \in Int /\ stakes[b] = all[b]
                <5> TAKE b \in T
                <5>1. b \in due /\ PendingOK(b, bets[b])
                    BY <1>2, <3>1
                <5>2. bets[b].amount \in Int
                    BY <5>1 DEF PendingOK, BetOK
                <5> QED BY <3>1, <3>2, <5>1, <5>2
            <4>3. Summable(all, T) /\ DOMAIN stakes = T /\ Agree(all, stakes, T)
                BY <3>1, <4>1, <4>2 DEF Summable, Agree
            <4> QED BY <4>3, SumUpOf
        <3>4. wallet'[u].exposure = wallet[u].exposure - SumFunctionOnSet(all, T)
            BY <1>2, <3>1, <3>3
        <3>5. wallet[u].exposure = SumFunctionOnSet(Holds(bets, u), BetIds)
            BY DEF BetsAgreed, WalletsAgree
        <3>6. SumFunctionOnSet(Holds(bets', u), BetIds)
                = SumFunctionOnSet(Holds(bets, u), BetIds) - SumFunctionOnSet(all, T)
            <4> PICK bs, ds : bs = bets /\ ds = bets'
                OBVIOUS
            <4>1. /\ AllOK(bs) /\ AllOK(ds) /\ SettledSome(bs, ds, due)
                  /\ \A b \in due : all[b] = bs[b].amount
                BY <1>4, <1>5, <3>2
            <4>2. due \in SUBSET BetIds
                BY <1>2
            <4>3. SumFunctionOnSet(Holds(ds, u), BetIds)
                    = SumFunctionOnSet(Holds(bs, u), BetIds)
                        - SumFunctionOnSet(all, {b \in due : Owner[b] = u})
                BY <4>1, <4>2, HoldsOfSettled
            <4> QED BY <3>1, <4>3
        <3> QED BY <3>4, <3>5, <3>6
    <2> QED BY <2>1 DEF WalletsAgree
<1>8. \A b \in BetIds : bets'[b] = NoBet \/ Agrees(bets'[b])
    <2> TAKE b \in BetIds
    <2>1. CASE b \in due
        <3>1. Agrees(bets[b])
            BY <1>2, <2>1, BetIsNotNoBet DEF BetsAgreed, PendingOK
        <3> QED BY <1>3, <2>1, <3>1, SettledAgrees
    <2>2. CASE b \notin due
        BY <1>2, <2>2 DEF BetsAgreed
    <2> QED BY <2>1, <2>2
<1>9. \A x \in inflight' : x.kind = "change" => Agrees(x.next)
    BY <1>2 DEF BetsAgreed
<1> QED BY <1>6, <1>7, <1>8, <1>9 DEF BetsAgreed

\* Until a request is overtaken, its bets are those it has read.
AgreeInv == DeskInv /\ (~overtaken => BetsAgreed)

LEMMA InitiallyAgreed == ASSUME Init PROVE AgreeInv
<1> USE DEF Init
<1>1. BookAgrees(book, bets)
    <2>1. ASSUME NEW m \in BetModes, NEW c \in BOOLEAN, NEW k
          PROVE  SumFunctionOnSet(Counts(bets, m, c, k), BetIds) = 0
        <3>1. PICK f : f = Counts(bets, m, c, k)
            OBVIOUS
        <3>2. \A b \in BetIds : f[b] = 0
            BY <3>1 DEF Counts, Booked, NoBet
        <3> QED BY <3>1, <3>2, SumZero, FiniteBets
    <2> QED BY <2>1, EmptyFigures DEF BookAgrees
<1>2. WalletsAgree(wallet, bets)
    <2>1. ASSUME NEW u \in Users
          PROVE  wallet[u].exposure = SumFunctionOnSet(Holds(bets, u), BetIds)
        <3>1. PICK f : f = Holds(bets, u)
            OBVIOUS
        <3>2. \A b \in BetIds : f[b] = 0
            BY <3>1 DEF Holds, Held, NoBet
        <3> QED BY <3>1, <3>2, SumZero, FiniteBets
    <2> QED BY <2>1 DEF WalletsAgree
<1> QED BY <1>1, <1>2, InitiallyInvariant DEF AgreeInv, BetsAgreed

LEMMA CommitAgrees ==
    ASSUME DeskInv, DeskInv', BetsAgreed, NEW r \in inflight, r.kind # "pass", Commit(r),
           ~overtaken'
    PROVE  BetsAgreed'
<1>1. inflight' \subseteq inflight
    BY DEF Commit
<1>2. CASE r.kind = "change"
    BY <1>1, <1>2, CommitChangeAgrees DEF Commit
<1>3. CASE r.kind = "funds"
    BY <1>1, <1>3, CommitFundsAgrees DEF Commit
<1>4. CASE r.kind # "change" /\ r.kind # "funds"
    <2>1. r.kind = "unbook"
        BY <1>4 DEF DeskInv, DeskOK, RequestOK
    <2>2. CommitUnbook(r)
        BY <1>4 DEF Commit
    <2> QED BY <1>1, <2>1, <2>2, CommitUnbookAgrees
<1> QED BY <1>2, <1>3, <1>4

LEMMA ReadPassAgrees == ASSUME BetsAgreed, NEW mode, ReadPass(mode) PROVE BetsAgreed'
<1>1. PICK request : request.kind = "pass" /\ inflight' = inflight \union {request}
    <2>1. PICK was : inflight' = inflight \union {[kind |-> "pass", mode |-> mode, was |-> was]}
        BY DEF ReadPass
    <2>2. [kind |-> "pass", mode |-> mode, was |-> was].kind = "pass"
        OBVIOUS
    <2> QED BY <2>1, <2>2
<1>2. UNCHANGED <<bets, book>> /\ \A u \in Users : wallet'[u].exposure = wallet[u].exposure
    BY DEF ReadPass
<1>3. \A r \in inflight' : r \in inflight \/ (r.kind = "change" => Agrees(r.next))
    BY <1>1
<1> QED BY <1>2, <1>3, OnlyRequestsAgree

\* No step undoes that a request was overtaken.
LEMMA StaysOvertaken == ASSUME DeskInv, [Next]_vars, ~overtaken' PROVE ~overtaken
<1>1. ASSUME NEW r \in inflight, r.kind # "pass", Commit(r) PROVE ~overtaken
    BY <1>1 DEF Commit, CommitChange, CommitFunds, CommitUnbook
<1>2. ASSUME NEW r, Abort(r) PROVE ~overtaken
    BY <1>2 DEF Abort
<1>3. ASSUME NEW r, CommitPass(r) PROVE ~overtaken
    BY <1>3 DEF CommitPass
<1>4. ASSUME NEW order, PlaceBets(order) PROVE ~overtaken
    BY <1>4 DEF PlaceBets
<1>5. ASSUME NEW b, AskEditBet(b) \/ AskEditLine(b) \/ AskDeleteBet(b) \/ AskDeleteLine(b)
      PROVE  ~overtaken
    BY <1>5 DEF AskEditBet, AskEditLine, AskDeleteBet, AskDeleteLine, Ask
<1>6. ASSUME NEW x, AskAdjustFunds(x) \/ AskDeleteTransaction(x) PROVE ~overtaken
    BY <1>6 DEF AskAdjustFunds, AskDeleteTransaction, Ask
<1>7. ASSUME NEW mode, Declare(mode) \/ ReadPass(mode) PROVE ~overtaken
    BY <1>7 DEF Declare, ReadPass
<1> QED BY <1>1, <1>2, <1>3, <1>4, <1>5, <1>6, <1>7 DEF Next, vars

\* What is overtaken stays so; every other step keeps the agreement.
LEMMA AgreementKept == ASSUME AgreeInv, [Next]_vars PROVE AgreeInv'
<1>1. DeskInv /\ DeskInv'
    BY NextKeeps DEF AgreeInv
<1> SUFFICES ASSUME ~overtaken' PROVE BetsAgreed'
    BY <1>1 DEF AgreeInv
<1>2. BetsAgreed
    BY StaysOvertaken DEF AgreeInv
<1>3. CASE \E order \in Orders : PlaceBets(order)
    BY <1>1, <1>2, <1>3, PlaceBetsAgrees
<1>4. CASE \E b \in BetIds : AskEditBet(b) \/ AskEditLine(b) \/ AskDeleteBet(b) \/ AskDeleteLine(b)
    BY <1>1, <1>2, <1>4, AskEditBetAgrees, AskEditLineAgrees, AskDeleteBetAgrees,
       AskDeleteLineAgrees
<1>5. CASE \E f \in FundsAsked : AskAdjustFunds(f)
    BY <1>2, <1>5, AskAdjustFundsAgrees
<1>6. CASE \E i \in DOMAIN ledger : AskDeleteTransaction(i)
    BY <1>2, <1>6, AskDeleteTransactionAgrees
<1>7. CASE \E r \in {x \in inflight : x.kind # "pass"} : Commit(r) \/ Abort(r)
    <2>1. PICK r \in inflight : r.kind # "pass" /\ (Commit(r) \/ Abort(r))
        BY <1>7
    <2>2. CASE Commit(r)
        BY <1>1, <1>2, <2>1, <2>2, CommitAgrees
    <2>3. CASE Abort(r)
        BY <1>2, <2>3, OnlyRequestsAgree DEF Abort
    <2> QED BY <2>1, <2>2, <2>3
<1>8. CASE \E mode \in BetModes : Declare(mode) \/ ReadPass(mode)
    <2>1. PICK mode \in BetModes : Declare(mode) \/ ReadPass(mode)
        BY <1>8
    <2>2. CASE Declare(mode)
        BY <1>2, <2>2, OnlyRequestsAgree DEF Declare
    <2> QED BY <1>2, <2>1, <2>2, ReadPassAgrees
<1>9. CASE \E r \in {x \in inflight : x.kind = "pass"} : CommitPass(r)
    BY <1>1, <1>2, <1>9, CommitPassAgrees
<1>10. CASE UNCHANGED vars
    BY <1>2, <1>10, OnlyRequestsAgree DEF vars
<1> QED BY <1>3, <1>4, <1>5, <1>6, <1>7, <1>8, <1>9, <1>10 DEF Next

\* The books and wallets agree in every state, until a request is overtaken.
LEMMA AlwaysAgreed == Spec => []AgreeInv
<1>1. Init => AgreeInv
    BY InitiallyAgreed
<1>2. AgreeInv /\ [Next]_vars => AgreeInv'
    BY AgreementKept
<1> QED BY <1>1, <1>2, PTL DEF Spec

-----------------------------------------------------------------------------
(* Debits, changes and wins in the ledger *)

RowsIn(L, K) == {i \in DOMAIN L : L[i].kind \in K}
DebitsIn(L) == RowsIn(L, {"debit"})
WinsIn(L) == RowsIn(L, {"win"})
NewRows(L, M) == DOMAIN M \ DOMAIN L

AmountIn(L) == [i \in DOMAIN L |-> L[i].amount]
Total(L, K) == SumFunctionOnSet(AmountIn(L), RowsIn(L, K))

\* No bet is in two debits, and the bets of a debit are placed.
Orderly(L, bs) ==
    /\ \A d \in DebitsIn(L) : \A b \in L[d].bets : b \in BetIds /\ bs[b] # NoBet
    /\ \A d, e \in DebitsIn(L) : d # e => L[d].bets \intersect L[e].bets = {}

\* The transaction of a win: it names the debit of the bet, if that can be found.
WinFor(L, bs, i, b) ==
    /\ L[i].bets = {b} /\ bs[b].status = "won" /\ L[i].amount = bs[b].payout
    /\ \A d \in DebitsIn(L) : b \in L[d].bets /\ ~L[d].deleted => L[i].related = d
    /\ L[i].related # 0 =>
          \E d \in DebitsIn(L) : d = L[i].related /\ b \in L[d].bets

\* Every bet that has won has one, and there are no others.
WinsBooked(L, bs) ==
    /\ \A i \in WinsIn(L) : \E b \in BetIds : WinFor(L, bs, i, b)
    /\ \A i, j \in WinsIn(L) : L[i].bets = L[j].bets => i = j
    /\ \A b \in BetIds : bs[b].status = "won" => \E i \in WinsIn(L) : L[i].bets = {b}

\* A ledger to which rows of some kinds were added, and some rows were deleted.
Grows(L, M, K) ==
    /\ DOMAIN L \subseteq DOMAIN M
    /\ \A i \in DOMAIN L : /\ M[i].kind = L[i].kind /\ M[i].bets = L[i].bets
                           /\ M[i].amount = L[i].amount /\ M[i].related = L[i].related
                           /\ L[i].deleted => M[i].deleted
    /\ \A i \in NewRows(L, M) : M[i].kind \in K

LEMMA TotalType ==
    ASSUME NEW L \in Seq(Rows), NEW K
    PROVE  /\ Summable(AmountIn(L), DOMAIN L) /\ Summable(AmountIn(L), RowsIn(L, K))
           /\ Total(L, K) \in Int
<1>1. IsFiniteSet(DOMAIN L)
    BY FS_Interval
<1>2. \A i \in DOMAIN L : L[i] \in Rows
    OBVIOUS
<1>3. \A i \in DOMAIN L : AmountIn(L)[i] \in Int
    BY <1>2 DEF Rows, AmountIn
<1>4. Summable(AmountIn(L), DOMAIN L)
    BY <1>1, <1>3 DEF Summable
<1>5. RowsIn(L, K) \in SUBSET DOMAIN L
    BY DEF RowsIn
<1>6. Summable(AmountIn(L), RowsIn(L, K))
    BY <1>4, <1>5, SummablePart
<1> QED BY <1>4, <1>6, SumType DEF Total

\* Rows of other kinds do not change a total.
LEMMA TotalKept ==
    ASSUME NEW L \in Seq(Rows), NEW M, NEW J, NEW K, Grows(L, M, J), J \intersect K = {}
    PROVE  Total(M, K) = Total(L, K)
<1>1. RowsIn(M, K) = RowsIn(L, K)
    BY DEF RowsIn, Grows, NewRows
<1>2. Agree(AmountIn(L), AmountIn(M), RowsIn(L, K))
    BY DEF Agree, AmountIn, RowsIn, Grows
<1>3. Summable(AmountIn(L), RowsIn(L, K))
    BY TotalType
<1> QED BY <1>1, <1>2, <1>3, SumSame DEF Total

LEMMA AppendGrows ==
    ASSUME NEW L \in Seq(Rows), NEW row, NEW K, row.kind \in K
    PROVE  /\ Grows(L, Append(L, row), K)
           /\ NewRows(L, Append(L, row)) = {Len(L) + 1}
           /\ Append(L, row)[Len(L) + 1] = row
           /\ Len(L) + 1 \notin DOMAIN L
<1>1. PICK n, M : n = Len(L) /\ M = Append(L, row)
    OBVIOUS
<1>2. /\ n \in Nat /\ DOMAIN L = 1 .. n /\ DOMAIN M = 1 .. n + 1 /\ M[n + 1] = row
      /\ \A i \in 1 .. n : M[i] = L[i]
    BY <1>1
<1>3. n + 1 \notin 1 .. n /\ 1 .. n \subseteq 1 .. n + 1 /\ (1 .. n + 1) \ (1 .. n) = {n + 1}
    BY <1>2
<1> QED BY <1>1, <1>2, <1>3 DEF Grows, NewRows

LEMMA TotalAppended ==
    ASSUME NEW L \in Seq(Rows), NEW row \in Rows, NEW K, row.kind \in K
    PROVE  Total(Append(L, row), K) = Total(L, K) + row.amount
<1>1. PICK n, M : n = Len(L) + 1 /\ M = Append(L, row)
    OBVIOUS
<1>2. /\ Grows(L, M, K) /\ NewRows(L, M) = {n} /\ M[n] = row /\ n \notin DOMAIN L
      /\ M \in Seq(Rows)
    BY <1>1, AppendGrows
<1>3. RowsIn(M, K) = RowsIn(L, K) \union {n} /\ n \notin RowsIn(L, K)
    BY <1>2 DEF RowsIn, Grows, NewRows
<1>4. Summable(AmountIn(M), RowsIn(M, K)) /\ Summable(AmountIn(L), RowsIn(L, K))
    BY <1>2, TotalType
<1>5. Agree(AmountIn(L), AmountIn(M), RowsIn(L, K))
    BY <1>2 DEF Agree, AmountIn, RowsIn, Grows
<1>6. AmountIn(M)[n] = row.amount
    BY <1>2 DEF AmountIn, NewRows
<1>7. SumFunctionOnSet(AmountIn(M), RowsIn(L, K) \union {n})
        = SumFunctionOnSet(AmountIn(M), RowsIn(L, K)) + AmountIn(M)[n]
    BY <1>3, <1>4, SumAdd
<1>8. SumFunctionOnSet(AmountIn(L), RowsIn(L, K)) = SumFunctionOnSet(AmountIn(M), RowsIn(L, K))
    BY <1>4, <1>5, SumSame
<1> QED BY <1>1, <1>3, <1>6, <1>7, <1>8 DEF Total

StayPlaced(bs, ds) == \A b \in BetIds : bs[b] # NoBet => ds[b] # NoBet

LEMMA OrderlyNext ==
    ASSUME NEW L, NEW M, NEW K, Grows(L, M, K), NEW bs, NEW ds, Orderly(L, bs), StayPlaced(bs, ds),
           \A i \in NewRows(L, M) : M[i].kind = "debit" =>
              /\ \A j \in NewRows(L, M) : i = j
              /\ \A b \in M[i].bets : b \in BetIds /\ bs[b] = NoBet /\ ds[b] # NoBet
    PROVE  Orderly(M, ds)
<1>1. ASSUME NEW d \in DebitsIn(M)
      PROVE  \/ d \in DebitsIn(L) /\ M[d].bets = L[d].bets
             \/ d \in NewRows(L, M) /\ M[d].kind = "debit"
    BY DEF DebitsIn, RowsIn, Grows, NewRows
<1>2. ASSUME NEW d \in DebitsIn(M), NEW b \in M[d].bets PROVE b \in BetIds /\ ds[b] # NoBet
    BY <1>1 DEF Orderly, StayPlaced
<1>3. ASSUME NEW d \in DebitsIn(M), NEW e \in DebitsIn(M), d # e, NEW b \in M[d].bets, b \in M[e].bets
      PROVE  FALSE
    <2>1. CASE d \in DebitsIn(L) /\ M[d].bets = L[d].bets /\ e \in DebitsIn(L) /\ M[e].bets = L[e].bets
        BY <1>3, <2>1 DEF Orderly
    <2>2. CASE d \in NewRows(L, M) /\ M[d].kind = "debit" /\ e \in NewRows(L, M)
        BY <1>3, <2>2
    <2>3. CASE /\ d \in NewRows(L, M) /\ M[d].kind = "debit"
               /\ e \in DebitsIn(L) /\ M[e].bets = L[e].bets
        BY <1>3, <2>3 DEF Orderly
    <2>4. CASE /\ e \in NewRows(L, M) /\ M[e].kind = "debit"
               /\ d \in DebitsIn(L) /\ M[d].bets = L[d].bets
        BY <1>3, <2>4 DEF Orderly
    <2> QED BY <1>1, <2>1, <2>2, <2>3, <2>4
<1> QED BY <1>2, <1>3 DEF Orderly

\* What was won stays won, and nothing else becomes won.
SameWins(bs, ds) ==
    \A b \in BetIds : /\ bs[b].status = "won" => ds[b] = bs[b]
                      /\ ds[b].status = "won" => bs[b].status = "won"

LEMMA WonIsPlaced == ASSUME NEW bet, bet.status = "won" PROVE bet # NoBet
BY DEF NoBet

LEMMA WinForKept ==
    ASSUME NEW L, NEW M, NEW K, Grows(L, M, K), NEW bs, NEW ds, NEW i \in WinsIn(L),
           NEW b \in BetIds, WinFor(L, bs, i, b), ds[b] = bs[b],
           \A d \in NewRows(L, M) : M[d].kind = "debit" => b \notin M[d].bets
    PROVE  WinFor(M, ds, i, b)
<1>1. i \in DOMAIN L
    BY DEF WinsIn, RowsIn
<1>2. M[i].bets = {b} /\ ds[b].status = "won" /\ M[i].amount = ds[b].payout
    BY <1>1 DEF WinFor, Grows
<1>3. ASSUME NEW d \in DebitsIn(M), b \in M[d].bets, ~M[d].deleted PROVE M[i].related = d
    <2>1. d \in DebitsIn(L) /\ b \in L[d].bets /\ ~L[d].deleted
        BY <1>3 DEF DebitsIn, RowsIn, Grows, NewRows
    <2>2. L[i].related = d
        BY <2>1 DEF WinFor
    <2> QED BY <1>1, <2>2 DEF Grows
<1>4. ASSUME M[i].related # 0 PROVE \E d \in DebitsIn(M) : d = M[i].related /\ b \in M[d].bets
    <2>1. L[i].related = M[i].related
        BY <1>1 DEF Grows
    <2>2. PICK d \in DebitsIn(L) : d = L[i].related /\ b \in L[d].bets
        BY <1>4, <2>1 DEF WinFor
    <2>3. d \in DebitsIn(M) /\ b \in M[d].bets
        BY <2>2 DEF DebitsIn, RowsIn, Grows
    <2> QED BY <2>1, <2>2, <2>3
<1> QED BY <1>2, <1>3, <1>4 DEF WinFor

LEMMA WinsNext ==
    ASSUME NEW L, NEW M, NEW K, Grows(L, M, K), "win" \notin K, NEW bs, NEW ds,
           WinsBooked(L, bs), SameWins(bs, ds),
           \A d \in NewRows(L, M) : M[d].kind = "debit" => \A b \in M[d].bets : bs[b] = NoBet
    PROVE  WinsBooked(M, ds)
<1>1. WinsIn(M) = WinsIn(L)
    BY DEF WinsIn, RowsIn, Grows, NewRows
<1>2. ASSUME NEW i \in WinsIn(M) PROVE \E b \in BetIds : WinFor(M, ds, i, b)
    <2>1. PICK b \in BetIds : WinFor(L, bs, i, b)
        BY <1>1 DEF WinsBooked
    <2>2. bs[b].status = "won" /\ bs[b] # NoBet /\ ds[b] = bs[b]
        BY <2>1, WonIsPlaced DEF WinFor, SameWins
    <2>3. WinFor(M, ds, i, b)
        BY <1>1, <2>1, <2>2, WinForKept
    <2> QED BY <2>3
<1>3. \A i \in WinsIn(L) : M[i].bets = L[i].bets
    BY DEF WinsIn, RowsIn, Grows
<1> QED BY <1>1, <1>2, <1>3 DEF WinsBooked, SameWins

\* The rows of a pass, which come after those of a ledger.
NewWins(L, M, ds, won) ==
    /\ \A i \in NewRows(L, M) : \E b \in won :
          /\ M[i].bets = {b} /\ M[i].amount = ds[b].payout
          /\ \A d \in DebitsIn(L) : b \in L[d].bets /\ ~L[d].deleted => M[i].related = d
          /\ M[i].related # 0 => \E d \in DebitsIn(L) : d = M[i].related /\ b \in L[d].bets
    /\ \A i, j \in NewRows(L, M) : M[i].bets = M[j].bets => i = j
    /\ \A b \in won : \E i \in NewRows(L, M) : M[i].bets = {b}

LEMMA WinsPaid ==
    ASSUME NEW L, NEW M, Grows(L, M, {"win"}), NEW bs, NEW ds, WinsBooked(L, bs),
           NEW won \in SUBSET BetIds, NewWins(L, M, ds, won),
           \A b \in won : bs[b].status # "won" /\ ds[b].status = "won",
           \A b \in BetIds \ won : /\ bs[b].status = "won" => ds[b] = bs[b]
                                   /\ ds[b].status = "won" => bs[b].status = "won"
    PROVE  WinsBooked(M, ds)
<1>1. WinsIn(M) = WinsIn(L) \union NewRows(L, M) /\ WinsIn(L) \intersect NewRows(L, M) = {}
    BY DEF WinsIn, RowsIn, Grows, NewRows
<1>2. DebitsIn(M) = DebitsIn(L) /\ \A d \in DebitsIn(L) : M[d].bets = L[d].bets
    BY DEF DebitsIn, RowsIn, Grows, NewRows
<1>3. ASSUME NEW i \in WinsIn(L)
      PROVE  \E b \in BetIds \ won : WinFor(M, ds, i, b) /\ M[i].bets = {b}
    <2>1. PICK b \in BetIds : WinFor(L, bs, i, b)
        BY DEF WinsBooked
    <2>2. b \notin won /\ ds[b] = bs[b]
        BY <2>1 DEF WinFor
    <2>3. \A d \in NewRows(L, M) : M[d].kind = "debit" => b \notin M[d].bets
        BY DEF Grows
    <2>4. WinFor(M, ds, i, b)
        BY <2>1, <2>2, <2>3, WinForKept
    <2> QED BY <2>2, <2>4 DEF WinFor
<1>4. ASSUME NEW i \in NewRows(L, M)
      PROVE  \E b \in won : WinFor(M, ds, i, b) /\ M[i].bets = {b}
    <2>1. PICK b \in won :
             /\ M[i].bets = {b} /\ M[i].amount = ds[b].payout
             /\ \A d \in DebitsIn(L) : b \in L[d].bets /\ ~L[d].deleted => M[i].related = d
             /\ M[i].related # 0 => \E d \in DebitsIn(L) : d = M[i].related /\ b \in L[d].bets
        BY DEF NewWins
    <2>2. \A d \in DebitsIn(M) : b \in M[d].bets /\ ~M[d].deleted => M[i].related = d
        <3> TAKE d \in DebitsIn(M)
        <3> HAVE b \in M[d].bets /\ ~M[d].deleted
        <3>1. d \in DebitsIn(L) /\ b \in L[d].bets /\ ~L[d].deleted
            BY <1>2 DEF Grows, DebitsIn, RowsIn
        <3> QED BY <2>1, <3>1
    <2>3. WinFor(M, ds, i, b)
        BY <1>2, <2>1, <2>2 DEF WinFor
    <2> QED BY <2>1, <2>3
<1>5. \A i \in WinsIn(M) : \E b \in BetIds : WinFor(M, ds, i, b)
    BY <1>1, <1>3, <1>4
<1>6. ASSUME NEW i \in WinsIn(M), NEW j \in WinsIn(M), M[i].bets = M[j].bets PROVE i = j
    <2>1. CASE i \in WinsIn(L) /\ j \in WinsIn(L)
        <3>1. M[i].bets = L[i].bets /\ M[j].bets = L[j].bets
            BY <2>1 DEF WinsIn, RowsIn, Grows
        <3> QED BY <1>6, <2>1, <3>1 DEF WinsBooked
    <2>2. CASE i \in NewRows(L, M) /\ j \in NewRows(L, M)
        BY <1>6, <2>2 DEF NewWins
    <2>3. CASE i \in WinsIn(L) /\ j \in NewRows(L, M)
        BY <1>3, <1>4, <1>6, <2>3
    <2>4. CASE j \in WinsIn(L) /\ i \in NewRows(L, M)
        BY <1>3, <1>4, <1>6, <2>4
    <2> QED BY <1>1, <2>1, <2>2, <2>3, <2>4
<1>7. ASSUME NEW b \in BetIds, ds[b].status = "won" PROVE \E i \in WinsIn(M) : M[i].bets = {b}
    <2>1. CASE b \in won
        BY <1>1, <2>1 DEF NewWins
    <2>2. CASE b \notin won
        <3>1. bs[b].status = "won"
            BY <1>7, <2>2
        <3>2. PICK i \in WinsIn(L) : L[i].bets = {b}
            BY <3>1 DEF WinsBooked
        <3>3. M[i].bets = {b}
            BY <3>2 DEF WinsIn, RowsIn, Grows
        <3> QED BY <1>1, <3>2, <3>3
    <2> QED BY <2>1, <2>2
<1> QED BY <1>5, <1>6, <1>7 DEF WinsBooked

-----------------------------------------------------------------------------
(* What the reports read, as long as no request has been overtaken *)

SessionOf(D) == [m \in BetModes |-> IF m \in D THEN Results[m] ELSE NoPana]

\* A decided bet was decided by results that are declared, and still are.
ResultStands(bet, D) ==
    bet.status \in {"won", "lost"} =>
      /\ IF bet.template \in Combined THEN "close" \in D ELSE bet.mode \in D
      /\ bet.template \notin Motors =>
           (IsWinningBet(bet, SessionOf(D)[bet.mode], SessionOf(D)) <=> bet.status = "won")

\* What a request carries: a pass has read bets of its mode, which is declared.
Foreseen(r, D) ==
    /\ r.kind = "funds" => r.row.kind = "funds"
    /\ r.kind = "pass" => r.mode \in D /\ \A b \in DOMAIN r.was : InPass(r.was[b], r.mode)

Stakes == {"debit", "change"}

\* What the reports need of ledger and bets: debits and wins are matched one to
\* one with orders and won bets, stakes are booked, and results stand.
Shown ==
    /\ Orderly(ledger, bets)
    /\ WinsBooked(ledger, bets)
    /\ Total(ledger, Stakes) + BookTotal(book) = 0
    /\ \A b \in BetIds : ResultStands(bets[b], declared)
    /\ "close" \in declared => "open" \in declared
    /\ \A r \in inflight : Foreseen(r, declared)

\* A step that writes neither bets nor transactions nor books.
LEMMA OnlyRequestsShown ==
    ASSUME Shown, UNCHANGED <<bets, ledger, book, declared>>,
           \A r \in inflight' : r \in inflight \/ Foreseen(r, declared)
    PROVE  Shown'
<1>1. /\ bets' = bets /\ ledger' = ledger /\ book' = book /\ declared' = declared
      /\ \A r \in inflight' : Foreseen(r, declared)
    BY DEF Shown
<1> QED BY <1>1 DEF Shown

LEMMA AskShown ==
    ASSUME Shown, NEW request, Ask(request), \A n : Foreseen([request EXCEPT !.nr = n], declared)
    PROVE  Shown'
<1>1. PICK n : inflight' = inflight \union {[request EXCEPT !.nr = n]}
    BY DEF Ask
<1>2. UNCHANGED <<bets, ledger, book, declared>>
    BY DEF Ask
<1> QED BY <1>1, <1>2, OnlyRequestsShown

LEMMA AskChangeShown ==
    ASSUME Shown, NEW b, NEW next, Ask(Change(b, next)) PROVE Shown'
<1>1. PICK request : request = Change(b, next)
    OBVIOUS
<1>2. \A n : [request EXCEPT !.nr = n].kind = "change"
    BY <1>1 DEF Change
<1>3. \A n : Foreseen([request EXCEPT !.nr = n], declared)
    BY <1>2 DEF Foreseen
<1> QED BY <1>1, <1>3, AskShown

LEMMA AskToChangeShown ==
    ASSUME Shown, NEW b,
           AskEditBet(b) \/ AskEditLine(b) \/ AskDeleteBet(b) \/ AskDeleteLine(b)
    PROVE  Shown'
<1>1. \E next : Ask(Change(b, next))
    BY DEF AskEditBet, AskEditLine, AskDeleteBet, AskDeleteLine
<1> QED BY <1>1, AskChangeShown

LEMMA AskAdjustFundsShown == ASSUME Shown, NEW f, AskAdjustFunds(f) PROVE Shown'
<1>1. PICK request : request = [kind |-> "funds", nr |-> 1, row |-> FundsRow(f)]
    OBVIOUS
<1>2. FundsRow(f).kind = "funds"
    BY DEF FundsRow, Row
<1>3. \A n : LET r == [request EXCEPT !.nr = n] IN r.kind = "funds" /\ r.row = FundsRow(f)
    BY <1>1
<1>4. \A n : Foreseen([request EXCEPT !.nr = n], declared)
    BY <1>2, <1>3 DEF Foreseen
<1>5. Ask(request)
    BY <1>1 DEF AskAdjustFunds
<1> QED BY <1>4, <1>5, AskShown

LEMMA AskDeleteTransactionShown == ASSUME Shown, NEW i, AskDeleteTransaction(i) PROVE Shown'
<1>1. PICK request : request = [kind |-> "unbook", nr |-> 1, at |-> i, row |-> ledger[i]]
    OBVIOUS
<1>2. \A n : [request EXCEPT !.nr = n].kind = "unbook"
    BY <1>1
<1>3. \A n : Foreseen([request EXCEPT !.nr = n], declared)
    BY <1>2 DEF Foreseen
<1>4. Ask(request)
    BY <1>1 DEF AskDeleteTransaction
<1> QED BY <1>3, <1>4, AskShown

LEMMA ReadPassShown == ASSUME Shown, NEW mode, ReadPass(mode) PROVE Shown'
<1>1. PICK due : due = {b \in BetIds : bets[b].status = "pending" /\ InPass(bets[b], mode)}
    OBVIOUS
<1>2. PICK r : r = [kind |-> "pass", mode |-> mode, was |-> [b \in due |-> bets[b]]]
    OBVIOUS
<1>3. /\ mode \in declared /\ inflight' = inflight \union {r}
      /\ UNCHANGED <<bets, ledger, book, declared>>
    BY <1>1, <1>2 DEF ReadPass
<1>4. /\ r.kind = "pass" /\ r.mode = mode /\ DOMAIN r.was = due
      /\ \A b \in due : r.was[b] = bets[b]
    BY <1>2
<1>5. Foreseen(r, declared)
    BY <1>1, <1>3, <1>4 DEF Foreseen
<1> QED BY <1>3, <1>5, OnlyRequestsShown

\* A second result does not touch the bets on the first one, and a bet on both
\* is only decided when both are declared.
LEMMA StandsWhenDeclared ==
    ASSUME NEW bet, NEW D, "close" \in D => "open" \in D, ResultStands(bet, D),
           bet.mode \in BetModes, NEW mode \in BetModes, mode \notin D
    PROVE  ResultStands(bet, D \union {mode})
<1> SUFFICES ASSUME bet.status \in {"won", "lost"}
             PROVE  ResultStands(bet, D \union {mode})
    BY DEF ResultStands
<1>1. bet.template \notin Combined
    BY DEF ResultStands, BetModes
<1>2. bet.mode \in D
    BY <1>1 DEF ResultStands
<1>3. PICK s, t : s = SessionOf(D) /\ t = SessionOf(D \union {mode})
    OBVIOUS
<1>4. t[bet.mode] = s[bet.mode]
    BY <1>2, <1>3 DEF SessionOf
<1>5. IsWinningBet(bet, t[bet.mode], t) <=> IsWinningBet(bet, s[bet.mode], s)
    BY <1>1, <1>4 DEF IsWinningBet
<1> QED BY <1>1, <1>2, <1>3, <1>5 DEF ResultStands

LEMMA NoBetStands == ASSUME NEW D PROVE ResultStands(NoBet, D)
BY DEF ResultStands, NoBet

LEMMA DeclareShown ==
    ASSUME DeskInv, Shown, NEW mode \in BetModes, Declare(mode) PROVE Shown'
<1>1. /\ mode \notin declared /\ declared' = declared \union {mode}
      /\ mode = "close" => "open" \in declared
      /\ bets' = bets /\ ledger' = ledger /\ book' = book /\ inflight' = inflight
    BY DEF Declare
<1>2. ASSUME NEW b \in BetIds PROVE ResultStands(bets[b], declared \union {mode})
    <2>1. CASE bets[b] = NoBet
        BY <2>1, NoBetStands
    <2>2. CASE BetOK(b, bets[b])
        <3>1. bets[b].mode \in BetModes
            BY <2>2, DeskAssumption DEF BetOK
        <3>2. ("close" \in declared => "open" \in declared) /\ ResultStands(bets[b], declared)
            BY DEF Shown
        <3> QED BY <1>1, <3>1, <3>2, StandsWhenDeclared
    <2> QED BY <2>1, <2>2, BetsAre DEF AllOK
<1>3. \A r \in inflight : Foreseen(r, declared \union {mode})
    BY DEF Shown, Foreseen
<1>4. "close" \in declared' => "open" \in declared'
    BY <1>1 DEF Shown
<1> QED BY <1>1, <1>2, <1>3, <1>4 DEF Shown

LEMMA LedgerNext ==
    ASSUME NEW L, NEW M, NEW K, Grows(L, M, K), "win" \notin K, "debit" \notin K, NEW bs, NEW ds,
           Orderly(L, bs), WinsBooked(L, bs), StayPlaced(bs, ds), SameWins(bs, ds)
    PROVE  Orderly(M, ds) /\ WinsBooked(M, ds)
<1>1. \A i \in NewRows(L, M) : M[i].kind # "debit"
    BY DEF Grows
<1>2. Orderly(M, ds)
    BY <1>1, OrderlyNext
<1>3. WinsBooked(M, ds)
    BY <1>1, WinsNext
<1> QED BY <1>2, <1>3

LEMMA ShownNext ==
    ASSUME Shown, Orderly(ledger', bets'), WinsBooked(ledger', bets'),
           Total(ledger', Stakes) + BookTotal(book') = 0, declared' = declared,
           \A b \in BetIds : bets'[b] = bets[b] \/ ResultStands(bets'[b], declared),
           inflight' \subseteq inflight
    PROVE  Shown'
<1>1. \A b \in BetIds : ResultStands(bets'[b], declared)
    BY DEF Shown
<1>2. \A r \in inflight' : Foreseen(r, declared)
    BY DEF Shown
<1>3. "close" \in declared => "open" \in declared
    BY DEF Shown
<1> QED BY <1>1, <1>2, <1>3 DEF Shown

\* What the proofs use of a step of an order.
LEMMA OrderWrites ==
    ASSUME DeskInv, NEW order \in Orders, PlaceBets(order)
    PROVE  \E row \in Rows :
              /\ row.kind = "debit" /\ row.bets = order
              /\ ledger' = Append(ledger, row)
              /\ BookTotal(book') = BookTotal(book) - row.amount
<1>1. PICK new, total, user :
         /\ new = [b \in order |-> NewBet(Asked[b].template, Asked[b].mode, Asked[b].value,
                                          Asked[b].amount, Asked[b].odds)]
         /\ total = SumUp([b \in order |-> Asked[b].amount])
         /\ user = Owner[CHOOSE b \in order : TRUE]
    OBVIOUS
<1>2. /\ \A b \in order : ValidBet(Asked[b].template, "BOTH", Asked[b].mode, Asked[b].value)
      /\ ledger' = Append(ledger, DebitRow(user, total, order))
      /\ book' = AddedAll(book, new)
    BY <1>1 DEF PlaceBets
<1>3. order \in SUBSET BetIds /\ IsFiniteSet(order) /\ user \in Users
    <2>1. order \in SUBSET BetIds /\ order # {}
        BY DeskAssumption
    <2>2. (CHOOSE b \in order : TRUE) \in order
        BY <2>1
    <2>3. user \in Users
        BY <1>1, <2>1, <2>2, DeskAssumption
    <2> QED BY <2>1, <2>3, FS_Subset, FiniteBets
<1>4. PICK stakes : stakes = [b \in order |-> Asked[b].amount]
    OBVIOUS
<1>5. total = SumFunctionOnSet(stakes, order) /\ total \in Int
    <2>1. total = SumFunctionOnSet(stakes, order)
        BY <1>1, <1>4, SumUpIsSum
    <2>2. \A b \in order : stakes[b] \in Nat
        BY <1>3, <1>4, DeskAssumption
    <2>3. SumFunctionOnSet(stakes, order) \in Nat
        BY <1>3, <2>2, SumNatural
    <2> QED BY <2>1, <2>3
<1>6. ASSUME NEW b \in order
      PROVE  /\ new[b].mode \in BetModes /\ new[b].amount \in Int
             /\ stakes[b] = new[b].amount
    <2>1. b \in BetIds /\ PendingOK(b, new[b])
        BY <1>1, <1>2, <1>3, NewBetType
    <2>2. new[b].amount = Asked[b].amount
        BY <1>1 DEF NewBet
    <2> QED BY <1>4, <2>1, <2>2, DeskAssumption DEF PendingOK, BetOK
<1>7. BookOK(book) /\ BookTotal(book) \in Int
    BY TypedNow DEF Typed, BookOK, BookTotal, BetModes
<1>8. BookTotal(book') = BookTotal(book) + total
    <2>1. DOMAIN new = order
        BY <1>1
    <2> QED BY <1>2, <1>3, <1>5, <1>6, <1>7, <2>1, AddedAllTotal
<1>9. PICK row : row = DebitRow(user, total, order)
    OBVIOUS
<1>10. row \in Rows /\ row.amount = -total
    BY <1>3, <1>5, <1>9, DebitRowType
<1>11. row.kind = "debit" /\ row.bets = order
    BY <1>9 DEF DebitRow, Row
<1>12. BookTotal(book') = BookTotal(book) - row.amount
    BY <1>5, <1>7, <1>8, <1>10
<1> QED BY <1>2, <1>9, <1>10, <1>11, <1>12

LEMMA PlaceBetsShown ==
    ASSUME DeskInv, DeskInv', Shown, NEW order \in Orders, PlaceBets(order) PROVE Shown'
<1>1. PICK row \in Rows : /\ row.kind = "debit" /\ row.bets = order
                          /\ ledger' = Append(ledger, row)
                          /\ BookTotal(book') = BookTotal(book) - row.amount
    BY OrderWrites
<1>2. PICK L, M, bs, ds : L = ledger /\ M = ledger' /\ bs = bets /\ ds = bets'
    OBVIOUS
<1>3. L \in Seq(Rows) /\ M = Append(L, row) /\ Orderly(L, bs) /\ WinsBooked(L, bs)
    BY <1>1, <1>2, TypedNow DEF Typed, Shown
<1>4. order \in SUBSET BetIds
    BY DeskAssumption
<1>5. /\ \A b \in order : bs[b] = NoBet /\ ds[b].status = "pending" /\ ds[b] # NoBet
      /\ \A b \in BetIds \ order : ds[b] = bs[b]
      /\ UNCHANGED <<declared, inflight>>
    <2>1. PICK new : new = [b \in order |-> NewBet(Asked[b].template, Asked[b].mode,
                                                   Asked[b].value, Asked[b].amount, Asked[b].odds)]
        OBVIOUS
    <2>2. /\ \A b \in order : bets[b] = NoBet
          /\ bets' = [b \in BetIds |-> IF b \in order THEN new[b] ELSE bets[b]]
          /\ UNCHANGED <<declared, inflight>>
        BY <2>1 DEF PlaceBets
    <2>3. \A b \in order : new[b].status = "pending"
        BY <2>1 DEF NewBet
    <2>4. \A b \in BetIds : ds[b] = IF b \in order THEN new[b] ELSE bs[b]
        BY <1>2, <2>2
    <2>5. NoBet.status # "pending"
        BY DEF NoBet
    <2> QED BY <1>2, <1>4, <2>2, <2>3, <2>4, <2>5
<1>6. Grows(L, M, {"debit"}) /\ NewRows(L, M) = {Len(L) + 1} /\ M[Len(L) + 1] = row
    BY <1>1, <1>3, AppendGrows
<1>7. StayPlaced(bs, ds) /\ SameWins(bs, ds)
    <2>1. NoBet.status = "none"
        BY DEF NoBet
    <2> QED BY <1>5, <2>1 DEF StayPlaced, SameWins
<1>8. Orderly(M, ds)
    <2>1. \A i \in NewRows(L, M) : /\ \A j \in NewRows(L, M) : i = j
                                   /\ \A b \in M[i].bets : b \in BetIds /\ bs[b] = NoBet /\ ds[b] # NoBet
        BY <1>1, <1>4, <1>5, <1>6
    <2> QED BY <1>3, <1>6, <1>7, <2>1, OrderlyNext
<1>9. WinsBooked(M, ds)
    <2>1. \A i \in NewRows(L, M) : \A b \in M[i].bets : bs[b] = NoBet
        BY <1>1, <1>5, <1>6
    <2> QED BY <1>3, <1>6, <1>7, <2>1, WinsNext
<1>10. Total(ledger', Stakes) + BookTotal(book') = 0
    <2>1. row.kind \in Stakes /\ row.amount \in Int
        BY <1>1 DEF Stakes, Rows
    <2>2. Total(M, Stakes) = Total(L, Stakes) + row.amount
        BY <1>3, <2>1, TotalAppended
    <2>3. Total(L, Stakes) \in Int
        BY <1>3, TotalType
    <2>4. Total(L, Stakes) + BookTotal(book) = 0
        BY <1>2 DEF Shown
    <2>5. BookTotal(book) \in Int
        BY TypedNow DEF Typed, BookOK, BookTotal, BetModes
    <2> QED BY <1>1, <1>2, <2>1, <2>2, <2>3, <2>4, <2>5
<1>11. \A b \in BetIds : bets'[b] = bets[b] \/ ResultStands(bets'[b], declared)
    BY <1>2, <1>5 DEF ResultStands
<1> QED BY <1>2, <1>5, <1>8, <1>9, <1>10, <1>11, ShownNext

LEMMA CommitChangeShown ==
    ASSUME DeskInv, DeskInv', Shown, NEW r \in inflight, r.kind = "change", CommitChange(r),
           inflight' \subseteq inflight, declared' = declared, ~overtaken'
    PROVE  Shown'
<1>1. PICK b, user, was, next, more :
         /\ b = r.bet /\ user = Owner[b] /\ was = r.was /\ next = r.next
         /\ more = Held(next) - Held(was)
    OBVIOUS
<1>2. /\ Storable(next) /\ bets[b] = was
      /\ bets' = [bets EXCEPT ![b] = Saved(was, was, next)]
      /\ book' = Rebooked(r)
      /\ ledger' = IF more = 0 THEN ledger ELSE Append(ledger, EditRow(user, more))
    BY <1>1 DEF CommitChange
<1>3. ChangeOK(r)
    BY DEF DeskInv, DeskOK, RequestOK
<1>4. /\ b \in BetIds /\ PendingOK(b, was) /\ BetOK(b, next) /\ BetOK(b, was)
      /\ next.status \in {"pending", "cancelled"}
    BY <1>1, <1>2, <1>3 DEF ChangeOK, PendingOK
<1>5. PICK saved : saved = Saved(was, was, next)
    OBVIOUS
<1>6. bets'[b] = saved /\ OnlyBet(bets, bets', b)
    <2>1. bets = [x \in BetIds |-> bets[x]]
        BY DEF DeskInv, DeskOK, BetsOK
    <2> QED BY <1>2, <1>4, <1>5, <2>1 DEF OnlyBet
<1>7. saved.status = next.status
    BY <1>4, <1>5, SavedIsNext
<1>8. PICK L, M, bs, ds : L = ledger /\ M = ledger' /\ bs = bets /\ ds = bets'
    OBVIOUS
<1>9. L \in Seq(Rows) /\ Orderly(L, bs) /\ WinsBooked(L, bs)
    BY <1>8, TypedNow DEF Typed, Shown
<1>10. StayPlaced(bs, ds) /\ SameWins(bs, ds)
    <2>1. bs[b].status = "pending" /\ ds[b].status \in {"pending", "cancelled"}
        BY <1>2, <1>4, <1>6, <1>7, <1>8 DEF PendingOK
    <2>2. \A x \in BetIds : x # b => ds[x] = bs[x]
        BY <1>6, <1>8 DEF OnlyBet
    <2>3. ds[b] # NoBet
        BY <2>1 DEF NoBet
    <2> QED BY <2>1, <2>2, <2>3 DEF StayPlaced, SameWins
<1>11. \A x \in BetIds : bets'[x] = bets[x] \/ ResultStands(bets'[x], declared)
    BY <1>4, <1>6, <1>7 DEF OnlyBet, ResultStands
<1>12. more \in Int /\ user \in Users
    BY <1>1, <1>4, HeldType, DeskAssumption
<1>13. BookTotal(book') = BookTotal(book) + more /\ BookTotal(book) \in Int
    <2>1. BookOK(book)
        BY TypedNow DEF Typed
    <2>2. BookTotal(Rebooked(r)) = BookTotal(book) + more
        BY <1>1, <1>4, <2>1, RebookedTotal
    <2> QED BY <1>2, <2>1, <2>2 DEF BookOK, BookTotal, BetModes
<1>14. Total(L, Stakes) + BookTotal(book) = 0 /\ Total(L, Stakes) \in Int
    BY <1>8, <1>9, TotalType DEF Shown
<1>15. CASE more = 0
    <2>1. M = L
        BY <1>2, <1>8, <1>15
    <2>2. Grows(L, L, {})
        BY DEF Grows, NewRows
    <2>3. Orderly(L, ds) /\ WinsBooked(L, ds)
        BY <1>9, <1>10, <2>2, LedgerNext
    <2>4. Total(ledger', Stakes) + BookTotal(book') = 0
        BY <1>8, <1>13, <1>14, <1>15, <2>1
    <2> QED BY <1>8, <1>11, <2>1, <2>3, <2>4, ShownNext
<1>16. CASE more # 0
    <2>1. PICK row : row = EditRow(user, more)
        OBVIOUS
    <2>2. row \in Rows /\ row.kind = "change" /\ row.amount = -more
        <3>1. -more \in Int
            BY <1>12
        <3>2. row = Row(user, -more, "change")
            BY <2>1 DEF EditRow
        <3>3. row \in Rows /\ row.amount = -more
            BY <1>12, <3>1, <3>2, RowType DEF Kinds
        <3> QED BY <3>2, <3>3 DEF Row
    <2>3. M = Append(L, row)
        BY <1>2, <1>8, <1>16, <2>1
    <2>4. Grows(L, M, {"change"})
        BY <1>9, <2>2, <2>3, AppendGrows
    <2>5. Orderly(M, ds) /\ WinsBooked(M, ds)
        BY <1>9, <1>10, <2>4, LedgerNext
    <2>6. Total(M, Stakes) = Total(L, Stakes) - more
        <3>1. Total(M, Stakes) = Total(L, Stakes) + row.amount
            BY <1>9, <2>2, <2>3, TotalAppended DEF Stakes
        <3> QED BY <1>12, <1>14, <2>2, <3>1
    <2>7. Total(ledger', Stakes) + BookTotal(book') = 0
        BY <1>8, <1>12, <1>13, <1>14, <2>6
    <2> QED BY <1>8, <1>11, <2>5, <2>7, ShownNext
<1> QED BY <1>15, <1>16

\* A step that adds rows of other kinds, and may delete some.
LEMMA OthersShown ==
    ASSUME DeskInv, Shown, NEW K, Grows(ledger, ledger', K), K \intersect {"debit", "change", "win"} = {},
           UNCHANGED <<bets, book, declared>>, inflight' \subseteq inflight
    PROVE  Shown'
<1>1. PICK L, M, bs : L = ledger /\ M = ledger' /\ bs = bets
    OBVIOUS
<1>2. L \in Seq(Rows) /\ Orderly(L, bs) /\ WinsBooked(L, bs) /\ Grows(L, M, K)
    BY <1>1, TypedNow DEF Typed, Shown
<1>3. StayPlaced(bs, bs) /\ SameWins(bs, bs)
    BY DEF StayPlaced, SameWins
<1>4. Orderly(M, bs) /\ WinsBooked(M, bs)
    BY <1>2, <1>3, LedgerNext
<1>5. Total(M, Stakes) = Total(L, Stakes)
    BY <1>2, TotalKept DEF Stakes
<1>6. bets' = bets /\ book' = book
    OBVIOUS
<1>7. Total(ledger', Stakes) + BookTotal(book') = 0
    BY <1>1, <1>5, <1>6 DEF Shown
<1> QED BY <1>1, <1>4, <1>6, <1>7, ShownNext

LEMMA CommitFundsShown ==
    ASSUME DeskInv, Shown, NEW r \in inflight, r.kind = "funds", CommitFunds(r),
           inflight' \subseteq inflight, declared' = declared
    PROVE  Shown'
<1>1. ledger' = Append(ledger, r.row) /\ UNCHANGED <<bets, book>>
    BY DEF CommitFunds
<1>2. r.row.kind = "funds"
    BY DEF Shown, Foreseen
<1>3. ledger \in Seq(Rows)
    BY TypedNow DEF Typed
<1>4. Grows(ledger, ledger', {"funds"})
    BY <1>1, <1>2, <1>3, AppendGrows
<1> QED BY <1>1, <1>4, OthersShown

LEMMA GrowsTwice ==
    ASSUME NEW L, NEW M, NEW N, NEW K, Grows(L, M, K), Grows(M, N, K) PROVE Grows(L, N, K)
BY DEF Grows, NewRows

LEMMA CommitUnbookShown ==
    ASSUME DeskInv, Shown, NEW r \in inflight, r.kind = "unbook", CommitUnbook(r),
           inflight' \subseteq inflight, declared' = declared
    PROVE  Shown'
<1>1. PICK row : row = Row(r.row.user, -r.row.amount, "reversal")
    OBVIOUS
<1>2. PICK L, M, marked : /\ L = ledger /\ M = ledger'
                          /\ marked = [ledger EXCEPT ![r.at].deleted = TRUE]
    OBVIOUS
<1>3. M = Append(marked, row) /\ UNCHANGED <<bets, book>>
    BY <1>1, <1>2 DEF CommitUnbook
<1>4. L \in Seq(Rows) /\ r.at \in DOMAIN L
    BY <1>2, TypedNow DEF Typed, DeskInv, DeskOK, RequestOK
<1>5. marked \in Seq(Rows) /\ Grows(L, marked, {"reversal"})
    <2>1. PICK old, now : old = L[r.at] /\ now = [old EXCEPT !.deleted = TRUE]
        OBVIOUS
    <2>2. old \in Rows
        BY <1>4, <2>1
    <2>3. /\ now \in Rows /\ now.kind = old.kind /\ now.amount = old.amount
          /\ now.bets = old.bets /\ now.related = old.related /\ now.deleted
        BY <2>1, <2>2 DEF Rows
    <2>4. marked = [L EXCEPT ![r.at] = now]
        BY <1>2, <2>1
    <2> QED BY <1>4, <2>1, <2>3, <2>4 DEF Grows, NewRows
<1>6. row.kind = "reversal"
    BY <1>1 DEF Row
<1>7. Grows(marked, M, {"reversal"})
    BY <1>3, <1>5, <1>6, AppendGrows
<1>8. Grows(ledger, ledger', {"reversal"})
    BY <1>2, <1>5, <1>7, GrowsTwice
<1> QED BY <1>3, <1>8, OthersShown

LEMMA SettledStatus ==
    ASSUME NEW b, NEW bet, BetOK(b, bet), NEW pana, NEW session
    PROVE  LET end == Settled(bet, pana, session)
           IN  /\ end.status \in {"won", "lost"}
               /\ end.status = "won" <=> IsWinningBet(bet, pana, session)
BY DEF Settled, BetOK, Fields

LEMMA SameStakeWins ==
    ASSUME NEW bet, NEW next, SameStake(bet, next), NEW pana, NEW session
    PROVE  IsWinningBet(next, pana, session) <=> IsWinningBet(bet, pana, session)
BY DEF SameStake, IsWinningBet, WinsOn

LEMMA DecidedStands ==
    ASSUME NEW b \in BetIds, NEW bet, PendingOK(b, bet), NEW D, NEW mode \in D, mode \in BetModes,
           InPass(bet, mode), NEW session, session = SessionOf(D),
           NEW end, end = Settled(bet, session[mode], session), NEW next, next = Decided(bet, end)
    PROVE  ResultStands(next, D)
<1>1. SameStake(bet, next) /\ next.status = end.status
    BY PassSettles
<1>2. end.status = "won" <=> IsWinningBet(bet, session[mode], session)
    BY SettledStatus DEF PendingOK
<1>3. IsWinningBet(next, session[next.mode], session) <=> IsWinningBet(bet, session[bet.mode], session)
    BY <1>1, SameStakeWins DEF SameStake
<1>4. bet.template \in Combined => mode = "close"
    BY DEF InPass, BetModes
<1>5. bet.template \notin Combined => bet.mode = mode
    BY DEF InPass, BetModes
<1>6. IsWinningBet(bet, session[bet.mode], session) <=> IsWinningBet(bet, session[mode], session)
    BY <1>5 DEF IsWinningBet
<1>7. next.template = bet.template /\ next.mode = bet.mode
    BY <1>1 DEF SameStake
<1> QED BY <1>1, <1>2, <1>3, <1>4, <1>5, <1>6, <1>7 DEF ResultStands

LEMMA WinRowNames ==
    ASSUME ledger \in Seq(Rows), Orderly(ledger, bets), NEW b \in BetIds, NEW payout
    PROVE  /\ WinRow(b, payout).kind = "win" /\ WinRow(b, payout).bets = {b}
           /\ WinRow(b, payout).amount = payout
           /\ \A d \in DebitsIn(ledger) :
                b \in ledger[d].bets /\ ~ledger[d].deleted => WinRow(b, payout).related = d
           /\ WinRow(b, payout).related # 0 =>
                \E d \in DebitsIn(ledger) : d = WinRow(b, payout).related /\ b \in ledger[d].bets
<1> PICK debits : debits = DebitsOf(b)
    OBVIOUS
<1>1. PICK n \in Nat : DOMAIN ledger = 1 .. n
    OBVIOUS
<1>2. \A d : d \in debits <=> d \in DebitsIn(ledger) /\ b \in ledger[d].bets /\ ~ledger[d].deleted
    BY DEF DebitsOf, Stored, DebitsIn, RowsIn
<1>3. \A d, e \in debits : d = e
    BY <1>2 DEF Orderly
<1>4. debits # {} => Min(debits) \in debits
    <2> HAVE debits # {}
    <2>1. PICK d : d \in debits
        OBVIOUS
    <2>2. d \in 1 .. n
        BY <1>1, <1>2, <2>1 DEF DebitsIn, RowsIn
    <2>3. \A x \in debits : d <= x
        BY <1>3, <2>1, <2>2
    <2> QED BY <2>1, <2>3 DEF Min
<1>5. PICK related : related = IF debits = {} THEN 0 ELSE Min(debits)
    OBVIOUS
<1>6. PICK base : base = Row(Owner[b], payout, "win")
    OBVIOUS
<1>7. WinRow(b, payout) = [base EXCEPT !.bets = {b}, !.related = related]
    BY <1>5, <1>6 DEF WinRow
<1>8. base.kind = "win" /\ base.amount = payout
      /\ DOMAIN base = {"user", "amount", "kind", "key", "bets", "related", "deleted"}
    BY <1>6 DEF Row
<1>9. /\ WinRow(b, payout).kind = "win" /\ WinRow(b, payout).bets = {b}
      /\ WinRow(b, payout).amount = payout /\ WinRow(b, payout).related = related
    BY <1>7, <1>8
<1>10. \A d \in debits : related = d
    BY <1>3, <1>4, <1>5
<1>11. related # 0 => related \in debits
    BY <1>4, <1>5
<1> QED BY <1>2, <1>9, <1>10, <1>11

RowsFor(won, payouts) ==
    [n \in DOMAIN SetToSeq(won) |-> WinRow(SetToSeq(won)[n], payouts[SetToSeq(won)[n]])]

\* The transactions a pass writes are one for each bet that has won.
LEMMA RowsOfWinners ==
    ASSUME ledger \in Seq(Rows), Orderly(ledger, bets), NEW won \in SUBSET BetIds, NEW ds,
           NEW payouts, \A b \in won : payouts[b] \in Nat /\ payouts[b] = ds[b].payout
    PROVE  LET M == ledger \o RowsFor(won, payouts)
           IN  Grows(ledger, M, {"win"}) /\ NewWins(ledger, M, ds, won)
<1> PICK L, rows, M : L = ledger /\ rows = RowsFor(won, payouts) /\ M = L \o rows
    OBVIOUS
<1>1. PICK winners, k : winners = SetToSeq(won) /\ k = Cardinality(won)
    OBVIOUS
<1>2. IsFiniteSet(won)
    BY FS_Subset, FiniteBets
<1>3. k \in Nat /\ winners \in Bijection(1 .. k, won)
    BY <1>1, <1>2, EnumerationType
<1>4. /\ winners \in [1 .. k -> won]
      /\ \A m, n \in 1 .. k : winners[m] = winners[n] => m = n
      /\ \A b \in won : \E n \in 1 .. k : winners[n] = b
    BY <1>3 DEF Bijection, Injection, IsInjective, Surjection
<1>5. rows = [n \in 1 .. k |-> WinRow(winners[n], payouts[winners[n]])]
    BY <1>1, <1>4 DEF RowsFor
<1>6. rows \in Seq(Rows)
    BY WinRowsType DEF RowsFor
<1>7. PICK l : l = Len(L) /\ l \in Nat /\ DOMAIN L = 1 .. l
    OBVIOUS
<1>8. DOMAIN rows = 1 .. k
    BY <1>5
<1>9. /\ DOMAIN M = 1 .. l + k
      /\ \A i \in 1 .. l : M[i] = L[i]
      /\ \A n \in 1 .. k : M[l + n] = rows[n]
    <2>1. Len(rows) = k
        BY <1>3, <1>6, <1>8
    <2> QED BY <1>3, <1>6, <1>7, <2>1
<1>10. /\ 1 .. l \subseteq 1 .. l + k
       /\ \A i \in (1 .. l + k) \ (1 .. l) : i - l \in 1 .. k /\ l + (i - l) = i
       /\ \A n \in 1 .. k : l + n \in (1 .. l + k) \ (1 .. l)
    BY <1>3, <1>7
<1>11. NewRows(L, M) = (1 .. l + k) \ (1 .. l)
    BY <1>7, <1>9 DEF NewRows
<1>12. ASSUME NEW n \in 1 .. k
       PROVE  LET b == winners[n] IN
              /\ b \in won /\ M[l + n].kind = "win"
              /\ M[l + n].bets = {b} /\ M[l + n].amount = ds[b].payout
              /\ \A d \in DebitsIn(L) : b \in L[d].bets /\ ~L[d].deleted => M[l + n].related = d
              /\ M[l + n].related # 0 =>
                   \E d \in DebitsIn(L) : d = M[l + n].related /\ b \in L[d].bets
    <2>1. PICK b, payout : b = winners[n] /\ payout = payouts[b]
        OBVIOUS
    <2>2. b \in won /\ b \in BetIds /\ payout = ds[b].payout
        BY <1>4, <2>1
    <2>3. M[l + n] = WinRow(b, payout)
        BY <1>5, <1>9, <2>1
    <2>4. ledger \in Seq(Rows) /\ Orderly(ledger, bets)
        OBVIOUS
    <2>5. /\ WinRow(b, payout).kind = "win" /\ WinRow(b, payout).bets = {b}
          /\ WinRow(b, payout).amount = payout
          /\ \A d \in DebitsIn(ledger) :
               b \in ledger[d].bets /\ ~ledger[d].deleted => WinRow(b, payout).related = d
          /\ WinRow(b, payout).related # 0 =>
               \E d \in DebitsIn(ledger) : d = WinRow(b, payout).related /\ b \in ledger[d].bets
        BY <2>2, <2>4, WinRowNames
    <2> QED BY <2>1, <2>2, <2>3, <2>5
<1>13. ASSUME NEW i \in NewRows(L, M)
       PROVE  \E n \in 1 .. k : i = l + n
    BY <1>10, <1>11
<1>14. Grows(L, M, {"win"})
    <2>1. ASSUME NEW i \in NewRows(L, M) PROVE M[i].kind = "win"
        <3>1. PICK n \in 1 .. k : i = l + n
            BY <1>13
        <3>2. M[l + n].kind = "win"
            BY <1>12
        <3> QED BY <3>1, <3>2
    <2> QED BY <1>7, <1>9, <1>10, <2>1 DEF Grows
<1>15. \A i \in NewRows(L, M) : \E b \in won :
          /\ M[i].bets = {b} /\ M[i].amount = ds[b].payout
          /\ \A d \in DebitsIn(L) : b \in L[d].bets /\ ~L[d].deleted => M[i].related = d
          /\ M[i].related # 0 => \E d \in DebitsIn(L) : d = M[i].related /\ b \in L[d].bets
    <2> TAKE i \in NewRows(L, M)
    <2>1. PICK n \in 1 .. k : i = l + n
        BY <1>13
    <2>2. PICK b : b = winners[n]
        OBVIOUS
    <2>3. /\ b \in won
          /\ M[i].bets = {b} /\ M[i].amount = ds[b].payout
          /\ \A d \in DebitsIn(L) : b \in L[d].bets /\ ~L[d].deleted => M[i].related = d
          /\ M[i].related # 0 => \E d \in DebitsIn(L) : d = M[i].related /\ b \in L[d].bets
        BY <1>12, <2>1, <2>2
    <2> QED BY <2>3
<1>16. \A i, j \in NewRows(L, M) : M[i].bets = M[j].bets => i = j
    <2> TAKE i, j \in NewRows(L, M)
    <2>1. PICK m \in 1 .. k : i = l + m
        BY <1>13
    <2>2. PICK n \in 1 .. k : j = l + n
        BY <1>13
    <2>3. M[i].bets = {winners[m]} /\ M[j].bets = {winners[n]}
        BY <1>12, <2>1, <2>2
    <2>4. M[i].bets = M[j].bets => winners[m] = winners[n]
        BY <2>3
    <2>5. winners[m] = winners[n] => m = n
        BY <1>4
    <2> QED BY <2>1, <2>2, <2>4, <2>5
<1>17. \A b \in won : \E i \in NewRows(L, M) : M[i].bets = {b}
    <2> TAKE b \in won
    <2>1. PICK n \in 1 .. k : winners[n] = b
        BY <1>4
    <2>2. l + n \in NewRows(L, M) /\ M[l + n].bets = {b}
        BY <1>10, <1>11, <1>12, <2>1
    <2> QED BY <2>2
<1>18. NewWins(L, M, ds, won)
    BY <1>15, <1>16, <1>17 DEF NewWins
<1>19. M = ledger \o RowsFor(won, payouts) /\ L = ledger
    OBVIOUS
<1> QED BY <1>14, <1>18, <1>19

LEMMA CommitPassShown ==
    ASSUME DeskInv, DeskInv', Shown, NEW r \in inflight, r.kind = "pass", CommitPass(r),
           ~overtaken'
    PROVE  Shown'
<1> DEFINE due == DOMAIN r.was
           end == [b \in due |-> Settled(r.was[b], Session[r.mode], Session)]
           won == {b \in due : end[b].status = "won"}
           rows == [n \in DOMAIN SetToSeq(won) |->
                      WinRow(SetToSeq(won)[n], end[SetToSeq(won)[n]].payout)]
<1>1. /\ due = DOMAIN r.was
      /\ end = [b \in due |-> Settled(r.was[b], Session[r.mode], Session)]
      /\ won = {b \in due : end[b].status = "won"}
      /\ rows = [n \in DOMAIN SetToSeq(won) |->
                   WinRow(SetToSeq(won)[n], end[SetToSeq(won)[n]].payout)]
    OBVIOUS
<1>2. ledger' = ledger \o rows
    BY Zenon DEF CommitPass
<1> HIDE DEF due, end, won, rows
<1>3. ledger' = ledger \o rows /\ declared' = declared
    BY <1>2 DEF CommitPass
<1>4. /\ due \in SUBSET BetIds
      /\ \A b \in due : /\ PendingOK(b, bets[b]) /\ r.was[b] = bets[b]
                        /\ LET e == Settled(bets[b], Session[r.mode], Session)
                           IN  bets'[b] = Decided(bets[b], e)
      /\ \A b \in BetIds \ due : bets'[b] = bets[b]
      /\ UNCHANGED book
      /\ inflight' \subseteq inflight
    BY <1>1, PassWrites
<1>5. PICK session : session = Session
    OBVIOUS
<1>6. session = SessionOf(declared)
    BY <1>5 DEF Session, SessionOf
<1>7. /\ r.mode \in declared /\ r.mode \in BetModes
      /\ \A b \in due : InPass(bets[b], r.mode)
    BY <1>1, <1>4, TypedNow DEF Typed, Shown, Foreseen
<1>8. ASSUME NEW b \in due
      PROVE  /\ end[b] = Settled(bets[b], session[r.mode], session)
             /\ bets'[b] = Decided(bets[b], end[b])
             /\ end[b].payout \in Nat
             /\ bets[b].status = "pending" /\ bets'[b].status = end[b].status
             /\ bets'[b].status \in {"won", "lost"} /\ bets'[b].payout = end[b].payout
             /\ ResultStands(bets'[b], declared)
    <2>1. /\ end[b] = Settled(bets[b], session[r.mode], session)
          /\ bets'[b] = Decided(bets[b], end[b])
        BY <1>1, <1>4, <1>5
    <2>2. PICK bet, next, e, pana : /\ bet = bets[b] /\ next = bets'[b] /\ e = end[b]
                                    /\ pana = session[r.mode]
        OBVIOUS
    <2>3. /\ b \in BetIds /\ PendingOK(b, bet) /\ e = Settled(bet, pana, session)
          /\ next = Decided(bet, e) /\ InPass(bet, r.mode)
        BY <1>4, <1>7, <2>1, <2>2
    <2>4. next.status = e.status /\ next.payout = e.payout /\ next.status \in {"won", "lost"}
        BY <2>3, PassSettles
    <2>5. e.payout \in Nat
        BY <2>3, SettledType
    <2>6. ResultStands(next, declared)
        BY <1>6, <1>7, <2>2, <2>3, DecidedStands
    <2>7. bet.status = "pending"
        BY <2>3 DEF PendingOK
    <2> QED BY <2>1, <2>2, <2>4, <2>5, <2>6, <2>7
<1>9. PICK L, M, bs, ds : L = ledger /\ M = ledger' /\ bs = bets /\ ds = bets'
    OBVIOUS
<1>10. L \in Seq(Rows) /\ Orderly(L, bs) /\ WinsBooked(L, bs)
    BY <1>9, TypedNow DEF Typed, Shown
<1>11. PICK payouts : payouts = [b \in due |-> end[b].payout]
    OBVIOUS
<1>12. /\ won \in SUBSET BetIds
       /\ \A b \in won : payouts[b] \in Nat /\ payouts[b] = ds[b].payout
    BY <1>1, <1>4, <1>8, <1>9, <1>11
<1>13. rows = RowsFor(won, payouts)
    <2>1. PICK winners, k : winners = SetToSeq(won) /\ k = Cardinality(won)
        OBVIOUS
    <2>2. IsFiniteSet(won)
        BY <1>12, FS_Subset, FiniteBets
    <2>3. winners \in [1 .. k -> won]
        BY <2>1, <2>2, EnumerationType DEF Bijection, Injection
    <2>4. \A n \in DOMAIN winners : winners[n] \in due
        BY <1>1, <2>3
    <2>5. \A n \in DOMAIN winners : payouts[winners[n]] = end[winners[n]].payout
        BY <1>11, <2>4
    <2>6. \A n \in DOMAIN SetToSeq(won) :
             WinRow(SetToSeq(won)[n], end[SetToSeq(won)[n]].payout)
               = WinRow(SetToSeq(won)[n], payouts[SetToSeq(won)[n]])
        <3> TAKE n \in DOMAIN SetToSeq(won)
        <3>1. payouts[SetToSeq(won)[n]] = end[SetToSeq(won)[n]].payout
            BY <2>1, <2>5
        <3> QED BY <3>1
    <2> QED BY Zenon, <1>1, <2>6 DEF RowsFor
<1>14. Grows(L, M, {"win"}) /\ NewWins(L, M, ds, won)
    <2>1. M = ledger \o RowsFor(won, payouts)
        BY <1>3, <1>9, <1>13
    <2>2. ledger \in Seq(Rows) /\ Orderly(ledger, bets)
        BY <1>9, <1>10
    <2>3. Grows(ledger, M, {"win"}) /\ NewWins(ledger, M, ds, won)
        BY <1>12, <2>1, <2>2, RowsOfWinners
    <2> QED BY <1>9, <2>3
<1>15. StayPlaced(bs, ds)
    <2>1. \A b \in BetIds : ds[b].status \in {"won", "lost"} \/ ds[b] = bs[b]
        <3> TAKE b \in BetIds
        <3>1. CASE b \in due
            BY <1>8, <1>9, <3>1
        <3>2. CASE b \notin due
            BY <1>4, <1>9, <3>2
        <3> QED BY <3>1, <3>2
    <2>2. NoBet.status \notin {"won", "lost"}
        BY DEF NoBet
    <2> QED BY <2>1, <2>2 DEF StayPlaced
<1>16. Orderly(M, ds)
    <2>1. \A i \in NewRows(L, M) : M[i].kind # "debit"
        BY <1>14 DEF Grows
    <2> QED BY <1>10, <1>14, <1>15, <2>1, OrderlyNext
<1>17. WinsBooked(M, ds)
    <2>1. \A b \in won : bs[b].status # "won" /\ ds[b].status = "won"
        BY <1>1, <1>8, <1>9
    <2>2. \A b \in BetIds \ won : /\ bs[b].status = "won" => ds[b] = bs[b]
                                  /\ ds[b].status = "won" => bs[b].status = "won"
        <3> TAKE b \in BetIds \ won
        <3>1. CASE b \in due
            <4>1. end[b].status # "won"
                BY <1>1, <3>1
            <4>2. bs[b].status = "pending" /\ ds[b].status = end[b].status
                BY <1>8, <1>9, <3>1
            <4> QED BY <4>1, <4>2
        <3>2. CASE b \notin due
            BY <1>4, <1>9, <3>2
        <3> QED BY <3>1, <3>2
    <2> QED BY SMTT(30), <1>10, <1>12, <1>14, <2>1, <2>2, WinsPaid
<1>18. Total(ledger', Stakes) + BookTotal(book') = 0
    <2>1. Total(M, Stakes) = Total(L, Stakes)
        BY <1>10, <1>14, TotalKept DEF Stakes
    <2>2. book' = book
        BY <1>4
    <2> QED BY <1>9, <2>1, <2>2 DEF Shown
<1>19. \A b \in BetIds : bets'[b] = bets[b] \/ ResultStands(bets'[b], declared)
    BY <1>4, <1>8
<1> QED BY <1>3, <1>4, <1>9, <1>16, <1>17, <1>18, <1>19, ShownNext

LEMMA CommitShown ==
    ASSUME DeskInv, DeskInv', Shown, NEW r \in inflight, r.kind # "pass", Commit(r), ~overtaken'
    PROVE  Shown'
<1>1. inflight' \subseteq inflight /\ declared' = declared
    BY DEF Commit
<1>2. CASE r.kind = "change"
    <2>1. CommitChange(r)
        BY <1>2 DEF Commit
    <2> QED BY <1>1, <1>2, <2>1, CommitChangeShown
<1>3. CASE r.kind = "funds"
    <2>1. CommitFunds(r)
        BY <1>3 DEF Commit
    <2> QED BY <1>1, <1>3, <2>1, CommitFundsShown
<1>4. CASE r.kind = "unbook"
    <2>1. CommitUnbook(r)
        BY <1>4 DEF Commit
    <2> QED BY <1>1, <1>4, <2>1, CommitUnbookShown
<1> QED BY <1>2, <1>3, <1>4 DEF DeskInv, DeskOK, RequestOK

\* Reports only read; their invariant is one of the desk.
ReportInv == AgreeInv /\ (~overtaken => Shown)

LEMMA InitiallyShown == ASSUME Init PROVE ReportInv
<1>1. AgreeInv
    BY InitiallyAgreed
<1>2. /\ ledger = <<>> /\ declared = {} /\ inflight = {}
      /\ book = [m \in BetModes |-> NoBook] /\ bets = [b \in BetIds |-> NoBet]
    BY DEF Init
<1>3. DOMAIN ledger = {}
    BY <1>2
<1>4. Orderly(ledger, bets)
    BY <1>3 DEF Orderly, DebitsIn, RowsIn
<1>5. WinsBooked(ledger, bets)
    BY <1>2, <1>3 DEF WinsBooked, WinsIn, RowsIn, NoBet
<1>6. Total(ledger, Stakes) + BookTotal(book) = 0
    <2>1. RowsIn(ledger, Stakes) = {}
        BY <1>3 DEF RowsIn
    <2>2. Total(ledger, Stakes) = 0
        BY <2>1, SumEmpty DEF Total
    <2>3. BookTotal(book) = 0
        BY <1>2 DEF BookTotal, NoBook, BetModes
    <2> QED BY <2>2, <2>3
<1>7. \A b \in BetIds : ResultStands(bets[b], declared)
    BY <1>2, NoBetStands
<1> QED BY <1>1, <1>2, <1>4, <1>5, <1>6, <1>7 DEF ReportInv, Shown

\* Each step writes the rows that its change of the bets calls for.
LEMMA ReportsKept == ASSUME ReportInv, [Next]_vars PROVE ReportInv'
<1>1. AgreeInv' /\ DeskInv /\ DeskInv'
    BY AgreementKept, NextKeeps DEF ReportInv, AgreeInv
<1> SUFFICES ASSUME ~overtaken' PROVE Shown'
    BY <1>1 DEF ReportInv
<1>2. Shown
    BY <1>1, StaysOvertaken DEF ReportInv
<1>3. CASE \E order \in Orders : PlaceBets(order)
    BY <1>1, <1>2, <1>3, PlaceBetsShown
<1>4. CASE \E b \in BetIds : AskEditBet(b) \/ AskEditLine(b) \/ AskDeleteBet(b) \/ AskDeleteLine(b)
    BY <1>2, <1>4, AskToChangeShown
<1>5. CASE \E f \in FundsAsked : AskAdjustFunds(f)
    BY <1>2, <1>5, AskAdjustFundsShown
<1>6. CASE \E i \in DOMAIN ledger : AskDeleteTransaction(i)
    BY <1>2, <1>6, AskDeleteTransactionShown
<1>7. CASE \E r \in {x \in inflight : x.kind # "pass"} : Commit(r) \/ Abort(r)
    <2>1. PICK r \in inflight : r.kind # "pass" /\ (Commit(r) \/ Abort(r))
        BY <1>7
    <2>2. CASE Commit(r)
        BY <1>1, <1>2, <2>1, <2>2, CommitShown
    <2>3. CASE Abort(r)
        BY <1>2, <2>3, OnlyRequestsShown DEF Abort
    <2> QED BY <2>1, <2>2, <2>3
<1>8. CASE \E mode \in BetModes : Declare(mode) \/ ReadPass(mode)
    BY <1>1, <1>2, <1>8, DeclareShown, ReadPassShown
<1>9. CASE \E r \in {x \in inflight : x.kind = "pass"} : CommitPass(r)
    BY <1>1, <1>2, <1>9, CommitPassShown
<1>10. CASE UNCHANGED vars
    BY <1>2, <1>10, OnlyRequestsShown DEF vars
<1> QED BY <1>3, <1>4, <1>5, <1>6, <1>7, <1>8, <1>9, <1>10 DEF Next

\* The rows and bets are matched in every state, until a request is overtaken.
LEMMA AlwaysShown == Spec => []ReportInv
<1>1. Init => ReportInv
    BY InitiallyShown
<1>2. ReportInv /\ [Next]_vars => ReportInv'
    BY ReportsKept
<1> QED BY <1>1, <1>2, PTL DEF Spec

-----------------------------------------------------------------------------
(* What the books say of a result that is still open *)

HitOf(bet, pana) == IF bet.template \in Motors THEN <<"pana", <<pana>> >> ELSE KeyOf(bet)

\* A bet adds its payout to the one key by which it would win, if it would.
LEMMA BetPays ==
    ASSUME NEW b \in BetIds, NEW bet, BetOK(b, bet), Formed(bet), NEW pana, APana(pana),
           NEW mode \in BetModes, InPass(bet, mode), NEW open, open = NoPana \/ APana(open),
           NEW after, after[mode] = pana, mode = "close" => after["open"] = open
    PROVE  /\ ExposureMode(bet) = mode
           /\ IsWinningBet(bet, pana, after) => HitOf(bet, pana) \in OutcomeKeys(pana, mode, open)
           /\ \A k \in OutcomeKeys(pana, mode, open) :
                Adds(bet, mode, FALSE, k)
                  = IF IsWinningBet(bet, pana, after) /\ HitOf(bet, pana) = k
                    THEN CalculatePayout(bet, pana) ELSE 0
<1>1. ExposureMode(bet) = mode
    BY DEF InPass, ExposureMode, BetModes
<1>2. \A k : Adds(bet, mode, FALSE, k) = AmountAt(GenerateFromBet(bet).at, k)
    BY <1>1 DEF Adds
<1>3. bet.template \in Templates /\ pana # NoPana
    BY DeskAssumption, DigitsAreNoPanas DEF BetOK
<1>4. CASE bet.template \in Motors
    <2>1. bet.template \notin Combined
        BY <1>4 DEF Motors, Combined
    <2>2. IsWinningBet(bet, pana, after) <=> pana \in Range(bet.selection)
        BY <1>3, <1>4, <2>1 DEF IsWinningBet, WinsOn
    <2>3. <<"pana", <<pana>> >> \in OutcomeKeys(pana, mode, open)
        BY DEF OutcomeKeys
    <2>4. \A k \in OutcomeKeys(pana, mode, open) : k[1] = "pana" => k = <<"pana", <<pana>> >>
        BY DEF OutcomeKeys, CompositeKeys
    <2>5. PICK at : at = GenerateFromBet(bet).at
        OBVIOUS
    <2>6. /\ DOMAIN at = {<<"pana", <<p>> >> : p \in Range(bet.selection)}
          /\ \A k \in DOMAIN at : at[k] = bet.odds * LineStake(bet, k[2][1])
        BY <1>4, <2>5 DEF GenerateFromBet
    <2>7. CalculatePayout(bet, pana) = bet.odds * LineStake(bet, pana)
        BY <1>3, <1>4 DEF CalculatePayout
    <2>8. ASSUME NEW k \in OutcomeKeys(pana, mode, open)
          PROVE  AmountAt(at, k) = IF IsWinningBet(bet, pana, after) /\ HitOf(bet, pana) = k
                                   THEN CalculatePayout(bet, pana) ELSE 0
        <3>1. HitOf(bet, pana) = <<"pana", <<pana>> >>
            BY <1>4 DEF HitOf
        <3>2. k \in DOMAIN at => k = <<"pana", <<pana>> >>
            BY <2>4, <2>6
        <3>3. <<"pana", <<pana>> >> \in DOMAIN at <=> pana \in Range(bet.selection)
            BY <2>6
        <3>4. k = <<"pana", <<pana>> >> => k[2][1] = pana
            OBVIOUS
        <3>5. CASE k \in DOMAIN at
            BY <2>2, <2>6, <2>7, <3>1, <3>2, <3>3, <3>4, <3>5 DEF AmountAt
        <3>6. CASE k \notin DOMAIN at
            BY <2>2, <3>1, <3>3, <3>6 DEF AmountAt
        <3> QED BY <3>5, <3>6
    <2> QED BY <1>1, <1>2, <1>4, <2>3, <2>5, <2>8 DEF HitOf
<1>5. CASE bet.template \notin Motors
    <2>1. HitOf(bet, pana) = KeyOf(bet)
        BY <1>5 DEF HitOf
    <2>2. IsWinningBet(bet, pana, after) <=> KeyOf(bet) \in OutcomeKeys(pana, mode, open)
        <3>1. CASE bet.template \in Combined
            <4>1. mode = "close"
                BY <1>1, <3>1 DEF ExposureMode
            <4> QED BY <3>1, <4>1, CombinedHits
        <3>2. CASE bet.template \notin Combined
            <4>1. bet.template \in Singles \ Combined
                BY <1>3, <1>5, <3>2 DEF Singles
            <4> QED BY <4>1, SingleHits
        <3> QED BY <3>1, <3>2
    <2>3. PICK at : at = GenerateFromBet(bet).at
        OBVIOUS
    <2>4. DOMAIN at = {KeyOf(bet)} /\ at[KeyOf(bet)] = bet.odds * bet.amount
        BY <1>5, <2>3 DEF GenerateFromBet, KeyOf
    <2>5. CalculatePayout(bet, pana) = bet.odds * bet.amount
        BY <1>5 DEF CalculatePayout, Formed
    <2>6. ASSUME NEW k \in OutcomeKeys(pana, mode, open)
          PROVE  AmountAt(at, k) = IF IsWinningBet(bet, pana, after) /\ HitOf(bet, pana) = k
                                   THEN CalculatePayout(bet, pana) ELSE 0
        BY <2>1, <2>2, <2>4, <2>5 DEF AmountAt
    <2> QED BY <1>1, <1>2, <2>1, <2>2, <2>3, <2>6
<1> QED BY <1>4, <1>5

LEMMA FiniteKeys ==
    ASSUME NEW pana, NEW mode, NEW open PROVE IsFiniteSet(OutcomeKeys(pana, mode, open))
<1>1. IsFiniteSet({<<"single", << <<DigitOf(pana)>> >> >>} \union {<<"pana", <<pana>> >>})
    BY FS_Singleton, FS_Union
<1>2. PICK a, b, c, d : /\ a = <<"jodi", << <<DigitOf(open), DigitOf(pana)>> >> >>
                        /\ b = <<"HS_A", <<open, <<DigitOf(pana)>> >> >>
                        /\ c = <<"HS_B", <<<<DigitOf(open)>>, pana>> >>
                        /\ d = <<"FS", <<open, pana>> >>
    OBVIOUS
<1>3. PICK left, right : left = {a} \union {b} /\ right = {c} \union {d}
    OBVIOUS
<1>4. IsFiniteSet(left) /\ IsFiniteSet(right)
    BY <1>3, FS_Singleton, FS_Union
<1>5. IsFiniteSet(left \union right)
    BY <1>4, FS_Union
<1>6. CompositeKeys(pana, open) = left \union right
    BY <1>2, <1>3 DEF CompositeKeys
<1>7. PICK more, both :
         /\ more = (IF mode = "close" /\ open # NoPana THEN CompositeKeys(pana, open) ELSE {})
         /\ both = {<<"single", << <<DigitOf(pana)>> >> >>, <<"pana", <<pana>> >>}
    OBVIOUS
<1>8. IsFiniteSet(more) /\ IsFiniteSet(both)
    <2>1. both = {<<"single", << <<DigitOf(pana)>> >> >>} \union {<<"pana", <<pana>> >>}
        BY <1>7
    <2>2. more = {} \/ more = left \union right
        BY <1>6, <1>7
    <2> QED BY <1>1, <1>5, <2>1, <2>2, FS_EmptySet
<1>9. OutcomeKeys(pana, mode, open) = both \union more
    BY <1>7 DEF OutcomeKeys
<1> QED BY <1>8, <1>9, FS_Union

\* An outcome costs the sum of the amounts at its keys, of which some may be absent.
LEMMA OutcomeIsSum ==
    ASSUME NEW at, CleanAt(at), NEW pana, NEW mode, NEW open, NEW K,
           K = OutcomeKeys(pana, mode, open), NEW fig, \A k \in K : fig[k] = AmountAt(at, k)
    PROVE  OutcomePayout(at, pana, mode, open) = SumFunctionOnSet(fig, K)
<1>1. PICK T, g : T = K \intersect DOMAIN at /\ g = Restrict(at, K \intersect DOMAIN at)
    OBVIOUS
<1>2. IsFiniteSet(K)
    BY FiniteKeys
<1>3. Summable(at, T)
    BY <1>1, <1>2, FS_Subset DEF CleanAt, Summable
<1>4. DOMAIN g = T /\ Agree(at, g, T)
    BY <1>1 DEF Restrict, Agree
<1>5. SumUp(g) = SumFunctionOnSet(at, T)
    BY <1>3, <1>4, SumUpOf
<1>6. T \in SUBSET K /\ \A k \in K : fig[k] = IF k \in T THEN at[k] ELSE 0
    BY <1>1 DEF AmountAt
<1>7. SumFunctionOnSet(at, T) = SumFunctionOnSet(fig, K)
    BY <1>2, <1>3, <1>6, SumOverAll
<1> QED BY <1>1, <1>5, <1>7 DEF OutcomePayout

\* The books price every result that is still open as its pass would pay it.
LEMMA BookForetells ==
    ASSUME ReportInv, ~overtaken, NEW mode \in BetModes \ declared, NEW pana, APana(pana)
    PROVE  OutcomePayout(book[mode].at, pana, mode, Session["open"]) = PassPayout(mode, pana)
<1>1. /\ AllOK(bets) /\ BookAgrees(book, bets) /\ mode \in BetModes
      /\ \A b \in BetIds : bets[b] = NoBet \/ Agrees(bets[b])
      /\ \A b \in BetIds : ResultStands(bets[b], declared)
    BY BetsAre DEF ReportInv, AgreeInv, BetsAgreed, Shown
<1>2. PICK bs, at, open, after, K, fig, due, pay, won, owner :
         /\ bs = bets /\ at = book[mode].at /\ open = Session["open"]
         /\ after = [Session EXCEPT ![mode] = pana]
         /\ K = OutcomeKeys(pana, mode, open)
         /\ fig = [k \in K |-> AmountAt(at, k)]
         /\ due = {c \in BetIds : bs[c].status = "pending" /\ InPass(bs[c], mode)}
         /\ pay = [b \in due |-> Settled(bs[b], pana, after).payout]
         /\ won = {b \in due : IsWinningBet(bs[b], pana, after)}
         /\ owner = [b \in won |-> HitOf(bs[b], pana)]
    OBVIOUS
<1>3. /\ open = NoPana \/ APana(open)
      /\ after[mode] = pana /\ (mode = "close" => after["open"] = open)
    <2>1. Session = [m \in BetModes |-> IF m \in declared THEN Results[m] ELSE NoPana]
        BY DEF Session
    <2>2. "open" \in BetModes /\ "open" # "close"
        BY DEF BetModes
    <2>3. open = IF "open" \in declared THEN Results["open"] ELSE NoPana
        BY <1>2, <2>1, <2>2
    <2>4. APana(Results["open"])
        BY <2>2, ValuesAssumption DEF IsPana, APana
    <2>5. after = [m \in BetModes |-> IF m = mode THEN pana ELSE Session[m]]
        BY <1>2, <2>1
    <2> QED BY <1>1, <1>2, <2>2, <2>3, <2>4, <2>5
<1>4. ASSUME NEW b \in due
      PROVE  /\ BetOK(b, bs[b]) /\ pay[b] \in Int
             /\ pay[b] = IF b \in won THEN CalculatePayout(bs[b], pana) ELSE 0
             /\ b \in won => HitOf(bs[b], pana) \in K
             /\ ExposureMode(bs[b]) = mode
             /\ \A k \in K : Adds(bs[b], mode, FALSE, k)
                               = IF b \in won /\ HitOf(bs[b], pana) = k THEN pay[b] ELSE 0
    <2>1. PICK bet : bet = bs[b]
        OBVIOUS
    <2>2. b \in BetIds /\ bet.status = "pending" /\ InPass(bet, mode)
        BY <1>2, <2>1
    <2>3. bet # NoBet
        BY <2>2 DEF NoBet
    <2>4. BetOK(b, bet) /\ Formed(bet)
        BY <1>1, <1>2, <2>1, <2>2, <2>3 DEF AllOK, Agrees
    <2>5. pay[b] = Settled(bet, pana, after).payout /\ (b \in won <=> IsWinningBet(bet, pana, after))
        BY <1>2, <2>1
    <2>6. Settled(bet, pana, after).payout
            = IF IsWinningBet(bet, pana, after) THEN CalculatePayout(bet, pana) ELSE 0
        BY <2>4 DEF Settled, BetOK, Fields
    <2>7. Settled(bet, pana, after).payout \in Nat
        BY <2>2, <2>4, SettledType DEF PendingOK
    <2>8. mode \in BetModes
        OBVIOUS
    <2>9. /\ ExposureMode(bet) = mode
          /\ IsWinningBet(bet, pana, after) => HitOf(bet, pana) \in OutcomeKeys(pana, mode, open)
          /\ \A k \in OutcomeKeys(pana, mode, open) :
               Adds(bet, mode, FALSE, k)
                 = IF IsWinningBet(bet, pana, after) /\ HitOf(bet, pana) = k
                   THEN CalculatePayout(bet, pana) ELSE 0
        BY <1>3, <2>2, <2>4, <2>8, BetPays
    <2>10. K = OutcomeKeys(pana, mode, open)
        BY <1>2
    <2>11. PICK wins, hit, cost : /\ wins = IsWinningBet(bet, pana, after)
                                  /\ hit = HitOf(bet, pana) /\ cost = CalculatePayout(bet, pana)
        OBVIOUS
    <2>12. ASSUME NEW k \in K
           PROVE  Adds(bet, mode, FALSE, k) = IF b \in won /\ hit = k THEN pay[b] ELSE 0
        <3>1. CASE b \in won
            BY <2>5, <2>6, <2>9, <2>10, <2>11, <3>1
        <3>2. CASE b \notin won
            BY <2>5, <2>9, <2>10, <3>2
        <3> QED BY <3>1, <3>2
    <2>13. /\ pay[b] \in Int /\ pay[b] = IF b \in won THEN CalculatePayout(bet, pana) ELSE 0
           /\ b \in won => HitOf(bet, pana) \in K
        BY <2>5, <2>6, <2>7, <2>9, <2>10
    <2> QED BY <2>1, <2>4, <2>9, <2>11, <2>12, <2>13
<1>5. ASSUME NEW b \in BetIds, b \notin due, Booked(bs[b]) PROVE ExposureMode(bs[b]) # mode
    <2>1. PICK bet : bet = bs[b]
        OBVIOUS
    <2>2. bet # NoBet
        BY <1>5, <2>1 DEF Booked, NoBet
    <2>3. BetOK(b, bet) /\ ResultStands(bet, declared)
        BY <1>1, <1>2, <2>1, <2>2 DEF AllOK
    <2>4. CASE bet.status = "pending"
        <3>1. ~InPass(bet, mode)
            BY <1>2, <1>5, <2>1, <2>4
        <3>2. bet.mode \in BetModes
            BY <2>3, DeskAssumption DEF BetOK
        <3> QED BY <1>1, <2>1, <3>1, <3>2 DEF InPass, ExposureMode, BetModes
    <2>5. CASE bet.status \in {"won", "lost"}
        <3>1. ExposureMode(bet) \in declared
            BY <2>3, <2>5 DEF ResultStands, ExposureMode
        <3> QED BY <2>1, <3>1
    <2> QED BY <1>5, <2>1, <2>3, <2>4, <2>5 DEF Booked, BetOK
<1>6. due \in SUBSET BetIds /\ won \in SUBSET due /\ Summable(pay, due) /\ Summable(pay, won)
    <2>1. due \in SUBSET BetIds /\ won \in SUBSET due
        BY <1>2
    <2>2. Summable(pay, due)
        BY <1>4, <2>1, FS_Subset, FiniteBets DEF Summable
    <2> QED BY <2>1, <2>2, SummablePart
<1>7. ASSUME NEW k \in K
      PROVE  fig[k] = SumFunctionOnSet(pay, {b \in won : owner[b] = k})
    <2>1. PICK T, h : T = {b \in won : owner[b] = k} /\ h = Counts(bs, mode, FALSE, k)
        OBVIOUS
    <2>2. T \in SUBSET BetIds /\ Summable(pay, T)
        BY <1>6, <2>1, SummablePart
    <2>3. \A b \in BetIds : h[b] = IF b \in T THEN pay[b] ELSE 0
        <3> TAKE b \in BetIds
        <3>1. h[b] = IF Booked(bs[b]) THEN Adds(bs[b], mode, FALSE, k) ELSE 0
            BY <2>1 DEF Counts
        <3>2. CASE b \in due
            <4>1. bs[b].status = "pending"
                BY <1>2, <3>2
            <4>2. b \in T <=> b \in won /\ HitOf(bs[b], pana) = k
                BY <1>2, <2>1
            <4>3. Adds(bs[b], mode, FALSE, k) = IF b \in T THEN pay[b] ELSE 0
                BY <1>4, <3>2, <4>2
            <4> QED BY <3>1, <4>1, <4>3 DEF Booked
        <3>3. CASE b \notin due
            <4>1. b \notin T
                BY <1>6, <2>1, <3>3
            <4>2. Booked(bs[b]) => Adds(bs[b], mode, FALSE, k) = 0
                BY <1>5, <3>3 DEF Adds
            <4> QED BY <3>1, <4>1, <4>2
        <3> QED BY <3>2, <3>3
    <2>4. SumFunctionOnSet(pay, T) = SumFunctionOnSet(h, BetIds)
        BY <2>2, <2>3, FiniteBets, SumOverAll
    <2>5. Figure(book, mode, FALSE, k) = SumFunctionOnSet(h, BetIds)
        BY <1>1, <1>2, <2>1 DEF BookAgrees
    <2>6. fig[k] = Figure(book, mode, FALSE, k)
        BY <1>2 DEF Figure
    <2> QED BY <2>1, <2>4, <2>5, <2>6
<1>8. SumFunctionOnSet(fig, K) = SumFunctionOnSet(pay, won)
    <2>1. IsFiniteSet(K)
        BY <1>2, FiniteKeys
    <2>2. \A b \in won : owner[b] \in K
        BY <1>2, <1>4
    <2>3. SumFunctionOnSet([k \in K |-> SumFunctionOnSet(pay, {b \in won : owner[b] = k})], K)
            = SumFunctionOnSet(pay, won)
        BY <1>6, <2>1, <2>2, SumByOwner
    <2>4. fig = [k \in K |-> fig[k]]
        BY <1>2
    <2>5. fig = [k \in K |-> SumFunctionOnSet(pay, {b \in won : owner[b] = k})]
        BY Zenon, <1>7, <2>4
    <2> QED BY Zenon, <2>3, <2>5
<1>9. SumFunctionOnSet(pay, won) = SumFunctionOnSet(pay, due)
    <2>1. \A b \in due : pay[b] = IF b \in won THEN pay[b] ELSE 0
        BY <1>4
    <2>2. IsFiniteSet(due)
        BY <1>6 DEF Summable
    <2> QED BY <1>6, <2>1, <2>2, SumOverAll
<1>10. OutcomePayout(at, pana, mode, open) = SumFunctionOnSet(fig, K)
    <2>1. CleanAt(at)
        BY <1>1, <1>2 DEF BookAgrees, CleanBook
    <2>2. \A k \in K : fig[k] = AmountAt(at, k)
        BY <1>2
    <2> QED BY <1>2, <2>1, <2>2, OutcomeIsSum
<1>11. PassPayout(mode, pana) = SumUp(pay)
    BY <1>2 DEF PassPayout
<1>12. SumUp(pay) = SumFunctionOnSet(pay, due)
    BY <1>2, SumUpIsSum
<1> QED BY <1>2, <1>8, <1>9, <1>10, <1>11, <1>12

\* As long as no request has been overtaken, every book is the one built from its
\* bets, every exposure is what the open bets of the user hold, the lines of a motor
\* bet sum to its stake, and a book prices every result as the pass would pay it:
\* what placing, editing, deleting and settling add and take away are the parts of
\* one sum, at the keys the settlement pays.
THEOREM AgreeUntilOvertaken == Spec => []AgreesUnlessOvertaken
<1>1. ReportInv => AgreesUnlessOvertaken
    <2> SUFFICES ASSUME ReportInv, ~overtaken PROVE BetsAgree
        BY DEF AgreesUnlessOvertaken
    <2>1. AllOK(bets) /\ BetsAgreed
        BY BetsAre DEF ReportInv, AgreeInv
    <2>2. \A u \in Users :
             wallet[u].exposure = SumUp([b \in {c \in BetIds : Owner[c] = u} |-> Held(bets[b])])
        BY <2>1, WalletIsRebuilt DEF BetsAgreed
    <2>3. book = AddedAll([m \in BetModes |-> NoBook],
                          Restrict(bets, {b \in Placed : bets[b].status # "cancelled"}))
        BY <2>1, BookIsRebuilt DEF BetsAgreed
    <2>4. \A b \in Placed : DOMAIN bets[b].stakes # {} => SumUp(bets[b].stakes) = bets[b].amount
        BY <2>1 DEF Placed, BetsAgreed, Agrees, LinesAgree
    <2>5. \A mode \in BetModes \ declared,
              pana \in {p \in Panas \union {Results[m] : m \in BetModes} : IsPana(p)} :
             OutcomePayout(book[mode].at, pana, mode, Session["open"]) = PassPayout(mode, pana)
        <3> TAKE mode \in BetModes \ declared,
                 pana \in {p \in Panas \union {Results[m] : m \in BetModes} : IsPana(p)}
        <3>1. APana(pana)
            BY DeskAssumption, ValuesAssumption DEF IsPana, APana
        <3> QED BY <3>1, BookForetells
    <2> QED BY <2>2, <2>3, <2>4, <2>5 DEF BetsAgree
<1> QED BY <1>1, AlwaysShown, PTL

-----------------------------------------------------------------------------
(* The history of a user *)

LEMMA AmountsAre ==
    ASSUME ledger \in Seq(Rows), NEW S \in SUBSET DOMAIN ledger
    PROVE  /\ AmountsOf(S) = SumFunctionOnSet(AmountIn(ledger), S)
           /\ Summable(AmountIn(ledger), S) /\ AmountsOf(S) \in Int
<1>1. Summable(AmountIn(ledger), S)
    <2>1. Summable(AmountIn(ledger), DOMAIN ledger)
        BY TotalType
    <2> QED BY <2>1, SummablePart
<1>2. PICK g : g = [i \in S |-> ledger[i].amount]
    OBVIOUS
<1>3. DOMAIN g = S /\ Agree(AmountIn(ledger), g, S)
    BY <1>2 DEF Agree, AmountIn
<1> QED BY <1>1, <1>2, <1>3, SumUpOf DEF AmountsOf

\* The wins that share a bet with a debit are those of its bets.
WinsOf(d) == {i \in WinsIn(ledger) : SharesBet(i, d)}

LEMMA WinsOfDebit ==
    ASSUME DeskInv, BetsAgreed, Shown, NEW d \in DebitsIn(ledger)
    PROVE  /\ SumUp([b \in ledger[d].bets |-> bets[b].payout])
                = SumFunctionOnSet(AmountIn(ledger), WinsOf(d))
           /\ Summable(AmountIn(ledger), WinsOf(d))
<1>1. PICK L, bs, B, W, pays : /\ L = ledger /\ bs = bets /\ B = L[d].bets /\ W = WinsOf(d)
                               /\ pays = [b \in B |-> bs[b].payout]
    OBVIOUS
<1>2. L \in Seq(Rows) /\ Orderly(L, bs) /\ WinsBooked(L, bs) /\ AllOK(bs)
    BY <1>1, BetsAre, TypedNow DEF Typed, Shown
<1>3. /\ B \in SUBSET BetIds /\ IsFiniteSet(B)
      /\ \A b \in B : BetOK(b, bs[b]) /\ (bs[b].status # "won" => bs[b].payout = 0)
    <2>1. B \in SUBSET BetIds /\ \A b \in B : bs[b] # NoBet
        BY <1>1, <1>2 DEF Orderly
    <2>2. \A b \in BetIds : bs[b] = NoBet \/ Agrees(bs[b])
        BY <1>1 DEF BetsAgreed
    <2>3. \A b \in B : BetOK(b, bs[b])
        BY <1>2, <2>1 DEF AllOK
    <2>4. \A b \in B : bs[b].status # "won" => bs[b].payout = 0
        BY <2>1, <2>2 DEF Agrees
    <2> QED BY <2>1, <2>3, <2>4, FS_Subset, FiniteBets
<1>4. \A i : i \in W <=> i \in WinsIn(L) /\ L[i].bets \intersect B # {}
    BY <1>1 DEF WinsOf, SharesBet
<1>5. W \in SUBSET DOMAIN L /\ Summable(AmountIn(L), W)
    <2>1. W \in SUBSET DOMAIN L
        BY <1>4 DEF WinsIn, RowsIn
    <2>2. Summable(AmountIn(L), DOMAIN L)
        BY <1>2, TotalType
    <2> QED BY <2>1, <2>2, SummablePart
<1>6. PICK won : won = {b \in B : bs[b].status = "won"}
    OBVIOUS
<1>7. PICK h : h = [i \in W |-> CHOOSE b : L[i].bets = {b}]
    OBVIOUS
<1>8. ASSUME NEW i \in W
      PROVE  /\ h[i] \in won /\ L[i].bets = {h[i]}
             /\ pays[h[i]] = AmountIn(L)[i]
    <2>1. PICK b \in BetIds : WinFor(L, bs, i, b)
        BY <1>2, <1>4 DEF WinsBooked
    <2>2. L[i].bets = {b} /\ bs[b].status = "won" /\ L[i].amount = bs[b].payout
        BY <2>1 DEF WinFor
    <2>3. h[i] = b
        <3>1. \A c : L[i].bets = {c} => c = b
            BY <2>2
        <3>2. (CHOOSE c : L[i].bets = {c}) = b
            BY <2>2, <3>1
        <3> QED BY <1>7, <3>2
    <2>4. b \in B
        BY <1>4, <2>2
    <2>5. AmountIn(L)[i] = L[i].amount
        BY <1>5 DEF AmountIn
    <2> QED BY <1>1, <1>6, <2>2, <2>3, <2>4, <2>5
<1>9. \A i, j \in W : h[i] = h[j] => i = j
    <2> TAKE i, j \in W
    <2> HAVE h[i] = h[j]
    <2>1. L[i].bets = L[j].bets
        BY <1>8
    <2> QED BY <1>2, <1>4, <2>1 DEF WinsBooked
<1>10. \A b \in won : \E i \in W : h[i] = b
    <2> TAKE b \in won
    <2>1. b \in BetIds /\ b \in B /\ bs[b].status = "won"
        BY <1>3, <1>6
    <2>2. PICK i \in WinsIn(L) : L[i].bets = {b}
        BY <1>2, <2>1 DEF WinsBooked
    <2>3. i \in W
        BY <1>4, <2>1, <2>2
    <2>4. {h[i]} = {b}
        BY <1>8, <2>2, <2>3
    <2> QED BY <2>3, <2>4
<1>11. Summable(pays, B)
    BY <1>1, <1>3 DEF Summable, BetOK
<1>12. Summable(pays, won)
    BY <1>6, <1>11, SummablePart
<1>13. SumFunctionOnSet(pays, won) = SumFunctionOnSet(AmountIn(L), W)
    <2>1. \A i \in W : h[i] \in won /\ pays[h[i]] = AmountIn(L)[i]
        BY <1>8
    <2>2. PICK f : f = AmountIn(L)
        OBVIOUS
    <2> QED BY <1>5, <1>9, <1>10, <1>12, <2>1, <2>2, SumRenamed
<1>14. SumFunctionOnSet(pays, B) = SumFunctionOnSet(pays, won)
    <2>1. \A b \in B \ won : pays[b] = 0
        BY <1>1, <1>3, <1>6
    <2>2. IsFiniteSet(B \ won)
        BY <1>3, FS_Subset
    <2>3. SumFunctionOnSet(pays, B \ won) = 0
        BY <2>1, <2>2, SumZero
    <2>4. SumFunctionOnSet(pays, B \ won) = SumFunctionOnSet(pays, B) - SumFunctionOnSet(pays, won)
        <3>1. won \in SUBSET B
            BY <1>6
        <3> QED BY <1>11, <3>1, SumMinus
    <2>5. SumFunctionOnSet(pays, B) \in Int /\ SumFunctionOnSet(pays, won) \in Int
        BY <1>11, <1>12, SumType
    <2> QED BY <2>3, <2>4, <2>5
<1>15. SumUp(pays) = SumFunctionOnSet(pays, B)
    BY <1>1, SumUpIsSum
<1> QED BY <1>1, <1>5, <1>13, <1>14, <1>15

\* A stored win that shares a bet with a stored debit names it, and is not found
\* among the credits of another.
LEMMA CreditsOfDebit ==
    ASSUME Shown, ledger \in Seq(Rows), NEW debits \in SUBSET Stored("debit"), NEW d \in debits
    PROVE  DebitSettlement(d, SettlementCredits(debits))
             = {i \in Stored("win") : SharesBet(i, d)}
<1>1. PICK L, bs : L = ledger /\ bs = bets
    OBVIOUS
<1>2. Orderly(L, bs) /\ WinsBooked(L, bs)
    BY <1>1 DEF Shown
<1>3. d \in DebitsIn(L) /\ ~L[d].deleted /\ d # 0
    BY <1>1 DEF Stored, DebitsIn, RowsIn
<1>4. ASSUME NEW i \in Stored("win")
      PROVE  /\ SharesBet(i, d) <=> L[i].related = d
             /\ ~(L[i].related = 0 /\ SharesBet(i, d))
    <2>1. i \in WinsIn(L)
        BY <1>1 DEF Stored, WinsIn, RowsIn
    <2>2. PICK b \in BetIds : WinFor(L, bs, i, b)
        BY <1>2, <2>1 DEF WinsBooked
    <2>3. L[i].bets = {b}
        BY <2>2 DEF WinFor
    <2>4. SharesBet(i, d) <=> b \in L[d].bets
        BY <1>1, <2>3 DEF SharesBet
    <2>5. b \in L[d].bets => L[i].related = d
        BY <1>3, <2>2 DEF WinFor
    <2>6. L[i].related = d => b \in L[d].bets
        BY <1>3, <2>2 DEF WinFor
    <2> QED BY <1>3, <2>4, <2>5, <2>6
<1>5. PICK credits : credits = SettlementCredits(debits)
    OBVIOUS
<1>6. \A i : i \in credits <=> /\ i \in Stored("win")
                               /\ ledger[i].related \in debits \/ \E e \in debits : SharesBet(i, e)
    BY <1>5 DEF SettlementCredits
<1>7. PICK named, shared : /\ named = {i \in credits : ledger[i].related = d}
                           /\ shared = {i \in credits : ledger[i].related = 0 /\ SharesBet(i, d)}
    OBVIOUS
<1>8. shared = {}
    BY <1>1, <1>4, <1>6, <1>7
<1>9. named = {i \in Stored("win") : SharesBet(i, d)}
    BY <1>1, <1>4, <1>6, <1>7
<1>10. DebitSettlement(d, credits) = IF named # {} THEN named ELSE shared
    BY <1>7 DEF DebitSettlement
<1> QED BY <1>5, <1>8, <1>9, <1>10

LEMMA CreditedOnce ==
    ASSUME DeskInv, BetsAgreed, Shown, NEW debits \in SUBSET Stored("debit"), NEW d \in debits
    PROVE  AmountsOf(DebitSettlement(d, SettlementCredits(debits)))
             = SumUp([b \in ledger[d].bets |-> bets[b].payout])
                 - AmountsOf({i \in DeletedWins : SharesBet(i, d)})
<1>1. ledger \in Seq(Rows)
    BY TypedNow DEF Typed
<1>2. PICK all, kept, gone : /\ all = WinsOf(d)
                             /\ kept = {i \in Stored("win") : SharesBet(i, d)}
                             /\ gone = {i \in DeletedWins : SharesBet(i, d)}
    OBVIOUS
<1>3. d \in DebitsIn(ledger)
    BY DEF Stored, DebitsIn, RowsIn
<1>4. kept = all \ gone /\ gone \in SUBSET all /\ all \in SUBSET DOMAIN ledger
    BY <1>2 DEF WinsOf, WinsIn, RowsIn, Stored, DeletedWins
<1>5. Summable(AmountIn(ledger), all)
    BY <1>2, <1>3, WinsOfDebit
<1>6. SumFunctionOnSet(AmountIn(ledger), kept)
        = SumFunctionOnSet(AmountIn(ledger), all) - SumFunctionOnSet(AmountIn(ledger), gone)
    BY <1>4, <1>5, SumMinus
<1>7. AmountsOf(kept) = SumFunctionOnSet(AmountIn(ledger), kept)
      /\ AmountsOf(gone) = SumFunctionOnSet(AmountIn(ledger), gone)
    <2>1. kept \in SUBSET DOMAIN ledger /\ gone \in SUBSET DOMAIN ledger
        BY <1>4
    <2> QED BY <1>1, <2>1, AmountsAre
<1>8. DebitSettlement(d, SettlementCredits(debits)) = kept
    BY <1>1, <1>2, CreditsOfDebit
<1>9. SumUp([b \in ledger[d].bets |-> bets[b].payout]) = SumFunctionOnSet(AmountIn(ledger), all)
    BY <1>2, <1>3, WinsOfDebit
<1> QED BY <1>2, <1>6, <1>7, <1>8, <1>9

LEMMA SettledHoldsNothing ==
    ASSUME DeskInv, Shown, NEW d \in Stored("debit"), SettlementStatus(d) = "settled"
    PROVE  SumUp([b \in ledger[d].bets |-> Held(bets[b])]) = 0
<1>1. PICK f : f = [b \in ledger[d].bets |-> Held(bets[b])]
    OBVIOUS
<1>2. \A b \in ledger[d].bets : bets[b].status # "pending"
    BY DEF SettlementStatus
<1>3. \A b \in ledger[d].bets : f[b] = 0
    BY <1>1, <1>2 DEF Held
<1>4. IsFiniteSet(ledger[d].bets)
    <2>1. d \in DebitsIn(ledger)
        BY DEF Stored, DebitsIn, RowsIn
    <2>2. ledger[d].bets \in SUBSET BetIds
        BY <2>1 DEF Shown, Orderly
    <2> QED BY <2>2, FS_Subset, FiniteBets
<1>5. SumFunctionOnSet(f, ledger[d].bets) = 0
    BY <1>3, <1>4, SumZero
<1> QED BY <1>1, <1>5, SumUpIsSum

LEMMA HistoryOfWins ==
    ASSUME Shown, NEW b \in Placed, bets[b].status \in {"won", "lost"},
           bets[b].template \notin Motors
    PROVE  b \in WinningHistory <=> bets[b].status = "won"
<1>1. b \in BetIds /\ ResultStands(bets[b], declared)
    BY DEF Shown, Placed
<1>2. Session = SessionOf(declared)
    BY DEF Session, SessionOf
<1>3. Candidate(b) = bets[b]
    BY DEF Candidate
<1>4. b \in WinningHistory <=> IsWinningBet(bets[b], Session[bets[b].mode], Session)
    BY <1>3 DEF WinningHistory
<1> QED BY <1>1, <1>2, <1>4 DEF ResultStands

\* The history credits every order with the payouts of its bets, once, less the
\* wins that were deleted, although it matches rows by the debit they name or the
\* bets they share; a settled order holds no stake; and the winning history finds
\* the single bets that won again, from the results that are declared by now.
THEOREM WinsAreShownOnce == Spec => []WinsShownOnce
<1>1. ReportInv => WinsShownOnce
    <2> SUFFICES ASSUME ReportInv, ~overtaken PROVE WinsShownOnce
        BY DEF WinsShownOnce
    <2>1. DeskInv /\ BetsAgreed /\ Shown
        BY DEF ReportInv, AgreeInv
    <2>2. ASSUME NEW u \in Users, NEW d \in DOMAIN TransactionHistory(u)
          PROVE  /\ TransactionHistory(u)[d].creditedWinAmount
                      = SumUp([b \in ledger[d].bets |-> bets[b].payout])
                          - AmountsOf({i \in DeletedWins : SharesBet(i, d)})
                 /\ TransactionHistory(u)[d].settlementStatus = "settled" =>
                      SumUp([b \in ledger[d].bets |-> Held(bets[b])]) = 0
        <3>1. PICK debits : debits = UserLedger(u) \intersect Stored("debit")
            OBVIOUS
        <3>2. TransactionHistory(u)
                = [e \in debits |->
                     [settlementStatus  |-> SettlementStatus(e),
                      creditedWinAmount |->
                        AmountsOf(DebitSettlement(e, SettlementCredits(debits)))]]
            BY <3>1 DEF TransactionHistory
        <3>3. /\ debits \in SUBSET Stored("debit") /\ d \in debits
              /\ TransactionHistory(u)[d].settlementStatus = SettlementStatus(d)
              /\ TransactionHistory(u)[d].creditedWinAmount
                   = AmountsOf(DebitSettlement(d, SettlementCredits(debits)))
            BY <3>1, <3>2
        <3>4. TransactionHistory(u)[d].creditedWinAmount
                = SumUp([b \in ledger[d].bets |-> bets[b].payout])
                    - AmountsOf({i \in DeletedWins : SharesBet(i, d)})
            BY <2>1, <3>3, CreditedOnce
        <3>5. TransactionHistory(u)[d].settlementStatus = "settled" =>
                SumUp([b \in ledger[d].bets |-> Held(bets[b])]) = 0
            BY <2>1, <3>3, SettledHoldsNothing
        <3> QED BY <3>4, <3>5
    <2>3. \A b \in Placed :
             bets[b].status \in {"won", "lost"} /\ bets[b].template \notin Motors =>
               (b \in WinningHistory <=> bets[b].status = "won")
        BY <2>1, HistoryOfWins
    <2> QED BY <2>2, <2>3 DEF WinsShownOnce
<1> QED BY <1>1, AlwaysShown, PTL

-----------------------------------------------------------------------------
(* Stakes and wins of all users *)

StakeIn(bs) == [b \in BetIds |-> bs[b].amount]
With(status) == {b \in Placed : bets[b].status = status}

LEMMA PlacedFacts ==
    ASSUME AllOK(bets)
    PROVE  /\ Placed \in SUBSET BetIds /\ Summable(StakeIn(bets), BetIds)
           /\ \A b \in Placed : BetOK(b, bets[b])
           /\ \A b \in BetIds : bets[b].status # "none" <=> b \in Placed
           /\ \A b \in BetIds \ Placed : bets[b] = NoBet
<1>1. \A b \in BetIds : bets[b].amount \in Int
    BY DEF AllOK, BetOK, NoBet
<1>2. \A b \in Placed : BetOK(b, bets[b])
    BY DEF AllOK, Placed
<1>3. \A b \in BetIds : bets[b].status # "none" <=> b \in Placed
    BY <1>2 DEF AllOK, Placed, BetOK, NoBet
<1> QED BY <1>1, <1>2, <1>3, FiniteBets DEF Placed, Summable, StakeIn

LEMMA StakesAre ==
    ASSUME AllOK(bets), NEW S \in SUBSET BetIds
    PROVE  /\ StakesOf(S) = SumFunctionOnSet(StakeIn(bets), S)
           /\ Summable(StakeIn(bets), S) /\ StakesOf(S) \in Int
<1>1. Summable(StakeIn(bets), S)
    BY PlacedFacts, SummablePart
<1>2. PICK g : g = [b \in S |-> bets[b].amount]
    OBVIOUS
<1>3. DOMAIN g = S /\ Agree(StakeIn(bets), g, S)
    BY <1>2 DEF Agree, StakeIn
<1> QED BY <1>1, <1>2, <1>3, SumUpOf DEF StakesOf

LEMMA StakesOfBoth ==
    ASSUME AllOK(bets), NEW S \in SUBSET BetIds, NEW T \in SUBSET BetIds, S \intersect T = {}
    PROVE  StakesOf(S \union T) = StakesOf(S) + StakesOf(T)
<1>1. S \union T \in SUBSET BetIds
    OBVIOUS
<1>2. Summable(StakeIn(bets), S \union T)
    BY <1>1, StakesAre
<1>3. SumFunctionOnSet(StakeIn(bets), S \union T)
        = SumFunctionOnSet(StakeIn(bets), S) + SumFunctionOnSet(StakeIn(bets), T)
    BY <1>2, SumUnion
<1> QED BY <1>1, <1>3, StakesAre

LEMMA StakesByStatus ==
    ASSUME AllOK(bets)
    PROVE  /\ \A s : With(s) \in SUBSET BetIds /\ StakesOf(With(s)) \in Int
           /\ StakesOf(Placed) \in Int
           /\ StakesOf(Placed) = StakesOf(With("pending")) + StakesOf(With("won"))
                                   + StakesOf(With("lost")) + StakesOf(With("cancelled"))
           /\ StakesOf(Placed \ With("cancelled")) = StakesOf(Placed) - StakesOf(With("cancelled"))
<1>1. PICK P, w, l, c : /\ P = With("pending") /\ w = With("won") /\ l = With("lost")
                        /\ c = With("cancelled")
    OBVIOUS
<1>2. /\ P \in SUBSET BetIds /\ w \in SUBSET BetIds /\ l \in SUBSET BetIds /\ c \in SUBSET BetIds
      /\ P \intersect w = {} /\ (P \union w) \intersect l = {} /\ ((P \union w) \union l) \intersect c = {}
      /\ (P \union w) \in SUBSET BetIds /\ (P \union w) \union l \in SUBSET BetIds
    BY <1>1 DEF With, Placed
<1>3. Placed = ((P \union w) \union l) \union c /\ Placed \ c = (P \union w) \union l
    <2>1. \A b \in Placed : bets[b].status \in {"pending", "won", "lost", "cancelled"}
        BY PlacedFacts DEF BetOK
    <2> QED BY <1>1, <2>1 DEF With
<1>4. StakesOf(P \union w) = StakesOf(P) + StakesOf(w)
    BY <1>2, StakesOfBoth
<1>5. StakesOf((P \union w) \union l) = StakesOf(P \union w) + StakesOf(l)
    BY <1>2, StakesOfBoth
<1>6. StakesOf(((P \union w) \union l) \union c) = StakesOf((P \union w) \union l) + StakesOf(c)
    BY <1>2, StakesOfBoth
<1>7. \A s : With(s) \in SUBSET BetIds /\ StakesOf(With(s)) \in Int
    <2> TAKE s
    <2>1. With(s) \in SUBSET BetIds
        BY DEF With, Placed
    <2> QED BY <2>1, StakesAre
<1>8. StakesOf(P) \in Int /\ StakesOf(w) \in Int /\ StakesOf(l) \in Int /\ StakesOf(c) \in Int
    BY <1>2, StakesAre
<1>9. StakesOf(Placed) = StakesOf(P) + StakesOf(w) + StakesOf(l) + StakesOf(c)
    BY <1>3, <1>4, <1>5, <1>6
<1>10. StakesOf(Placed \ c) = StakesOf(P) + StakesOf(w) + StakesOf(l)
    BY <1>3, <1>4, <1>5
<1> QED BY <1>1, <1>7, <1>8, <1>9, <1>10

\* The books have collected the stakes of the bets that are not cancelled.
LEMMA CollectedStakes ==
    ASSUME AllOK(bets), BookAgrees(book, bets)
    PROVE  BookTotal(book) = StakesOf(Placed \ With("cancelled"))
<1>1. PICK f, g, S, h :
         /\ f = Counts(bets, "open", TRUE, NoKey) /\ g = Counts(bets, "close", TRUE, NoKey)
         /\ S = Placed \ With("cancelled")
         /\ h = [b \in BetIds |-> IF b \in S THEN bets[b].amount ELSE 0]
    OBVIOUS
<1>2. Summable(f, BetIds) /\ Summable(g, BetIds)
    BY <1>1, CountsType
<1>3. \A b \in BetIds : b \in S <=> Booked(bets[b])
    BY <1>1, PlacedFacts DEF With, Booked
<1>4. ASSUME NEW b \in BetIds PROVE h[b] = f[b] + g[b]
    <2>1. CASE b \in S
        <3>1. BetOK(b, bets[b])
            BY <1>1, <2>1, PlacedFacts
        <3>2. bets[b].mode \in BetModes /\ bets[b].amount \in Int
            BY <3>1, DeskAssumption DEF BetOK
        <3>3. ExposureMode(bets[b]) \in {"open", "close"}
            BY <3>2, ExposureModeType DEF BetModes
        <3>4. /\ f[b] = IF ExposureMode(bets[b]) # "open" THEN 0 ELSE bets[b].amount
              /\ g[b] = IF ExposureMode(bets[b]) # "close" THEN 0 ELSE bets[b].amount
            BY <1>1, <1>3, <2>1 DEF Counts, Adds
        <3>5. h[b] = bets[b].amount
            BY <1>1, <2>1
        <3> QED BY <3>2, <3>3, <3>4, <3>5
    <2>2. CASE b \notin S
        <3>1. ~Booked(bets[b])
            BY <1>3, <2>2
        <3>2. f[b] = 0 /\ g[b] = 0
            BY <1>1, <3>1 DEF Counts
        <3>3. h[b] = 0
            BY <1>1, <2>2
        <3> QED BY <3>2, <3>3
    <2> QED BY <2>1, <2>2
<1>5. AddUp(f, g, h, BetIds)
    BY <1>4 DEF AddUp
<1>6. SumFunctionOnSet(h, BetIds) = SumFunctionOnSet(f, BetIds) + SumFunctionOnSet(g, BetIds)
    BY <1>2, <1>5, SumPlus
<1>7. BookTotal(book) = SumFunctionOnSet(f, BetIds) + SumFunctionOnSet(g, BetIds)
    <2>1. Figure(book, "open", TRUE, NoKey) = SumFunctionOnSet(f, BetIds)
          /\ Figure(book, "close", TRUE, NoKey) = SumFunctionOnSet(g, BetIds)
        BY <1>1 DEF BookAgrees, BetModes
    <2> QED BY <2>1 DEF Figure, BookTotal
<1>8. SumFunctionOnSet(h, BetIds) = StakesOf(S)
    <2>1. S \in SUBSET BetIds
        BY <1>1, PlacedFacts
    <2>2. \A b \in BetIds : h[b] = IF b \in S THEN StakeIn(bets)[b] ELSE 0
        BY <1>1 DEF StakeIn
    <2>3. Summable(StakeIn(bets), S) /\ StakesOf(S) = SumFunctionOnSet(StakeIn(bets), S)
        BY <2>1, StakesAre
    <2> QED BY <2>1, <2>2, <2>3, SumOverAll, FiniteBets
<1> QED BY <1>1, <1>6, <1>7, <1>8

\* The wallets hold the stakes of the pending bets.
LEMMA HeldStakes ==
    ASSUME AllOK(bets), WalletsAgree(wallet, bets)
    PROVE  Exposures(wallet) = StakesOf(With("pending"))
<1>1. PICK f, g, S, owner :
         /\ S = With("pending") /\ f = [b \in BetIds |-> Held(bets[b])]
         /\ g = [u \in Users |-> SumFunctionOnSet(f, {b \in BetIds : owner[b] = u})]
         /\ owner = Owner
    OBVIOUS
<1>2. S \in SUBSET BetIds
    BY <1>1, PlacedFacts DEF With
<1>3. \A b \in BetIds : f[b] = IF b \in S THEN StakeIn(bets)[b] ELSE 0
    BY <1>1, PlacedFacts DEF With, Held, StakeIn
<1>4. Summable(StakeIn(bets), S) /\ StakesOf(S) = SumFunctionOnSet(StakeIn(bets), S)
    BY <1>2, StakesAre
<1>5. SumFunctionOnSet(f, BetIds) = StakesOf(S) /\ Summable(f, BetIds)
    BY <1>2, <1>3, <1>4, SumOverAll, FiniteBets
<1>6. SumFunctionOnSet(g, Users) = SumFunctionOnSet(f, BetIds)
    <2>1. \A b \in BetIds : owner[b] \in Users
        BY <1>1, DeskAssumption
    <2>2. IsFiniteSet(Users)
        BY DeskAssumption
    <2> QED BY <1>1, <1>5, <2>1, <2>2, SumByOwner
<1>7. \A u \in Users : wallet[u].exposure = g[u]
    <2> TAKE u \in Users
    <2>1. PICK T, held : T = {b \in BetIds : Owner[b] = u} /\ held = [b \in T |-> Held(bets[b])]
        OBVIOUS
    <2>2. wallet[u].exposure = SumUp(held)
        BY <2>1, WalletIsRebuilt
    <2>3. T \in SUBSET BetIds /\ DOMAIN held = T /\ Agree(f, held, T)
        BY <1>1, <2>1 DEF Agree
    <2>4. Summable(f, T)
        BY <1>5, <2>3, SummablePart
    <2>5. SumUp(held) = SumFunctionOnSet(f, T)
        BY <2>3, <2>4, SumUpOf
    <2> QED BY <1>1, <2>1, <2>2, <2>5
<1>8. [u \in Users |-> wallet[u].exposure] = g
    BY <1>1, <1>7
<1>9. Exposures(wallet) = SumFunctionOnSet(g, Users)
    BY <1>1, <1>8, SumUpIsSum DEF Exposures
<1> QED BY <1>1, <1>5, <1>6, <1>9

\* The wins in the ledger, the deleted ones included, are the payouts of the bets
\* that have won.
LEMMA WinsAreThePayouts ==
    ASSUME AllOK(bets), ledger \in Seq(Rows), WinsBooked(ledger, bets), NEW pays,
           \A b \in With("won") : pays[b] = bets[b].payout
    PROVE  /\ Summable(pays, With("won"))
           /\ SumFunctionOnSet(pays, With("won")) = Total(ledger, {"win"})
<1>1. PICK L, bs, W, won : L = ledger /\ bs = bets /\ W = WinsIn(L) /\ won = With("won")
    OBVIOUS
<1>2. WinsBooked(L, bs) /\ W = RowsIn(L, {"win"}) /\ W \in SUBSET DOMAIN L
    BY <1>1 DEF WinsIn, RowsIn
<1>3. \A b \in BetIds : b \in won <=> bs[b].status = "won"
    BY <1>1, PlacedFacts DEF With
<1>4. won \in SUBSET BetIds /\ \A b \in won : BetOK(b, bs[b]) /\ pays[b] = bs[b].payout
    BY <1>1, PlacedFacts DEF With
<1>5. Summable(pays, won)
    <2>1. IsFiniteSet(won)
        BY <1>4, FS_Subset, FiniteBets
    <2> QED BY <1>4, <2>1 DEF Summable, BetOK
<1>6. PICK f : f = AmountIn(L) /\ Summable(f, W)
    BY <1>1, <1>2, TotalType
<1>7. PICK h : h = [i \in W |-> CHOOSE b : L[i].bets = {b}]
    OBVIOUS
<1>8. ASSUME NEW i \in W
      PROVE  h[i] \in won /\ L[i].bets = {h[i]} /\ pays[h[i]] = f[i]
    <2>1. PICK b \in BetIds : WinFor(L, bs, i, b)
        BY <1>1, <1>2 DEF WinsBooked
    <2>2. L[i].bets = {b} /\ bs[b].status = "won" /\ L[i].amount = bs[b].payout
        BY <2>1 DEF WinFor
    <2>3. h[i] = b
        <3>1. \A c : L[i].bets = {c} => c = b
            BY <2>2
        <3>2. (CHOOSE c : L[i].bets = {c}) = b
            BY <2>2, <3>1
        <3> QED BY <1>7, <3>2
    <2>4. b \in won
        BY <1>3, <2>2
    <2>5. f[i] = L[i].amount
        BY <1>2, <1>6 DEF AmountIn
    <2> QED BY <1>4, <2>2, <2>3, <2>4, <2>5
<1>9. \A i, j \in W : h[i] = h[j] => i = j
    <2> TAKE i, j \in W
    <2> HAVE h[i] = h[j]
    <2>1. L[i].bets = L[j].bets
        BY <1>8
    <2> QED BY <1>1, <1>2, <2>1 DEF WinsBooked
<1>10. \A b \in won : \E i \in W : h[i] = b
    <2> TAKE b \in won
    <2>1. b \in BetIds /\ bs[b].status = "won"
        BY <1>3, <1>4
    <2>2. PICK i \in W : L[i].bets = {b}
        BY <1>1, <1>2, <2>1 DEF WinsBooked
    <2>3. {h[i]} = {b}
        BY <1>8, <2>2
    <2> QED BY <2>3
<1>11. \A i \in W : h[i] \in won /\ pays[h[i]] = f[i]
    BY <1>8
<1>12. SumFunctionOnSet(pays, won) = SumFunctionOnSet(f, W)
    BY <1>5, <1>6, <1>9, <1>10, <1>11, SumRenamed
<1> QED BY <1>1, <1>2, <1>5, <1>6, <1>12 DEF Total

-----------------------------------------------------------------------------
(* The profit of the reports *)

Others == {"funds", "reversal"}

\* Every row is of one of three groups, and a win is stored or deleted.
LEMMA TotalsByKind ==
    ASSUME ledger \in Seq(Rows)
    PROVE  /\ Total(ledger, Stakes) \in Int /\ Total(ledger, {"win"}) \in Int
           /\ Total(ledger, Others) \in Int
           /\ SumFunctionOnSet(AmountIn(ledger), DOMAIN ledger)
                = Total(ledger, Stakes) + Total(ledger, {"win"}) + Total(ledger, Others)
           /\ AmountsOf({i \in DOMAIN ledger : ledger[i].kind \in {"funds", "reversal"}})
                = Total(ledger, Others)
           /\ TotalPayout \in Int /\ AmountsOf(DeletedWins) \in Int
           /\ TotalPayout = Total(ledger, {"win"}) - AmountsOf(DeletedWins)
<1>1. PICK L, f, A, B, C : /\ L = ledger /\ f = AmountIn(L) /\ A = RowsIn(L, Stakes)
                           /\ B = RowsIn(L, {"win"}) /\ C = RowsIn(L, Others)
    OBVIOUS
<1>2. A \in SUBSET DOMAIN L /\ B \in SUBSET DOMAIN L /\ C \in SUBSET DOMAIN L
    BY <1>1 DEF RowsIn
<1>3. DOMAIN L = (A \union B) \union C /\ A \intersect B = {} /\ (A \union B) \intersect C = {}
    <2>1. \A i \in DOMAIN L : L[i] \in Rows
        BY <1>1
    <2>2. \A i \in DOMAIN L : L[i].kind \in {"debit", "funds", "win", "change", "reversal"}
        BY <2>1 DEF Rows
    <2> QED BY <1>1, <2>2 DEF RowsIn, Stakes, Others
<1>4. Summable(f, DOMAIN L) /\ Summable(f, A \union B)
    <2>1. Summable(f, DOMAIN L)
        BY <1>1, TotalType
    <2> QED BY <1>3, <2>1, SummablePart
<1>5. SumFunctionOnSet(f, DOMAIN L) = SumFunctionOnSet(f, A \union B) + SumFunctionOnSet(f, C)
    BY <1>3, <1>4, SumUnion
<1>6. SumFunctionOnSet(f, A \union B) = SumFunctionOnSet(f, A) + SumFunctionOnSet(f, B)
    BY <1>3, <1>4, SumUnion
<1>7. /\ Total(L, Stakes) = SumFunctionOnSet(f, A) /\ Total(L, {"win"}) = SumFunctionOnSet(f, B)
      /\ Total(L, Others) = SumFunctionOnSet(f, C)
    BY <1>1 DEF Total
<1>8. Total(L, Stakes) \in Int /\ Total(L, {"win"}) \in Int /\ Total(L, Others) \in Int
    BY <1>1, TotalType
<1>9. AmountsOf(C) = SumFunctionOnSet(f, C)
    BY <1>1, <1>2, AmountsAre
<1>10. {i \in DOMAIN ledger : ledger[i].kind \in {"funds", "reversal"}} = C
    BY <1>1 DEF RowsIn, Others
<1>11. PICK kept, gone : kept = Stored("win") /\ gone = DeletedWins
    OBVIOUS
<1>12. kept = B \ gone /\ gone \in SUBSET B
    BY <1>1, <1>11 DEF Stored, DeletedWins, RowsIn
<1>13. /\ AmountsOf(kept) = SumFunctionOnSet(f, kept) /\ AmountsOf(kept) \in Int
       /\ AmountsOf(gone) = SumFunctionOnSet(f, gone) /\ AmountsOf(gone) \in Int
    <2>1. kept \in SUBSET DOMAIN ledger /\ gone \in SUBSET DOMAIN ledger
        BY <1>1, <1>2, <1>12
    <2> QED BY <1>1, <2>1, AmountsAre
<1>14. SumFunctionOnSet(f, kept) = SumFunctionOnSet(f, B) - SumFunctionOnSet(f, gone)
    <2>1. Summable(f, B)
        BY <1>2, <1>4, SummablePart
    <2> QED BY <1>12, <2>1, SumMinus
<1>15. TotalPayout = AmountsOf(kept)
    BY <1>11 DEF TotalPayout
<1> QED BY <1>1, <1>5, <1>6, <1>7, <1>8, <1>9, <1>10, <1>11, <1>13, <1>14, <1>15

\* What left the wallets is what the ledger says of them, and what they hold.
LEMMA TakenFromWallets ==
    ASSUME DeskInv
    PROVE  SumUp([u \in Users |-> Funds - wallet[u].balance - wallet[u].exposure])
             = -SumFunctionOnSet(AmountIn(ledger), DOMAIN ledger) - Exposures(wallet)
<1>1. PICK L, f, owner, taken, rows, exposed, both, none :
         /\ L = ledger /\ f = AmountIn(L)
         /\ owner = [i \in DOMAIN L |-> L[i].user]
         /\ taken = [u \in Users |-> Funds - wallet[u].balance - wallet[u].exposure]
         /\ rows = [u \in Users |-> SumFunctionOnSet(f, {i \in DOMAIN L : owner[i] = u})]
         /\ exposed = [u \in Users |-> wallet[u].exposure]
         /\ both = [u \in Users |-> rows[u] + exposed[u]]
         /\ none = [u \in Users |-> 0]
    OBVIOUS
<1>2. L \in Seq(Rows) /\ wallet \in Wallets /\ Explained(wallet, L)
    BY <1>1, TypedNow, InvariantNow DEF Typed
<1>3. IsFiniteSet(Users) /\ Funds \in Int
    BY DeskAssumption
<1>4. ASSUME NEW u \in Users
      PROVE  /\ rows[u] \in Int /\ exposed[u] \in Int /\ taken[u] \in Int
             /\ taken[u] + both[u] = none[u]
    <2>1. {i \in DOMAIN L : owner[i] = u} = RowsOf(L, u)
        BY <1>1 DEF RowsOf
    <2>2. f = [i \in DOMAIN L |-> L[i].amount]
        BY <1>1 DEF AmountIn
    <2>3. rows[u] = AmountOf(L, u) /\ AmountOf(L, u) \in Int
        <3>1. /\ AmountOf(L, u) \in Int
              /\ AmountOf(L, u)
                   = SumFunctionOnSet([i \in DOMAIN L |-> L[i].amount], RowsOf(L, u))
            BY <1>2, AmountIsSum
        <3>2. rows[u] = SumFunctionOnSet(f, {i \in DOMAIN L : owner[i] = u})
            BY <1>1
        <3> QED BY Zenon, <2>1, <2>2, <3>1, <3>2
    <2>4. wallet[u].balance = Funds + AmountOf(L, u)
        BY <1>2 DEF Explained
    <2>5. wallet[u].balance \in Int /\ wallet[u].exposure \in Int
        BY <1>2 DEF Wallets
    <2>6. /\ exposed[u] = wallet[u].exposure /\ both[u] = rows[u] + exposed[u] /\ none[u] = 0
          /\ taken[u] = Funds - wallet[u].balance - wallet[u].exposure
        BY <1>1
    <2> QED BY <1>3, <2>3, <2>4, <2>5, <2>6
<1>5. /\ Summable(rows, Users) /\ Summable(exposed, Users) /\ Summable(taken, Users)
      /\ AddUp(rows, exposed, both, Users)
    BY <1>1, <1>3, <1>4 DEF Summable, AddUp
<1>6. Summable(both, Users) /\ AddUp(taken, both, none, Users)
    <2>1. \A u \in Users : both[u] \in Int /\ none[u] = taken[u] + both[u]
        <3> TAKE u \in Users
        <3>1. both[u] = rows[u] + exposed[u]
            BY <1>1
        <3> QED BY <1>4, <3>1
    <2> QED BY <1>3, <2>1 DEF Summable, AddUp
<1>7. SumFunctionOnSet(both, Users) = SumFunctionOnSet(rows, Users) + SumFunctionOnSet(exposed, Users)
    BY <1>5, SumPlus
<1>8. SumFunctionOnSet(none, Users) = SumFunctionOnSet(taken, Users) + SumFunctionOnSet(both, Users)
    BY <1>5, <1>6, SumPlus
<1>9. SumFunctionOnSet(none, Users) = 0
    BY <1>1, <1>3, SumZero
<1>10. SumFunctionOnSet(rows, Users) = SumFunctionOnSet(f, DOMAIN L)
    <2>1. \A i \in DOMAIN L : owner[i] \in Users
        <3> TAKE i \in DOMAIN L
        <3>1. L[i] \in Rows
            BY <1>2
        <3> QED BY <1>1, <3>1 DEF Rows
    <2>2. Summable(f, DOMAIN L)
        BY <1>1, <1>2, TotalType
    <2>3. PICK D : D = DOMAIN L
        OBVIOUS
    <2>4. SumFunctionOnSet([u \in Users |-> SumFunctionOnSet(f, {i \in D : owner[i] = u})], Users)
            = SumFunctionOnSet(f, D)
        BY <1>3, <2>1, <2>2, <2>3, SumByOwner
    <2>5. rows = [u \in Users |-> SumFunctionOnSet(f, {i \in D : owner[i] = u})]
        BY Zenon, <1>1, <2>3
    <2> QED BY Zenon, <2>3, <2>4, <2>5
<1>11. Exposures(wallet) = SumFunctionOnSet(exposed, Users)
    BY <1>1, SumUpIsSum DEF Exposures
<1>12. SumUp(taken) = SumFunctionOnSet(taken, Users)
    BY <1>1, SumUpIsSum
<1>13. /\ SumFunctionOnSet(taken, Users) \in Int /\ SumFunctionOnSet(rows, Users) \in Int
       /\ SumFunctionOnSet(exposed, Users) \in Int
    BY <1>5, SumType
<1>14. SumUp(taken) = -SumFunctionOnSet(f, DOMAIN L) - Exposures(wallet)
    BY <1>7, <1>8, <1>9, <1>10, <1>11, <1>12, <1>13
<1> QED BY <1>1, <1>14

\* The figures of the users add up to those of the bets that are decided.
LEMMA NetOfUsers ==
    ASSUME AllOK(bets), ledger \in Seq(Rows), WinsBooked(ledger, bets)
    PROVE  SumUp([u \in Users |-> UserDetails(u).netProfitLoss])
             = Total(ledger, {"win"}) - StakesOf(With("lost"))
<1>1. PICK owner, pays, won, lost, stakes :
         /\ won = With("won") /\ lost = With("lost") /\ stakes = StakeIn(bets)
         /\ owner = Owner /\ pays = [b \in won |-> bets[b].payout]
    OBVIOUS
<1>2. PICK wins, losses, net :
         /\ wins = [u \in Users |-> SumFunctionOnSet(pays, {b \in won : owner[b] = u})]
         /\ losses = [u \in Users |-> SumFunctionOnSet(stakes, {b \in lost : owner[b] = u})]
         /\ net = [u \in Users |-> UserDetails(u).netProfitLoss]
    OBVIOUS
<1>3. won \in SUBSET BetIds /\ lost \in SUBSET BetIds
    BY <1>1, PlacedFacts DEF With
<1>4. Summable(pays, won) /\ SumFunctionOnSet(pays, won) = Total(ledger, {"win"})
    BY <1>1, WinsAreThePayouts
<1>5. Summable(stakes, lost) /\ SumFunctionOnSet(stakes, lost) = StakesOf(lost)
    BY <1>1, <1>3, StakesAre
<1>6. ASSUME NEW u \in Users
      PROVE  wins[u] \in Int /\ losses[u] \in Int /\ net[u] = wins[u] - losses[u]
    <2>1. PICK W, K, part : /\ W = {b \in won : owner[b] = u} /\ K = {b \in lost : owner[b] = u}
                            /\ part = [b \in W |-> bets[b].payout]
        OBVIOUS
    <2>2. /\ {b \in BidsOf(u) : bets[b].status = "won"} = W
          /\ {b \in BidsOf(u) : bets[b].status = "lost"} = K
        BY <1>1, <2>1 DEF BidsOf, BidHistory, With
    <2>3. UserStats(u).totalWinnings = SumUp(part) /\ UserStats(u).totalLosses = StakesOf(K)
        BY <2>1, <2>2 DEF UserStats
    <2>4. net[u] = SumUp(part) - StakesOf(K)
        BY <1>2, <2>3 DEF UserDetails
    <2>5. Summable(pays, W) /\ Summable(stakes, K)
        BY <1>4, <1>5, <2>1, SummablePart
    <2>6. DOMAIN part = W /\ Agree(pays, part, W)
        BY <1>1, <2>1 DEF Agree
    <2>7. SumUp(part) = SumFunctionOnSet(pays, W) /\ SumUp(part) \in Int
        BY <2>5, <2>6, SumUpOf
    <2>8. StakesOf(K) = SumFunctionOnSet(stakes, K) /\ StakesOf(K) \in Int
        <3>1. K \in SUBSET BetIds
            BY <1>3, <2>1
        <3> QED BY <1>1, <3>1, StakesAre
    <2> QED BY <1>2, <2>1, <2>4, <2>7, <2>8
<1>7. IsFiniteSet(Users) /\ \A b \in BetIds : owner[b] \in Users
    BY <1>1, DeskAssumption
<1>8. SumFunctionOnSet(wins, Users) = Total(ledger, {"win"})
    <2>1. \A b \in won : owner[b] \in Users
        BY <1>3, <1>7
    <2> QED BY <1>2, <1>4, <1>7, <2>1, SumByOwner
<1>9. SumFunctionOnSet(losses, Users) = StakesOf(lost)
    <2>1. \A b \in lost : owner[b] \in Users
        BY <1>3, <1>7
    <2> QED BY <1>2, <1>5, <1>7, <2>1, SumByOwner
<1>10. Summable(net, Users) /\ Summable(losses, Users) /\ AddUp(net, losses, wins, Users)
    BY <1>6, <1>7 DEF Summable, AddUp
<1>11. SumFunctionOnSet(wins, Users) = SumFunctionOnSet(net, Users) + SumFunctionOnSet(losses, Users)
    BY <1>10, SumPlus
<1>12. SumUp(net) = SumFunctionOnSet(net, Users)
    BY <1>2, SumUpIsSum
<1>13. SumFunctionOnSet(net, Users) \in Int /\ SumFunctionOnSet(losses, Users) \in Int
    BY <1>10, SumType
<1> QED BY <1>1, <1>2, <1>8, <1>9, <1>11, <1>12, <1>13

LEMMA CollectionByMode ==
    ASSUME AllOK(bets)
    PROVE  StakesOf(Placed) = BidSummary.open + BidSummary.close
<1>1. PICK S, T : /\ S = {b \in Placed : bets[b].mode = "open"}
                  /\ T = {b \in Placed : bets[b].mode = "close"}
    OBVIOUS
<1>2. Placed = S \union T /\ S \intersect T = {}
    <2>1. \A b \in Placed : bets[b].mode \in BetModes
        BY PlacedFacts, DeskAssumption DEF BetOK
    <2> QED BY <1>1, <2>1 DEF BetModes
<1>3. S \in SUBSET BetIds /\ T \in SUBSET BetIds
    BY <1>1, PlacedFacts
<1>4. BidSummary.open = StakesOf(S) /\ BidSummary.close = StakesOf(T)
    BY <1>1 DEF BidSummary
<1> QED BY <1>2, <1>3, <1>4, StakesOfBoth

Statuses == {"pending", "won", "lost", "cancelled"}

LEMMA SumOfStatuses ==
    ASSUME NEW of, DOMAIN of = Statuses, \A s \in Statuses : of[s] \in Int
    PROVE  SumUp(of) = of["pending"] + of["won"] + of["lost"] + of["cancelled"]
<1>1. PICK A, B, C : A = {"pending"} /\ B = {"won"} /\ C = {"lost"}
    OBVIOUS
<1>2. /\ "pending" \notin {} /\ {} \union {"pending"} = A
      /\ "won" \notin A /\ "lost" \notin A \union B /\ "cancelled" \notin (A \union B) \union C
      /\ Statuses = ((A \union B) \union C) \union {"cancelled"}
    BY <1>1 DEF Statuses
<1>3. IsFiniteSet(Statuses)
    <2>1. /\ IsFiniteSet({"pending"}) /\ IsFiniteSet({"won"})
          /\ IsFiniteSet({"lost"}) /\ IsFiniteSet({"cancelled"})
        BY FS_Singleton
    <2>2. PICK left, right : left = {"pending"} \union {"won"} /\ right = {"lost"} \union {"cancelled"}
        OBVIOUS
    <2>3. IsFiniteSet(left) /\ IsFiniteSet(right)
        BY <2>1, <2>2, FS_Union
    <2>4. Statuses = left \union right
        BY <2>2 DEF Statuses
    <2> QED BY <2>3, <2>4, FS_Union
<1>4. Summable(of, Statuses)
    BY <1>3 DEF Summable
<1>5. Summable(of, A) /\ Summable(of, A \union B) /\ Summable(of, (A \union B) \union C)
    <2>1. /\ A \in SUBSET Statuses /\ A \union B \in SUBSET Statuses
          /\ (A \union B) \union C \in SUBSET Statuses
        BY <1>2
    <2> QED BY <1>4, <2>1, SummablePart
<1>6. SumFunctionOnSet(of, Statuses)
        = SumFunctionOnSet(of, (A \union B) \union C) + of["cancelled"]
    BY <1>2, <1>4, SumAdd
<1>7. SumFunctionOnSet(of, (A \union B) \union C) = SumFunctionOnSet(of, A \union B) + of["lost"]
    BY <1>1, <1>2, <1>5, SumAdd
<1>8. SumFunctionOnSet(of, A \union B) = SumFunctionOnSet(of, A) + of["won"]
    BY <1>1, <1>2, <1>5, SumAdd
<1>9. SumFunctionOnSet(of, A) = of["pending"]
    <2>1. SumFunctionOnSet(of, {} \union {"pending"}) = SumFunctionOnSet(of, {}) + of["pending"]
        BY <1>2, <1>5, SumAdd
    <2>2. of["pending"] \in Int
        BY DEF Statuses
    <2>3. SumFunctionOnSet(of, {}) = 0
        BY SumEmpty
    <2>4. SumFunctionOnSet(of, A) = SumFunctionOnSet(of, {}) + of["pending"]
        BY Zenon, <1>2, <2>1
    <2> QED BY <2>2, <2>3, <2>4
<1> QED BY <1>6, <1>7, <1>8, <1>9, SumUpIsSum

LEMMA ReportOf == ASSUME NEW s, s # "all" PROVE BidReport(s).totalAmount = StakesOf(With(s))
<1>1. {b \in Placed : s = "all" \/ bets[b].status = s} = With(s)
    BY DEF With
<1> QED BY <1>1 DEF BidReport

\* The profit of the reports is what left the wallets, the stakes still held or
\* given back, and the wins deleted with their bets: summaries, dashboard and the
\* details of the users count the same stakes and payouts in four ways.
THEOREM ProfitIsExplained == Spec => []ProfitExplained
<1>1. ReportInv => ProfitExplained
    <2> SUFFICES ASSUME ReportInv, ~overtaken PROVE ProfitExplained
        BY DEF ProfitExplained
    <2>1. /\ DeskInv /\ AllOK(bets) /\ BookAgrees(book, bets) /\ WalletsAgree(wallet, bets)
          /\ ledger \in Seq(Rows) /\ WinsBooked(ledger, bets)
          /\ Total(ledger, Stakes) + BookTotal(book) = 0
        BY BetsAre, TypedNow DEF ReportInv, AgreeInv, BetsAgreed, Shown, Typed
    <2>2. PICK all, pending, won, lost, cancelled :
             /\ all = StakesOf(Placed) /\ pending = StakesOf(With("pending"))
             /\ won = StakesOf(With("won")) /\ lost = StakesOf(With("lost"))
             /\ cancelled = StakesOf(With("cancelled"))
        OBVIOUS
    <2>3. PICK payout, deleted, wins, taken, net :
             /\ payout = TotalPayout /\ deleted = AmountsOf(DeletedWins)
             /\ wins = Total(ledger, {"win"}) /\ taken = MoneyTaken
             /\ net = SumUp([u \in Users |-> UserDetails(u).netProfitLoss])
        OBVIOUS
    <2>4. /\ all \in Int /\ pending \in Int /\ won \in Int /\ lost \in Int /\ cancelled \in Int
          /\ all = pending + won + lost + cancelled
          /\ StakesOf(Placed \ With("cancelled")) = all - cancelled
        BY <2>1, <2>2, StakesByStatus
    <2>5. payout \in Int /\ deleted \in Int /\ wins \in Int /\ payout = wins - deleted
        BY <2>1, <2>3, TotalsByKind
    <2>6. taken = (all - cancelled) - pending - wins
        <3>1. BookTotal(book) = all - cancelled /\ Exposures(wallet) = pending
            BY <2>1, <2>2, <2>4, CollectedStakes, HeldStakes
        <3>2. PICK rows, stakes, others :
                 /\ rows = SumFunctionOnSet(AmountIn(ledger), DOMAIN ledger)
                 /\ stakes = Total(ledger, Stakes) /\ others = Total(ledger, Others)
            OBVIOUS
        <3>3. stakes \in Int /\ others \in Int /\ rows = stakes + wins + others
            BY <2>1, <2>3, <3>2, TotalsByKind
        <3>4. AmountsOf({i \in DOMAIN ledger : ledger[i].kind \in {"funds", "reversal"}}) = others
            BY <2>1, <3>2, TotalsByKind
        <3>5. SumUp([u \in Users |-> Funds - wallet[u].balance - wallet[u].exposure])
                = -rows - pending
            BY <2>1, <3>1, <3>2, TakenFromWallets
        <3>6. taken = (-rows - pending) + others
            BY <2>3, <3>4, <3>5 DEF MoneyTaken
        <3>7. stakes + (all - cancelled) = 0
            BY <2>1, <3>1, <3>2
        <3> QED BY <2>4, <2>5, <3>3, <3>6, <3>7
    <2>7. net = wins - lost
        BY <2>1, <2>2, <2>3, NetOfUsers
    <2>8. /\ ProfitLossReport.totalCollection = all
          /\ ProfitLossReport.netProfit = all - payout
          /\ Dashboard.netProfitToday = all - payout
        BY <2>2, <2>3 DEF ProfitLossReport, Dashboard
    <2>9. all = BidSummary.open + BidSummary.close
        BY <2>1, <2>2, CollectionByMode
    <2>10. all = StakesOf(BidHistory) + StakesOf(RevertedBids)
        <3>1. BidHistory = Placed \ With("cancelled") /\ RevertedBids = With("cancelled")
            BY DEF BidHistory, RevertedBids, With
        <3> QED BY <2>2, <2>4, <3>1
    <2>11. PICK of : of = [status \in {"pending", "won", "lost", "cancelled"} |->
                             BidReport(status).totalAmount]
        OBVIOUS
    <2>12. /\ of["pending"] = pending /\ of["won"] = won /\ of["lost"] = lost
           /\ of["cancelled"] = cancelled /\ DOMAIN of = Statuses
        <3>1. \A s \in Statuses : of[s] = StakesOf(With(s))
            BY <2>11, ReportOf DEF Statuses
        <3> QED BY <2>2, <2>11, <3>1 DEF Statuses
    <2>13. SumUp(of) = all
        <3>1. \A s \in Statuses : of[s] \in Int
            BY <2>4, <2>12 DEF Statuses
        <3> QED BY <2>4, <2>12, <3>1, SumOfStatuses
    <2>14. /\ ProfitLossReport.netProfit = taken + of["pending"] + of["cancelled"] + deleted
           /\ ProfitLossReport.netProfit
                = of["pending"] + of["won"] + of["cancelled"] + deleted - net
        BY <2>4, <2>5, <2>6, <2>7, <2>8, <2>12
    <2> QED BY <2>3, <2>8, <2>9, <2>10, <2>11, <2>13, <2>14 DEF ProfitExplained
<1> QED BY <1>1, AlwaysShown, PTL
=============================================================================

------------------------------ MODULE SumLemmas ------------------------------
(***************************************************************************)
(* Sums over finite sets, for the proofs about money: what adding, taking  *)
(* away or changing one element does to SumFunctionOnSet.  A fact about    *)
(* every finite set is proved by a smallest set it could fail for.         *)
(***************************************************************************)
EXTENDS Integers, FiniteSets, Functions, FiniteSetTheorems, WellFoundedInduction, TLAPS

\* The element a sum takes first, and the equation that defines sums over the
\* subsets of S.
First(s) == CHOOSE x \in s : TRUE
IsSum(g, f, S) ==
    g = [s \in SUBSET S |-> IF s = {} THEN 0 ELSE f[First(s)] + g[s \ {First(s)}]]

\* Among sets of subsets of a finite set, each has a smallest element.
LEMMA SmallestSet ==
    ASSUME NEW S, IsFiniteSet(S), NEW Bad \in SUBSET (SUBSET S), Bad # {}
    PROVE  \E T \in Bad : \A U \in SUBSET T : U # T => U \notin Bad
<1>1. FiniteSubsetsOf(S) = SUBSET S
    BY FS_FiniteSubsetsOfFinite
<1>2. IsWellFoundedOn(StrictSubsetOrdering(S), SUBSET S)
    BY <1>1, FS_StrictSubsetOrderingWellFounded
<1>3. PICK T \in Bad : \A U \in Bad : <<U, T>> \notin StrictSubsetOrdering(S)
    BY <1>2, WFMin
<1> QED BY <1>3 DEF StrictSubsetOrdering

LEMMA FirstIsElement == ASSUME NEW s, s # {} PROVE First(s) \in s
BY DEF First

LEMMA SumUnfolds ==
    ASSUME NEW f, NEW S
    PROVE  SumFunctionOnSet(f, S) = (CHOOSE g : IsSum(g, f, S))[S]
BY Zenon DEF SumFunctionOnSet, FoldFunctionOnSet, MapThenFoldSet, IsSum, First

\* Two functions that satisfy the equation agree where both are defined.
LEMMA SumIsUnique ==
    ASSUME NEW f, NEW S, NEW T, IsFiniteSet(S), NEW g, NEW h, IsSum(g, f, S), IsSum(h, f, T)
    PROVE  \A s \in SUBSET (S \intersect T) : g[s] = h[s]
<1> DEFINE Bad == {s \in SUBSET (S \intersect T) : g[s] # h[s]}
<1> SUFFICES ASSUME Bad # {} PROVE FALSE
    OBVIOUS
<1>1. PICK s \in Bad : \A u \in SUBSET s : u # s => u \notin Bad
    <2>1. Bad \in SUBSET (SUBSET S)
        OBVIOUS
    <2> HIDE DEF Bad
    <2> QED BY <2>1, SmallestSet
<1>2. s \in SUBSET S /\ s \in SUBSET T /\ s # {}
    BY DEF IsSum
<1> PICK x : x = First(s)
    OBVIOUS
<1>3. x \in s /\ g[s \ {x}] = h[s \ {x}]
    BY <1>1, <1>2, FirstIsElement
<1>4. g[s] = f[x] + g[s \ {x}]
    BY <1>2 DEF IsSum
<1>5. h[s] = f[x] + h[s \ {x}]
    BY <1>2 DEF IsSum
<1> QED BY <1>1, <1>3, <1>4, <1>5

LEMMA SumExists ==
    ASSUME NEW f, NEW S, IsFiniteSet(S)
    PROVE  \E g : IsSum(g, f, S)
<1> DEFINE Bad == {T \in SUBSET S : \A g : ~IsSum(g, f, T)}
<1> SUFFICES ASSUME Bad # {} PROVE FALSE
    BY DEF Bad
<1>1. PICK T \in Bad : \A U \in SUBSET T : U # T => U \notin Bad
    <2>1. Bad \in SUBSET (SUBSET S)
        OBVIOUS
    <2> HIDE DEF Bad
    <2> QED BY <2>1, SmallestSet
<1> PICK part : part = [U \in SUBSET T |-> CHOOSE h : IsSum(h, f, U)]
    OBVIOUS
<1>2. \A U \in SUBSET T : U # T => IsSum(part[U], f, U)
    <2> TAKE U \in SUBSET T
    <2>1. U # T => \E h : IsSum(h, f, U)
        BY <1>1
    <2> QED BY <2>1
<1> PICK g : g = [s \in SUBSET T |-> IF s = {} THEN 0
                    ELSE f[First(s)] + part[s \ {First(s)}][s \ {First(s)}]]
    OBVIOUS
<1>3. \A s \in SUBSET T : s # T => g[s] = part[s][s]
    <2> TAKE s \in SUBSET T
    <2> HAVE s # T
    <2>1. IsSum(part[s], f, s)
        BY <1>2
    <2>2. CASE s = {}
        <3>1. part[s][s] = 0
            BY <2>1, <2>2 DEF IsSum
        <3> QED BY <2>2, <3>1
    <2>3. CASE s # {}
        <3> PICK u : u = s \ {First(s)}
            OBVIOUS
        <3>1. u \in SUBSET s /\ u # s /\ u \in SUBSET T /\ u # T
            BY <2>3, FirstIsElement
        <3>2. IsSum(part[u], f, u) /\ IsFiniteSet(u)
            BY <1>2, <3>1, FS_Subset
        <3>3. part[s][u] = part[u][u]
            BY <2>1, <3>1, <3>2, SumIsUnique
        <3>4. part[s][s] = f[First(s)] + part[s][u]
            BY <2>1, <2>3 DEF IsSum
        <3>5. g[s] = f[First(s)] + part[u][u]
            BY <2>3
        <3> QED BY <3>3, <3>4, <3>5
    <2> QED BY <2>2, <2>3
<1>4. \A s \in SUBSET T : s # {} => /\ s \ {First(s)} \in SUBSET T
                                     /\ s \ {First(s)} # T
    BY FirstIsElement
<1>5. g = [s \in SUBSET T |-> IF s = {} THEN 0 ELSE f[First(s)] + g[s \ {First(s)}]]
    <2> PICK r : r = [s \in SUBSET T |-> IF s = {} THEN 0
                        ELSE f[First(s)] + g[s \ {First(s)}]]
        OBVIOUS
    <2>1. ASSUME NEW s \in SUBSET T PROVE g[s] = r[s]
        <3> PICK u : u = s \ {First(s)}
            OBVIOUS
        <3>1. s # {} => g[s] = f[First(s)] + part[u][u] /\ r[s] = f[First(s)] + g[u]
            OBVIOUS
        <3>2. s # {} => g[u] = part[u][u]
            BY <1>3, <1>4
        <3> QED BY <3>1, <3>2
    <2>2. g = [s \in SUBSET T |-> g[s]] /\ r = [s \in SUBSET T |-> r[s]]
        OBVIOUS
    <2>3. g = r
        BY <2>1, <2>2
    <2> QED BY <2>3
<1>6. IsSum(g, f, T)
    BY <1>5 DEF IsSum
<1> QED BY <1>6

\* The equation, as a fact about sums.
LEMMA SumEquation ==
    ASSUME NEW f, NEW S, IsFiniteSet(S)
    PROVE  SumFunctionOnSet(f, S)
             = IF S = {} THEN 0 ELSE f[First(S)] + SumFunctionOnSet(f, S \ {First(S)})
<1> PICK T : T = S \ {First(S)}
    OBVIOUS
<1> PICK g, h : g = (CHOOSE a : IsSum(a, f, S)) /\ h = (CHOOSE a : IsSum(a, f, T))
    OBVIOUS
<1>1. IsFiniteSet(T)
    BY FS_Subset
<1>2. IsSum(g, f, S) /\ IsSum(h, f, T)
    BY <1>1, SumExists
<1>3. SumFunctionOnSet(f, S) = g[S] /\ SumFunctionOnSet(f, T) = h[T]
    BY SumUnfolds
<1>4. g[T] = h[T]
    BY <1>2, SumIsUnique
<1>5. \A s \in SUBSET S : g[s] = IF s = {} THEN 0 ELSE f[First(s)] + g[s \ {First(s)}]
    BY <1>2 DEF IsSum
<1> QED BY <1>3, <1>4, <1>5

-----------------------------------------------------------------------------
(* Sums of integers *)

\* What the facts below ask of functions: integers over a finite set, equal on a
\* set, equal on it but for one element, each the sum of two others.
Summable(f, S) == IsFiniteSet(S) /\ \A x \in S : f[x] \in Int
Agree(f, g, S) == \A x \in S : f[x] = g[x]
AgreeBut(f, g, S, x) == \A y \in S : y # x => f[y] = g[y]
AddUp(f, g, h, S) == \A x \in S : h[x] = f[x] + g[x]

LEMMA SumEmpty == ASSUME NEW f PROVE SumFunctionOnSet(f, {}) = 0
BY SumEquation, FS_EmptySet

\* The order in which the elements are taken does not matter.
LEMMA SumAnyFirst ==
    ASSUME NEW f, NEW S, Summable(f, S)
    PROVE  /\ SumFunctionOnSet(f, S) \in Int
           /\ \A x \in S : SumFunctionOnSet(f, S) = f[x] + SumFunctionOnSet(f, S \ {x})
<1> USE DEF Summable
<1> DEFINE Good(T) == /\ SumFunctionOnSet(f, T) \in Int
                      /\ \A x \in T : SumFunctionOnSet(f, T)
                                        = f[x] + SumFunctionOnSet(f, T \ {x})
           Bad == {T \in SUBSET S : ~Good(T)}
<1> SUFFICES ASSUME Bad # {} PROVE FALSE
    OBVIOUS
<1>1. PICK T \in Bad : \A U \in SUBSET T : U # T => U \notin Bad
    <2>1. Bad \in SUBSET (SUBSET S)
        OBVIOUS
    <2> HIDE DEF Bad
    <2> QED BY <2>1, SmallestSet
<1>2. \A U \in SUBSET T : U # T => Good(U)
    BY <1>1
<1>3. IsFiniteSet(T) /\ \A x \in T : f[x] \in Int
    BY FS_Subset
<1>4. CASE T = {}
    BY <1>1, <1>4, SumEmpty
<1>5. CASE T # {}
    <2> PICK p : p = First(T)
        OBVIOUS
    <2>1. p \in T /\ T \ {p} \in SUBSET T /\ T \ {p} # T
        BY <1>5, FirstIsElement
    <2>2. SumFunctionOnSet(f, T) = f[p] + SumFunctionOnSet(f, T \ {p})
        BY <1>3, <1>5, SumEquation
    <2>3. Good(T \ {p})
        BY <1>2, <2>1
    <2>4. SumFunctionOnSet(f, T) \in Int
        BY <1>3, <2>1, <2>2, <2>3
    <2>5. ASSUME NEW x \in T
          PROVE  SumFunctionOnSet(f, T) = f[x] + SumFunctionOnSet(f, T \ {x})
        <3>1. CASE x = p
            BY <2>2, <3>1
        <3>2. CASE x # p
            <4> PICK rest : rest = T \ {p, x}
                OBVIOUS
            <4>1. (T \ {p}) \ {x} = rest /\ (T \ {x}) \ {p} = rest /\ rest # T /\ T \ {x} # T
                BY <2>1
            <4>2. Good(T \ {x}) /\ Good(rest)
                BY <1>2, <4>1
            <4>3. SumFunctionOnSet(f, T \ {p}) = f[x] + SumFunctionOnSet(f, rest)
                BY <2>3, <3>2, <4>1
            <4>4. SumFunctionOnSet(f, T \ {x}) = f[p] + SumFunctionOnSet(f, rest)
                BY <2>1, <3>2, <4>1, <4>2
            <4>5. f[x] \in Int /\ f[p] \in Int /\ SumFunctionOnSet(f, rest) \in Int
                BY <1>3, <2>1, <4>2
            <4> HIDE DEF Good, Bad
            <4> QED BY <2>2, <4>3, <4>4, <4>5
        <3> QED BY <3>1, <3>2
    <2> QED BY <1>1, <2>4, <2>5
<1> QED BY <1>4, <1>5

\* A part of what can be summed can be summed.
LEMMA SummablePart ==
    ASSUME NEW f, NEW S, Summable(f, S), NEW T \in SUBSET S PROVE Summable(f, T)
BY FS_Subset DEF Summable

LEMMA SumType ==
    ASSUME NEW f, NEW S, Summable(f, S)
    PROVE  SumFunctionOnSet(f, S) \in Int
BY SumAnyFirst

LEMMA SumRemove ==
    ASSUME NEW f, NEW S, Summable(f, S), NEW x \in S
    PROVE  SumFunctionOnSet(f, S \ {x}) = SumFunctionOnSet(f, S) - f[x]
<1>1. Summable(f, S \ {x})
    BY SummablePart
<1>2. SumFunctionOnSet(f, S) \in Int /\ SumFunctionOnSet(f, S \ {x}) \in Int
    BY <1>1, SumType
<1>3. SumFunctionOnSet(f, S) = f[x] + SumFunctionOnSet(f, S \ {x}) /\ f[x] \in Int
    BY SumAnyFirst DEF Summable
<1> QED BY <1>2, <1>3

LEMMA SumAdd ==
    ASSUME NEW f, NEW S, NEW x, x \notin S, Summable(f, S \union {x})
    PROVE  SumFunctionOnSet(f, S \union {x}) = SumFunctionOnSet(f, S) + f[x]
<1>1. Summable(f, S) /\ (S \union {x}) \ {x} = S /\ x \in S \union {x}
    BY SummablePart
<1>2. SumFunctionOnSet(f, S) = SumFunctionOnSet(f, S \union {x}) - f[x]
    BY <1>1, SumRemove
<1>3. SumFunctionOnSet(f, S) \in Int /\ SumFunctionOnSet(f, S \union {x}) \in Int
    BY <1>1, SumType
<1>4. f[x] \in Int
    BY DEF Summable
<1> QED BY <1>2, <1>3, <1>4

\* Counting two things of each element is counting the one and then the other.
LEMMA SumPlus ==
    ASSUME NEW S, NEW f, NEW g, NEW h, Summable(f, S), Summable(g, S), AddUp(f, g, h, S)
    PROVE  SumFunctionOnSet(h, S) = SumFunctionOnSet(f, S) + SumFunctionOnSet(g, S)
<1> USE DEF Summable, AddUp
<1> DEFINE Good(T) == SumFunctionOnSet(h, T) = SumFunctionOnSet(f, T) + SumFunctionOnSet(g, T)
           Bad == {T \in SUBSET S : ~Good(T)}
<1> SUFFICES ASSUME Bad # {} PROVE FALSE
    OBVIOUS
<1>1. PICK T \in Bad : \A U \in SUBSET T : U # T => U \notin Bad
    <2>1. Bad \in SUBSET (SUBSET S)
        OBVIOUS
    <2> HIDE DEF Bad
    <2> QED BY <2>1, SmallestSet
<1>2. IsFiniteSet(T) /\ \A x \in T : f[x] \in Int /\ g[x] \in Int /\ h[x] \in Int
    BY FS_Subset
<1>3. CASE T = {}
    BY <1>1, <1>3, SumEmpty
<1>4. CASE T # {}
    <2> PICK x \in T : TRUE
        BY <1>4
    <2>1. Good(T \ {x}) /\ IsFiniteSet(T \ {x})
        BY <1>1, <1>2, FS_Subset
    <2>2. /\ SumFunctionOnSet(h, T) = h[x] + SumFunctionOnSet(h, T \ {x})
          /\ SumFunctionOnSet(f, T) = f[x] + SumFunctionOnSet(f, T \ {x})
          /\ SumFunctionOnSet(g, T) = g[x] + SumFunctionOnSet(g, T \ {x})
        BY <1>2, SumAnyFirst
    <2>3. SumFunctionOnSet(f, T \ {x}) \in Int /\ SumFunctionOnSet(g, T \ {x}) \in Int
        BY <1>2, <2>1, SumType
    <2>4. Good(T)
        BY <1>2, <2>1, <2>2, <2>3
    <2> QED BY <1>1, <2>4
<1> QED BY <1>3, <1>4

\* Nothing of each is nothing of all.
LEMMA SumZero ==
    ASSUME NEW S, IsFiniteSet(S), NEW f, \A x \in S : f[x] = 0
    PROVE  SumFunctionOnSet(f, S) = 0
<1> USE DEF Summable, AddUp
<1>1. SumFunctionOnSet(f, S) = SumFunctionOnSet(f, S) + SumFunctionOnSet(f, S)
    BY SumPlus
<1>2. SumFunctionOnSet(f, S) \in Int
    BY SumType
<1> QED BY <1>1, <1>2

\* Only what a function is on the set matters.
LEMMA SumSame ==
    ASSUME NEW S, NEW f, NEW g, Summable(f, S), Agree(f, g, S)
    PROVE  SumFunctionOnSet(f, S) = SumFunctionOnSet(g, S)
<1> USE DEF Summable, Agree, AddUp
<1> PICK zero : zero = [x \in S |-> 0]
    OBVIOUS
<1>1. SumFunctionOnSet(g, S) = SumFunctionOnSet(f, S) + SumFunctionOnSet(zero, S)
    BY SumPlus
<1>2. SumFunctionOnSet(zero, S) = 0 /\ SumFunctionOnSet(f, S) \in Int
    BY SumZero, SumType
<1> QED BY <1>1, <1>2

\* One element is counted differently.
LEMMA SumChange ==
    ASSUME NEW S, NEW f, NEW g, NEW x \in S, Summable(f, S), Summable(g, S),
           AgreeBut(f, g, S, x)
    PROVE  SumFunctionOnSet(g, S) = SumFunctionOnSet(f, S) - f[x] + g[x]
<1> USE DEF Summable, AgreeBut, Agree
<1>1. /\ SumFunctionOnSet(f, S \ {x}) = SumFunctionOnSet(f, S) - f[x]
      /\ SumFunctionOnSet(g, S \ {x}) = SumFunctionOnSet(g, S) - g[x]
    BY SumRemove
<1>2. IsFiniteSet(S \ {x})
    BY FS_Subset
<1>3. SumFunctionOnSet(f, S \ {x}) = SumFunctionOnSet(g, S \ {x})
    BY <1>2, SumSame
<1>4. SumFunctionOnSet(f, S) \in Int /\ SumFunctionOnSet(g, S) \in Int
    BY SumType
<1> QED BY <1>1, <1>3, <1>4

\* A part of the set counts for zero elsewhere: a sum over a subset is a sum over
\* the set.
LEMMA SumOfPart ==
    ASSUME NEW S, IsFiniteSet(S), NEW T \in SUBSET S, NEW f, Summable(f, T)
    PROVE  SumFunctionOnSet(f, T)
             = SumFunctionOnSet([x \in S |-> IF x \in T THEN f[x] ELSE 0], S)
<1> USE DEF Summable
<1> DEFINE part == [x \in S |-> IF x \in T THEN f[x] ELSE 0]
           Good(U) == SumFunctionOnSet(f, U \intersect T) = SumFunctionOnSet(part, U)
           Bad == {U \in SUBSET S : ~Good(U)}
<1>0. \A x \in S : part[x] = IF x \in T THEN f[x] ELSE 0
    OBVIOUS
<1> HIDE DEF part
<1>1. ASSUME Bad # {} PROVE FALSE
    <2>1. PICK U \in Bad : \A V \in SUBSET U : V # U => V \notin Bad
        <3>1. Bad \in SUBSET (SUBSET S)
            OBVIOUS
        <3> HIDE DEF Bad
        <3> QED BY <1>1, <3>1, SmallestSet
    <2>2. /\ IsFiniteSet(U) /\ IsFiniteSet(U \intersect T)
          /\ (\A x \in U : part[x] \in Int) /\ (\A x \in U \intersect T : f[x] \in Int)
        BY <1>0, FS_Subset
    <2>3. CASE U = {}
        <3>1. U \intersect T = {}
            BY <2>3
        <3> QED BY <2>1, <2>3, <3>1, SumEmpty
    <2>4. CASE U # {}
        <3> PICK x \in U : TRUE
            BY <2>4
        <3>1. Good(U \ {x})
            BY <2>1
        <3>2. SumFunctionOnSet(part, U) = part[x] + SumFunctionOnSet(part, U \ {x})
            BY <2>2, SumAnyFirst
        <3>3. IsFiniteSet(U \ {x}) /\ SumFunctionOnSet(part, U \ {x}) \in Int
            BY <2>2, FS_Subset, SumType
        <3>4. CASE x \in T
            <4>1. (U \intersect T) \ {x} = (U \ {x}) \intersect T
                OBVIOUS
            <4>2. SumFunctionOnSet(f, U \intersect T)
                    = f[x] + SumFunctionOnSet(f, (U \ {x}) \intersect T)
                BY <2>2, <3>4, <4>1, SumAnyFirst
            <4> QED BY <1>0, <2>1, <3>1, <3>2, <3>4, <4>2
        <3>5. CASE x \notin T
            <4>1. U \intersect T = (U \ {x}) \intersect T
                BY <3>5
            <4> QED BY <1>0, <2>1, <3>1, <3>2, <3>3, <3>5, <4>1
        <3> QED BY <3>4, <3>5
    <2> QED BY <2>3, <2>4
<1>2. Good(S) /\ S \intersect T = T
    BY <1>1
<1> QED BY <1>2 DEF part

\* What two sets without a common element add up to.
LEMMA SumUnion ==
    ASSUME NEW S, NEW T, NEW f, S \intersect T = {}, Summable(f, S \union T)
    PROVE  SumFunctionOnSet(f, S \union T) = SumFunctionOnSet(f, S) + SumFunctionOnSet(f, T)
<1> USE DEF Summable, AddUp
<1> PICK inS : inS = [x \in S \union T |-> IF x \in S THEN f[x] ELSE 0]
    OBVIOUS
<1> PICK inT : inT = [x \in S \union T |-> IF x \in T THEN f[x] ELSE 0]
    OBVIOUS
<1>1. IsFiniteSet(S \union T) /\ S \in SUBSET (S \union T) /\ T \in SUBSET (S \union T)
    OBVIOUS
<1>2. /\ SumFunctionOnSet(f, S) = SumFunctionOnSet(inS, S \union T)
      /\ SumFunctionOnSet(f, T) = SumFunctionOnSet(inT, S \union T)
    <2>1. Summable(f, S) /\ Summable(f, T)
        BY SummablePart
    <2> HIDE DEF Summable
    <2> QED BY <1>1, <2>1, SumOfPart
<1>3. \A x \in S \union T : inS[x] \in Int /\ inT[x] \in Int /\ f[x] = inS[x] + inT[x]
    OBVIOUS
<1>4. SumFunctionOnSet(f, S \union T)
        = SumFunctionOnSet(inS, S \union T) + SumFunctionOnSet(inT, S \union T)
    BY <1>1, <1>3, SumPlus
<1> QED BY <1>2, <1>4

\* What is left when a part is taken away.
LEMMA SumMinus ==
    ASSUME NEW S, NEW T \in SUBSET S, NEW f, Summable(f, S)
    PROVE  SumFunctionOnSet(f, S \ T) = SumFunctionOnSet(f, S) - SumFunctionOnSet(f, T)
<1> USE DEF Summable
<1>1. IsFiniteSet(T) /\ IsFiniteSet(S \ T) /\ (S \ T) \union T = S /\ (S \ T) \intersect T = {}
    BY FS_Subset
<1>2. SumFunctionOnSet(f, S) = SumFunctionOnSet(f, S \ T) + SumFunctionOnSet(f, T)
    <2>1. SumFunctionOnSet(f, (S \ T) \union T)
            = SumFunctionOnSet(f, S \ T) + SumFunctionOnSet(f, T)
        BY <1>1, SumUnion
    <2> QED BY <1>1, <2>1
<1>3. SumFunctionOnSet(f, T) \in Int /\ SumFunctionOnSet(f, S \ T) \in Int
    BY <1>1, SumType
<1> QED BY <1>2, <1>3

\* A sum of what is not negative is not.
LEMMA SumNatural ==
    ASSUME NEW S, IsFiniteSet(S), NEW f, \A x \in S : f[x] \in Nat
    PROVE  SumFunctionOnSet(f, S) \in Nat
<1> DEFINE Bad == {T \in SUBSET S : SumFunctionOnSet(f, T) \notin Nat}
<1> SUFFICES ASSUME Bad # {} PROVE FALSE
    OBVIOUS
<1>1. PICK T \in Bad : \A U \in SUBSET T : U # T => U \notin Bad
    <2>1. Bad \in SUBSET (SUBSET S)
        OBVIOUS
    <2> HIDE DEF Bad
    <2> QED BY <2>1, SmallestSet
<1>2. IsFiniteSet(T) /\ \A x \in T : f[x] \in Nat
    BY FS_Subset
<1>3. T # {}
    <2>1. SumFunctionOnSet(f, T) # 0
        BY <1>1
    <2> HIDE DEF Bad
    <2> QED BY <2>1, SumEmpty
<1> PICK x \in T : TRUE
    BY <1>3
<1>4. SumFunctionOnSet(f, T) = f[x] + SumFunctionOnSet(f, T \ {x})
    <2>1. Summable(f, T)
        BY <1>2 DEF Summable
    <2> QED BY <2>1, SumAnyFirst
<1>5. SumFunctionOnSet(f, T \ {x}) \in Nat
    BY <1>1
<1> QED BY <1>1, <1>2, <1>4, <1>5

\* Raising the elements of a part by g raises the sum by the sum of g over it.
LEMMA SumRaise ==
    ASSUME NEW S, NEW T \in SUBSET S, NEW f, NEW g, NEW h, Summable(f, S), Summable(g, T),
           \A x \in S : h[x] = IF x \in T THEN f[x] + g[x] ELSE f[x]
    PROVE  SumFunctionOnSet(h, S) = SumFunctionOnSet(f, S) + SumFunctionOnSet(g, T)
<1> PICK extra : extra = [x \in S |-> IF x \in T THEN g[x] ELSE 0]
    OBVIOUS
<1>1. IsFiniteSet(S)
    BY DEF Summable
<1>2. Summable(extra, S)
    BY DEF Summable
<1>3. AddUp(f, extra, h, S)
    <2> SUFFICES ASSUME NEW x \in S PROVE h[x] = f[x] + extra[x]
        BY DEF AddUp
    <2>1. f[x] \in Int
        BY DEF Summable
    <2> QED BY <2>1
<1>4. SumFunctionOnSet(h, S) = SumFunctionOnSet(f, S) + SumFunctionOnSet(extra, S)
    BY <1>2, <1>3, SumPlus
<1>5. SumFunctionOnSet(g, T) = SumFunctionOnSet(extra, S)
    BY <1>1, SumOfPart
<1> QED BY <1>4, <1>5

\* The sum does not depend on what the elements are called.
LEMMA SumRenamed ==
    ASSUME NEW S, NEW T, NEW f, NEW g, NEW h, Summable(f, S), Summable(g, T),
           \A x \in S : h[x] \in T /\ g[h[x]] = f[x],
           \A x, y \in S : h[x] = h[y] => x = y,
           \A z \in T : \E x \in S : h[x] = z
    PROVE  SumFunctionOnSet(g, T) = SumFunctionOnSet(f, S)
<1> DEFINE Image(U) == {z \in T : \E x \in U : h[x] = z}
           Bad == {U \in SUBSET S : SumFunctionOnSet(g, Image(U)) # SumFunctionOnSet(f, U)}
<1>1. ASSUME Bad # {} PROVE FALSE
    <2>1. PICK U \in Bad : \A V \in SUBSET U : V # U => V \notin Bad
        <3>1. Bad \in SUBSET (SUBSET S) /\ IsFiniteSet(S)
            BY DEF Summable
        <3> HIDE DEF Bad
        <3> QED BY <1>1, <3>1, SmallestSet
    <2>2. U \in SUBSET S /\ SumFunctionOnSet(g, Image(U)) # SumFunctionOnSet(f, U)
        BY <2>1
    <2>3. U # {}
        <3> SUFFICES ASSUME U = {} PROVE FALSE
            OBVIOUS
        <3>1. Image(U) = {}
            OBVIOUS
        <3> QED BY <2>2, <3>1, SumEmpty
    <2> PICK x : x \in U
        BY <2>3
    <2> PICK V : V = U \ {x}
        OBVIOUS
    <2>4. SumFunctionOnSet(g, Image(V)) = SumFunctionOnSet(f, V)
        <3>1. V \in SUBSET U /\ V # U /\ V \in SUBSET S
            BY <2>2
        <3> QED BY <2>1, <3>1
    <2>5. Image(V) = Image(U) \ {h[x]} /\ h[x] \in Image(U) /\ g[h[x]] = f[x]
        BY <2>2
    <2>6. Summable(f, U) /\ Summable(g, Image(U))
        BY <2>2, SummablePart
    <2> HIDE DEF Image
    <2>7. /\ SumFunctionOnSet(f, U) = f[x] + SumFunctionOnSet(f, V)
          /\ SumFunctionOnSet(g, Image(U)) = g[h[x]] + SumFunctionOnSet(g, Image(V))
        <3>1. SumFunctionOnSet(f, U) = f[x] + SumFunctionOnSet(f, V)
            BY <2>6, SumAnyFirst
        <3> PICK W, z : W = Image(U) /\ z = h[x]
            OBVIOUS
        <3>2. Summable(g, W) /\ z \in W /\ Image(V) = W \ {z}
            BY <2>5, <2>6
        <3>3. SumFunctionOnSet(g, W) = g[z] + SumFunctionOnSet(g, W \ {z})
            BY <3>2, SumAnyFirst
        <3> QED BY <3>1, <3>2, <3>3
    <2> QED BY <2>2, <2>4, <2>5, <2>7
<1>2. Image(S) = T
    OBVIOUS
<1> QED BY <1>1, <1>2

\* Counting for each owner what is his is counting everything.
LEMMA SumByOwner ==
    ASSUME NEW U, IsFiniteSet(U), NEW S, NEW f, Summable(f, S),
           NEW owner, \A x \in S : owner[x] \in U
    PROVE  SumFunctionOnSet([u \in U |-> SumFunctionOnSet(f, {x \in S : owner[x] = u})], U)
             = SumFunctionOnSet(f, S)
<1> DEFINE Of(u, T) == {x \in T : owner[x] = u}
           parts(T) == [u \in U |-> SumFunctionOnSet(f, Of(u, T))]
           Bad == {T \in SUBSET S : SumFunctionOnSet(parts(T), U) # SumFunctionOnSet(f, T)}
<1>1. ASSUME Bad # {} PROVE FALSE
    <2>1. PICK T \in Bad : \A V \in SUBSET T : V # T => V \notin Bad
        <3>1. Bad \in SUBSET (SUBSET S) /\ IsFiniteSet(S)
            BY DEF Summable
        <3> HIDE DEF Bad
        <3> QED BY <1>1, <3>1, SmallestSet
    <2>2. T \in SUBSET S /\ SumFunctionOnSet(parts(T), U) # SumFunctionOnSet(f, T)
        BY <2>1
    <2>3. T # {}
        <3> SUFFICES ASSUME T = {} PROVE FALSE
            OBVIOUS
        <3>1. \A u \in U : Of(u, T) = {} /\ parts(T)[u] = SumFunctionOnSet(f, Of(u, T))
            OBVIOUS
        <3> HIDE DEF parts, Of
        <3>2. \A u \in U : parts(T)[u] = 0
            BY <3>1, SumEmpty
        <3>3. SumFunctionOnSet(parts(T), U) = 0 /\ SumFunctionOnSet(f, T) = 0
            BY <3>2, SumZero, SumEmpty
        <3> QED BY <2>2, <3>3
    <2> PICK x : x \in T
        BY <2>3
    <2> PICK V : V = T \ {x}
        OBVIOUS
    <2>4. SumFunctionOnSet(parts(V), U) = SumFunctionOnSet(f, V)
        <3>1. V \in SUBSET T /\ V # T /\ V \in SUBSET S
            BY <2>2
        <3> QED BY <2>1, <3>1
    <2>5. \A W \in SUBSET S : \A u \in U : parts(W)[u] = SumFunctionOnSet(f, Of(u, W))
        OBVIOUS
    <2>6. \A W \in SUBSET S : \A u \in U : Of(u, W) \in SUBSET S
        OBVIOUS
    <2>7. /\ V \in SUBSET S /\ owner[x] \in U /\ x \in Of(owner[x], T)
          /\ Of(owner[x], V) = Of(owner[x], T) \ {x}
          /\ \A u \in U : u # owner[x] => Of(u, V) = Of(u, T)
        BY <2>2
    <2> HIDE DEF parts, Of
    <2>8. \A W \in SUBSET S : Summable(parts(W), U)
        <3> SUFFICES ASSUME NEW W \in SUBSET S, NEW u \in U PROVE parts(W)[u] \in Int
            BY DEF Summable
        <3>1. Summable(f, Of(u, W))
            BY <2>6, SummablePart
        <3> QED BY <2>5, <3>1, SumType
    <2>9. AgreeBut(parts(V), parts(T), U, owner[x])
        BY <2>2, <2>5, <2>7 DEF AgreeBut
    <2>10. SumFunctionOnSet(parts(T), U)
             = SumFunctionOnSet(parts(V), U) - parts(V)[owner[x]] + parts(T)[owner[x]]
        BY <2>2, <2>7, <2>8, <2>9, SumChange
    <2>11. parts(T)[owner[x]] = f[x] + parts(V)[owner[x]]
        <3>1. Summable(f, Of(owner[x], T))
            BY <2>2, <2>6, <2>7, SummablePart
        <3> PICK W : W = Of(owner[x], T)
            OBVIOUS
        <3>2. Summable(f, W) /\ x \in W /\ Of(owner[x], V) = W \ {x}
            BY <2>7, <3>1
        <3>3. SumFunctionOnSet(f, W) = f[x] + SumFunctionOnSet(f, W \ {x})
            BY <3>2, SumAnyFirst
        <3> QED BY <2>2, <2>5, <2>7, <3>3, <3>2
    <2>12. SumFunctionOnSet(f, T) = f[x] + SumFunctionOnSet(f, V)
        <3>1. Summable(f, T)
            BY <2>2, SummablePart
        <3> QED BY <3>1, SumAnyFirst
    <2>13. /\ f[x] \in Int /\ parts(V)[owner[x]] \in Int
           /\ SumFunctionOnSet(parts(V), U) \in Int
        BY <2>2, <2>7, <2>8, SumType DEF Summable
    <2> QED BY <2>2, <2>4, <2>10, <2>11, <2>12, <2>13
<1> QED BY <1>1
=============================================================================

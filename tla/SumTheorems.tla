----------------------------- MODULE SumTheorems -----------------------------
(***************************************************************************)
(* What the sums of amounts that the ledger and the settlement are made of *)
(* obey.  A sum is Functions!SumFunctionOnSet, which takes the elements of *)
(* a set one by one in an order of its own choice, so the first thing to   *)
(* show is that the recursion it is written as has a value.                *)
(***************************************************************************)
EXTENDS Integers, FiniteSetTheorems, TLAPS

(***************************************************************************)
(* Induction over a finite set, with a set of its subsets for the claim.   *)
(***************************************************************************)
LEMMA StrongInduction ==
  ASSUME NEW S, IsFiniteSet(S), NEW Good,
         \A T \in SUBSET S : (\A U \in SUBSET T : U # T => U \in Good) => T \in Good
  PROVE  SUBSET S \subseteq Good
<1>. DEFINE Bad == {T \in SUBSET S : T \notin Good}
<1>1. SUFFICES ASSUME Bad # {} PROVE FALSE
  OBVIOUS
<1>2. IsWellFoundedOn(StrictSubsetOrdering(S), SUBSET S)
  BY FS_StrictSubsetOrderingWellFounded, FS_FiniteSubsetsOfFinite
<1>3. PICK T \in Bad : \A U \in Bad : <<U, T>> \notin StrictSubsetOrdering(S)
  <2>. HIDE DEF Bad
  <2>1. Bad \subseteq SUBSET S
    BY DEF Bad
  <2>. QED BY <1>1, <1>2, <2>1, WFMin
<1>4. ASSUME NEW U \in SUBSET T, U # T PROVE U \in Good
  <2>1. <<U, T>> \in StrictSubsetOrdering(S)
    BY <1>3, <1>4 DEF StrictSubsetOrdering
  <2>. QED BY <1>3, <2>1
<1>. QED BY <1>3, <1>4

LEMMA Induction ==
  ASSUME NEW S, IsFiniteSet(S), NEW Good, {} \in Good,
         \A T \in SUBSET S : \A x \in S \ T : T \in Good => T \union {x} \in Good
  PROVE  S \in Good
<1>1. ASSUME NEW T \in SUBSET S, \A U \in SUBSET T : U # T => U \in Good
      PROVE  T \in Good
  <2>1. CASE T = {}
    BY <2>1
  <2>2. ASSUME NEW x \in T PROVE T \in Good
    <3>1. T \ {x} \in Good
      BY <1>1, <2>2
    <3>2. T = (T \ {x}) \union {x}
      BY <2>2
    <3>. QED BY <1>1, <2>2, <3>1, <3>2
  <2>. QED BY <2>1, <2>2
<1>. QED BY <1>1, StrongInduction

-----------------------------------------------------------------------------
(***************************************************************************)
(* The recursion.                                                          *)
(***************************************************************************)
Chosen(T) == CHOOSE x \in T : TRUE

\* A function of the subsets of S that obeys the equations of the sum of f.
Accumulates(f, S, acc) ==
  acc = [T \in SUBSET S |-> IF T = {} THEN 0 ELSE f[Chosen(T)] + acc[T \ {Chosen(T)}]]

LEMMA SumIs ==
  ASSUME NEW f, NEW S
  PROVE  SumFunctionOnSet(f, S) = (CHOOSE acc : Accumulates(f, S, acc))[S]
BY DEF SumFunctionOnSet, FoldFunctionOnSet, MapThenFoldSet, Accumulates, Chosen

LEMMA ChosenIn ==
  ASSUME NEW T, T # {}
  PROVE  Chosen(T) \in T
BY DEF Chosen

LEMMA AccumulatesStep ==
  ASSUME NEW f, NEW S, NEW acc, Accumulates(f, S, acc), NEW T \in SUBSET S
  PROVE  acc[T] = IF T = {} THEN 0 ELSE f[Chosen(T)] + acc[T \ {Chosen(T)}]
BY DEF Accumulates

\* The equations leave no choice, whatever set they are for.
LEMMA AccumulatesOnce ==
  ASSUME NEW f, NEW S, IsFiniteSet(S), NEW Q, NEW R, NEW a, NEW b,
         S \subseteq Q, S \subseteq R, Accumulates(f, Q, a), Accumulates(f, R, b)
  PROVE  a[S] = b[S]
<1>. DEFINE Good == {T \in SUBSET S : a[T] = b[T]}
<1>1. ASSUME NEW T \in SUBSET S, \A U \in SUBSET T : U # T => U \in Good
      PROVE  T \in Good
  <2>1. CASE T = {}
    BY <2>1, AccumulatesStep
  <2>2. CASE T # {}
    <3>1. Chosen(T) \in T
      BY <2>2, ChosenIn
    <3>2. a[T \ {Chosen(T)}] = b[T \ {Chosen(T)}]
      BY <1>1, <3>1
    <3>3. a[T] = f[Chosen(T)] + a[T \ {Chosen(T)}]
      BY <2>2, AccumulatesStep
    <3>4. b[T] = f[Chosen(T)] + b[T \ {Chosen(T)}]
      BY <2>2, AccumulatesStep
    <3>. QED BY <3>2, <3>3, <3>4
  <2>. QED BY <2>1, <2>2
<1>. HIDE DEF Good
<1>2. SUBSET S \subseteq Good
  BY <1>1, StrongInduction
<1>3. S \in SUBSET S
  OBVIOUS
<1>. QED BY <1>2, <1>3 DEF Good

\* They can be obeyed: with what obeys them for the smaller sets.
LEMMA AccumulatesSome ==
  ASSUME NEW f, NEW S, IsFiniteSet(S)
  PROVE  \E acc : Accumulates(f, S, acc)
<1>. DEFINE Good == {T \in SUBSET S : \E acc : Accumulates(f, T, acc)}
            Of(T) == CHOOSE acc : Accumulates(f, T, acc)
            Next(T) == IF T = {} THEN 0
                       ELSE f[Chosen(T)] + Of(T \ {Chosen(T)})[T \ {Chosen(T)}]
<1>1. ASSUME NEW T \in SUBSET S, \A U \in SUBSET T : U # T => U \in Good
      PROVE  T \in Good
  <2>. DEFINE acc == [U \in SUBSET T |-> Next(U)]
  <2>1. ASSUME NEW U \in SUBSET T, U # T PROVE acc[U] = Of(U)[U]
    <3>1. Accumulates(f, U, Of(U))
      BY <1>1, <2>1
    <3>2. CASE U = {}
      BY <3>1, <3>2, AccumulatesStep
    <3>3. CASE U # {}
      <4>. DEFINE V == U \ {Chosen(U)}
      <4>1. V \subseteq U /\ V # U
        BY <3>3, ChosenIn
      <4>2. Accumulates(f, V, Of(V))
        BY <1>1, <2>1, <4>1
      <4>3. IsFiniteSet(V)
        BY <2>1, <4>1, FS_Subset
      <4>4. Of(V)[V] = Of(U)[V]
        BY <3>1, <4>1, <4>2, <4>3, AccumulatesOnce
      <4>5. Of(U)[U] = f[Chosen(U)] + Of(U)[V]
        BY <3>1, <3>3, AccumulatesStep
      <4>. QED BY <3>3, <4>4, <4>5
    <3>. QED BY <3>2, <3>3
  <2>2. ASSUME NEW U \in SUBSET T
        PROVE  Next(U) = IF U = {} THEN 0 ELSE f[Chosen(U)] + acc[U \ {Chosen(U)}]
    <3>1. CASE U = {}
      BY <3>1
    <3>2. CASE U # {}
      <4>1. U \ {Chosen(U)} \in SUBSET T /\ U \ {Chosen(U)} # T
        BY <3>2, ChosenIn
      <4>2. acc[U \ {Chosen(U)}] = Of(U \ {Chosen(U)})[U \ {Chosen(U)}]
        BY <2>1, <4>1
      <4>. QED BY <3>2, <4>2
    <3>. QED BY <3>1, <3>2
  <2>3. acc = [U \in SUBSET T |-> Next(U)]
    OBVIOUS
  <2>. HIDE DEF acc, Next
  <2>4. acc = [U \in SUBSET T |-> IF U = {} THEN 0 ELSE f[Chosen(U)] + acc[U \ {Chosen(U)}]]
    BY <2>2, <2>3
  <2>5. Accumulates(f, T, acc)
    BY <2>4 DEF Accumulates
  <2>. QED BY <2>5
<1>. HIDE DEF Good
<1>2. SUBSET S \subseteq Good
  BY <1>1, StrongInduction
<1>3. S \in SUBSET S
  OBVIOUS
<1>. QED BY <1>2, <1>3 DEF Good

LEMMA SumNone ==
  ASSUME NEW f
  PROVE  SumFunctionOnSet(f, {}) = 0
<1>1. \E acc : Accumulates(f, {}, acc)
  BY AccumulatesSome, FS_EmptySet
<1>2. Accumulates(f, {}, CHOOSE acc : Accumulates(f, {}, acc))
  BY <1>1
<1>. QED BY <1>2, SumIs, AccumulatesStep

LEMMA SumChosen ==
  ASSUME NEW f, NEW S, IsFiniteSet(S), S # {}
  PROVE  SumFunctionOnSet(f, S) = f[Chosen(S)] + SumFunctionOnSet(f, S \ {Chosen(S)})
<1>. DEFINE T == S \ {Chosen(S)}
            Of(U) == CHOOSE acc : Accumulates(f, U, acc)
<1>1. T \subseteq S /\ IsFiniteSet(T)
  BY FS_Subset
<1>2. Accumulates(f, S, Of(S)) /\ Accumulates(f, T, Of(T))
  <2>1. (\E acc : Accumulates(f, S, acc)) /\ (\E acc : Accumulates(f, T, acc))
    BY <1>1, AccumulatesSome
  <2>. QED BY <2>1
<1>. HIDE DEF Of
<1>3. Of(S)[T] = Of(T)[T]
  BY <1>1, <1>2, AccumulatesOnce
<1>4. Of(S)[S] = f[Chosen(S)] + Of(S)[T]
  BY <1>2, AccumulatesStep
<1>5. SumFunctionOnSet(f, S) = Of(S)[S] /\ SumFunctionOnSet(f, T) = Of(T)[T]
  BY SumIs DEF Of
<1>. QED BY <1>3, <1>4, <1>5

-----------------------------------------------------------------------------
(***************************************************************************)
(* What sums of integers obey, in whatever order they are taken.           *)
(***************************************************************************)
LEMMA SumInt ==
  ASSUME NEW f, NEW S, IsFiniteSet(S), \A x \in S : f[x] \in Int
  PROVE  SumFunctionOnSet(f, S) \in Int
<1>. DEFINE Good == {T \in SUBSET S : SumFunctionOnSet(f, T) \in Int}
<1>1. ASSUME NEW T \in SUBSET S, \A U \in SUBSET T : U # T => U \in Good
      PROVE  T \in Good
  <2>1. CASE T = {}
    BY <2>1, SumNone
  <2>2. CASE T # {}
    <3>1. Chosen(T) \in T /\ IsFiniteSet(T)
      BY <2>2, ChosenIn, FS_Subset
    <3>2. T \ {Chosen(T)} \in Good
      BY <1>1, <3>1
    <3>. QED BY <2>2, <3>1, <3>2, SumChosen
  <2>. QED BY <2>1, <2>2
<1>. HIDE DEF Good
<1>2. SUBSET S \subseteq Good
  BY <1>1, StrongInduction
<1>3. S \in SUBSET S
  OBVIOUS
<1>. QED BY <1>2, <1>3 DEF Good

\* Any element may be taken first.
LEMMA SumTake ==
  ASSUME NEW f, NEW S, IsFiniteSet(S), \A x \in S : f[x] \in Int, NEW a \in S
  PROVE  SumFunctionOnSet(f, S) = f[a] + SumFunctionOnSet(f, S \ {a})
<1>. DEFINE Good == {T \in SUBSET S : \A x \in T :
                       SumFunctionOnSet(f, T) = f[x] + SumFunctionOnSet(f, T \ {x})}
<1>1. ASSUME NEW T \in SUBSET S, \A U \in SUBSET T : U # T => U \in Good, NEW x \in T
      PROVE  SumFunctionOnSet(f, T) = f[x] + SumFunctionOnSet(f, T \ {x})
  <2>. DEFINE y == Chosen(T)
              V == (T \ {x}) \ {y}
  <2>1. y \in T /\ IsFiniteSet(T)
    BY ChosenIn, FS_Subset
  <2>2. SumFunctionOnSet(f, T) = f[y] + SumFunctionOnSet(f, T \ {y})
    BY <2>1, SumChosen
  <2>3. CASE x # y
    <3>1. T \ {x} \in Good /\ T \ {y} \in Good
      BY <1>1, <2>1
    <3>2. SumFunctionOnSet(f, T \ {x}) = f[y] + SumFunctionOnSet(f, V)
      BY <2>1, <2>3, <3>1
    <3>3. V = (T \ {y}) \ {x}
      OBVIOUS
    <3>4. SumFunctionOnSet(f, T \ {y}) = f[x] + SumFunctionOnSet(f, V)
      BY <2>1, <2>3, <3>1, <3>3
    <3>5. IsFiniteSet(V) /\ \A z \in V : f[z] \in Int
      BY <2>1, FS_Subset
    <3>6. SumFunctionOnSet(f, V) \in Int /\ f[x] \in Int /\ f[y] \in Int
      BY <2>1, <3>5, SumInt
    <3>. QED BY <2>2, <3>2, <3>4, <3>6
  <2>. QED BY <2>2, <2>3
<1>2. SUBSET S \subseteq Good
  <2>. HIDE DEF Good
  <2>1. ASSUME NEW T \in SUBSET S, \A U \in SUBSET T : U # T => U \in Good
        PROVE  T \in Good
    BY <1>1, <2>1 DEF Good
  <2>. QED BY <2>1, StrongInduction
<1>3. S \in SUBSET S
  OBVIOUS
<1>. QED BY <1>2, <1>3

LEMMA SumAdd ==
  ASSUME NEW f, NEW S, IsFiniteSet(S), NEW a, a \notin S,
         \A x \in S \union {a} : f[x] \in Int
  PROVE  SumFunctionOnSet(f, S \union {a}) = f[a] + SumFunctionOnSet(f, S)
<1>1. IsFiniteSet(S \union {a}) /\ (S \union {a}) \ {a} = S
  BY FS_AddElement
<1>. QED BY <1>1, SumTake

LEMMA SumSame ==
  ASSUME NEW f, NEW g, NEW S, IsFiniteSet(S), \A x \in S : f[x] = g[x] /\ f[x] \in Int
  PROVE  SumFunctionOnSet(f, S) = SumFunctionOnSet(g, S)
<1>. DEFINE Good == {T \in SUBSET S : SumFunctionOnSet(f, T) = SumFunctionOnSet(g, T)}
<1>1. {} \in Good
  BY SumNone
<1>2. ASSUME NEW T \in SUBSET S, NEW x \in S \ T, T \in Good PROVE T \union {x} \in Good
  <2>1. IsFiniteSet(T)
    BY FS_Subset
  <2>. QED BY <1>2, <2>1, SumAdd
<1>. HIDE DEF Good
<1>3. S \in Good
  BY <1>1, <1>2, Induction
<1>. QED BY <1>3 DEF Good

LEMMA SumPlus ==
  ASSUME NEW f, NEW g, NEW h, NEW S, IsFiniteSet(S),
         \A x \in S : f[x] \in Int /\ g[x] \in Int /\ h[x] = f[x] + g[x]
  PROVE  SumFunctionOnSet(h, S) = SumFunctionOnSet(f, S) + SumFunctionOnSet(g, S)
<1>. DEFINE Good == {T \in SUBSET S :
                       SumFunctionOnSet(h, T) = SumFunctionOnSet(f, T) + SumFunctionOnSet(g, T)}
<1>1. {} \in Good
  BY SumNone
<1>2. ASSUME NEW T \in SUBSET S, NEW x \in S \ T, T \in Good PROVE T \union {x} \in Good
  <2>1. IsFiniteSet(T)
    BY FS_Subset
  <2>2. SumFunctionOnSet(f, T) \in Int /\ SumFunctionOnSet(g, T) \in Int
    BY <2>1, SumInt
  <2>3. /\ SumFunctionOnSet(f, T \union {x}) = f[x] + SumFunctionOnSet(f, T)
        /\ SumFunctionOnSet(g, T \union {x}) = g[x] + SumFunctionOnSet(g, T)
        /\ SumFunctionOnSet(h, T \union {x}) = h[x] + SumFunctionOnSet(h, T)
    BY <2>1, SumAdd
  <2>. QED BY <1>2, <2>2, <2>3
<1>. HIDE DEF Good
<1>3. S \in Good
  BY <1>1, <1>2, Induction
<1>. QED BY <1>3 DEF Good

LEMMA SumAtMost ==
  ASSUME NEW f, NEW g, NEW S, IsFiniteSet(S),
         \A x \in S : f[x] \in Int /\ g[x] \in Int /\ f[x] <= g[x]
  PROVE  SumFunctionOnSet(f, S) <= SumFunctionOnSet(g, S)
<1>. DEFINE Good == {T \in SUBSET S : SumFunctionOnSet(f, T) <= SumFunctionOnSet(g, T)}
<1>1. {} \in Good
  BY SumNone
<1>2. ASSUME NEW T \in SUBSET S, NEW x \in S \ T, T \in Good PROVE T \union {x} \in Good
  <2>1. IsFiniteSet(T)
    BY FS_Subset
  <2>2. SumFunctionOnSet(f, T) \in Int /\ SumFunctionOnSet(g, T) \in Int
    BY <2>1, SumInt
  <2>3. /\ SumFunctionOnSet(f, T \union {x}) = f[x] + SumFunctionOnSet(f, T)
        /\ SumFunctionOnSet(g, T \union {x}) = g[x] + SumFunctionOnSet(g, T)
    BY <2>1, SumAdd
  <2>. QED BY <1>2, <2>2, <2>3
<1>. HIDE DEF Good
<1>3. S \in Good
  BY <1>1, <1>2, Induction
<1>. QED BY <1>3 DEF Good

LEMMA SumZero ==
  ASSUME NEW f, NEW S, IsFiniteSet(S), \A x \in S : f[x] = 0
  PROVE  SumFunctionOnSet(f, S) = 0
<1>. DEFINE Good == {T \in SUBSET S : SumFunctionOnSet(f, T) = 0}
<1>1. {} \in Good
  BY SumNone
<1>2. ASSUME NEW T \in SUBSET S, NEW x \in S \ T, T \in Good PROVE T \union {x} \in Good
  <2>1. IsFiniteSet(T)
    BY FS_Subset
  <2>. QED BY <1>2, <2>1, SumAdd
<1>. HIDE DEF Good
<1>3. S \in Good
  BY <1>1, <1>2, Induction
<1>. QED BY <1>3 DEF Good

LEMMA SumMinus ==
  ASSUME NEW f, NEW g, NEW h, NEW S, IsFiniteSet(S),
         \A x \in S : f[x] \in Int /\ g[x] \in Int /\ h[x] = f[x] - g[x]
  PROVE  SumFunctionOnSet(h, S) = SumFunctionOnSet(f, S) - SumFunctionOnSet(g, S)
<1>1. SumFunctionOnSet(f, S) = SumFunctionOnSet(g, S) + SumFunctionOnSet(h, S)
  <2>1. \A x \in S : g[x] \in Int /\ h[x] \in Int /\ f[x] = g[x] + h[x]
    OBVIOUS
  <2>. QED BY <2>1, SumPlus
<1>2. SumFunctionOnSet(g, S) \in Int /\ SumFunctionOnSet(h, S) \in Int
  BY SumInt
<1>. QED BY <1>1, <1>2

LEMMA SumNat ==
  ASSUME NEW f, NEW S, IsFiniteSet(S), \A x \in S : f[x] \in Nat
  PROVE  SumFunctionOnSet(f, S) \in Nat
<1>. DEFINE Good == {T \in SUBSET S : SumFunctionOnSet(f, T) \in Nat}
<1>1. {} \in Good
  BY SumNone
<1>2. ASSUME NEW T \in SUBSET S, NEW x \in S \ T, T \in Good PROVE T \union {x} \in Good
  <2>1. IsFiniteSet(T)
    BY FS_Subset
  <2>2. SumFunctionOnSet(f, T \union {x}) = f[x] + SumFunctionOnSet(f, T)
    BY <2>1, SumAdd
  <2>. QED BY <1>2, <2>2
<1>. HIDE DEF Good
<1>3. S \in Good
  BY <1>1, <1>2, Induction
<1>. QED BY <1>3 DEF Good

LEMMA SumOne ==
  ASSUME NEW f, NEW a, f[a] \in Int
  PROVE  SumFunctionOnSet(f, {a}) = f[a]
<1>1. SumFunctionOnSet(f, {} \union {a}) = f[a] + SumFunctionOnSet(f, {})
  BY FS_EmptySet, SumAdd
<1>2. {} \union {a} = {a}
  OBVIOUS
<1>. QED BY <1>1, <1>2, SumNone

LEMMA SumUnion ==
  ASSUME NEW f, NEW S, NEW R, IsFiniteSet(S), IsFiniteSet(R), S \intersect R = {},
         \A x \in S \union R : f[x] \in Int
  PROVE  SumFunctionOnSet(f, S \union R) = SumFunctionOnSet(f, S) + SumFunctionOnSet(f, R)
<1>. DEFINE Good == {T \in SUBSET R :
       SumFunctionOnSet(f, S \union T) = SumFunctionOnSet(f, S) + SumFunctionOnSet(f, T)}
<1>1. {} \in Good
  <2>1. S \union {} = S /\ SumFunctionOnSet(f, S) \in Int
    BY SumInt
  <2>. QED BY <2>1, SumNone
<1>2. ASSUME NEW T \in SUBSET R, NEW x \in R \ T, T \in Good PROVE T \union {x} \in Good
  <2>1. IsFiniteSet(T) /\ IsFiniteSet(S \union T)
    <3>1. IsFiniteSet(T)
      BY FS_Subset
    <3>. QED BY <3>1, FS_Union
  <2>2. (S \union T) \union {x} = S \union (T \union {x}) /\ x \notin S \union T
    OBVIOUS
  <2>3. SumFunctionOnSet(f, S \union (T \union {x})) = f[x] + SumFunctionOnSet(f, S \union T)
    BY <2>1, <2>2, SumAdd
  <2>4. SumFunctionOnSet(f, T \union {x}) = f[x] + SumFunctionOnSet(f, T)
    BY <2>1, SumAdd
  <2>5. SumFunctionOnSet(f, S) \in Int /\ SumFunctionOnSet(f, T) \in Int /\ f[x] \in Int
    BY <2>1, SumInt
  <2>. QED BY <1>2, <2>3, <2>4, <2>5
<1>. HIDE DEF Good
<1>3. R \in Good
  BY <1>1, <1>2, Induction
<1>. QED BY <1>3 DEF Good

\* Only what is not zero counts.
LEMMA SumWithin ==
  ASSUME NEW f, NEW S, IsFiniteSet(S), NEW T \in SUBSET S, \A x \in S : f[x] \in Int,
         \A x \in S \ T : f[x] = 0
  PROVE  SumFunctionOnSet(f, S) = SumFunctionOnSet(f, T)
<1>1. IsFiniteSet(T) /\ IsFiniteSet(S \ T)
  BY FS_Subset
<1>2. T \union (S \ T) = S
  OBVIOUS
<1>3. SumFunctionOnSet(f, S) = SumFunctionOnSet(f, T) + SumFunctionOnSet(f, S \ T)
  BY <1>1, <1>2, SumUnion
<1>4. SumFunctionOnSet(f, S \ T) = 0 /\ SumFunctionOnSet(f, T) \in Int
  BY <1>1, SumZero, SumInt
<1>. QED BY <1>3, <1>4

\* One element changes, comes or goes.
LEMMA SumMoved ==
  ASSUME NEW f, NEW g, NEW S, NEW T, IsFiniteSet(S), IsFiniteSet(T), NEW a,
         S \ {a} = T \ {a}, \A x \in S : f[x] \in Int, \A x \in T : g[x] \in Int,
         \A x \in S \ {a} : f[x] = g[x]
  PROVE  SumFunctionOnSet(g, T)
         = SumFunctionOnSet(f, S) - (IF a \in S THEN f[a] ELSE 0) + (IF a \in T THEN g[a] ELSE 0)
<1>. DEFINE R == S \ {a}
<1>1. IsFiniteSet(R)
  BY FS_Subset
<1>2. SumFunctionOnSet(f, R) = SumFunctionOnSet(g, R) /\ SumFunctionOnSet(f, R) \in Int
  BY <1>1, SumSame, SumInt
<1>3. SumFunctionOnSet(f, S) = (IF a \in S THEN f[a] ELSE 0) + SumFunctionOnSet(f, R)
  <2>1. CASE a \in S BY <2>1, SumTake
  <2>2. CASE a \notin S
    <3>1. R = S
      BY <2>2
    <3>. QED BY <1>2, <2>2, <3>1
  <2>. QED BY <2>1, <2>2
<1>4. SumFunctionOnSet(g, T) = (IF a \in T THEN g[a] ELSE 0) + SumFunctionOnSet(g, R)
  <2>1. CASE a \in T BY <2>1, SumTake
  <2>2. CASE a \notin T
    <3>1. R = T
      BY <2>2
    <3>. QED BY <1>2, <2>2, <3>1
  <2>. QED BY <2>1, <2>2
<1>. QED BY <1>2, <1>3, <1>4

\* A sum by parts: the parts are the elements with the same key.
LEMMA SumByKey ==
  ASSUME NEW f, NEW S, NEW K, NEW key, IsFiniteSet(S), IsFiniteSet(K),
         \A x \in S : f[x] \in Int /\ key[x] \in K
  PROVE  SumFunctionOnSet(f, S)
         = SumFunctionOnSet([k \in K |-> SumFunctionOnSet(f, {x \in S : key[x] = k})], K)
<1>. DEFINE Part(J) == {x \in S : key[x] \in J}
            g == [k \in K |-> SumFunctionOnSet(f, {x \in S : key[x] = k})]
            Good == {J \in SUBSET K : SumFunctionOnSet(f, Part(J)) = SumFunctionOnSet(g, J)}
<1>1. \A R \in SUBSET S : IsFiniteSet(R) /\ SumFunctionOnSet(f, R) \in Int
  <2>. TAKE R \in SUBSET S
  <2>1. IsFiniteSet(R)
    BY FS_Subset
  <2>. QED BY <2>1, SumInt
<1>2. {} \in Good
  <2>1. Part({}) = {}
    OBVIOUS
  <2>. HIDE DEF Part, g
  <2>. QED BY <2>1, SumNone
<1>3. ASSUME NEW J \in SUBSET K, NEW k \in K \ J, J \in Good PROVE J \union {k} \in Good
  <2>1. Part(J \union {k}) = Part(J) \union {x \in S : key[x] = k}
    OBVIOUS
  <2>2. Part(J) \intersect {x \in S : key[x] = k} = {}
    OBVIOUS
  <2>3. SumFunctionOnSet(f, Part(J \union {k})) = SumFunctionOnSet(f, Part(J)) + g[k]
    BY <1>1, <2>1, <2>2, SumUnion
  <2>4. IsFiniteSet(J) /\ \A i \in K : g[i] \in Int
    BY <1>1, FS_Subset
  <2>. HIDE DEF Part, g
  <2>5. SumFunctionOnSet(g, J \union {k}) = g[k] + SumFunctionOnSet(g, J)
    BY <2>4, SumAdd
  <2>6. SumFunctionOnSet(g, J) \in Int /\ g[k] \in Int
    BY <2>4, SumInt
  <2>. QED BY <1>3, <2>3, <2>5, <2>6
<1>4. Part(K) = S
  OBVIOUS
<1>. HIDE DEF Good, Part, g
<1>5. K \in Good
  BY <1>2, <1>3, Induction
<1>6. SumFunctionOnSet(f, S) = SumFunctionOnSet(g, K)
  BY <1>4, <1>5 DEF Good
<1>. QED BY <1>6 DEF g

\* The same amounts under other names: each is named once, and the names of
\* nothing are worth nothing.
LEMMA SumByName ==
  ASSUME NEW f, NEW S, NEW K, NEW name, NEW g, IsFiniteSet(S), IsFiniteSet(K),
         \A x \in S : f[x] \in Int /\ name[x] \in K /\ g[name[x]] = f[x],
         \A x, y \in S : name[x] = name[y] => x = y,
         \A k \in K : (\A x \in S : name[x] # k) => g[k] = 0
  PROVE  SumFunctionOnSet(f, S) = SumFunctionOnSet(g, K)
<1>. DEFINE h == [k \in K |-> SumFunctionOnSet(f, {x \in S : name[x] = k})]
<1>1. SumFunctionOnSet(f, S) = SumFunctionOnSet(h, K)
  BY SumByKey
<1>2. ASSUME NEW k \in K PROVE h[k] = g[k] /\ h[k] \in Int
  <2>1. CASE \A x \in S : name[x] # k
    <3>1. {x \in S : name[x] = k} = {}
      BY <2>1
    <3>. QED BY <2>1, <3>1, SumNone
  <2>2. ASSUME NEW x \in S, name[x] = k PROVE h[k] = g[k] /\ h[k] \in Int
    <3>1. {y \in S : name[y] = k} = {x}
      BY <2>2
    <3>2. SumFunctionOnSet(f, {x}) = f[x]
      BY SumOne
    <3>. QED BY <2>2, <3>1, <3>2
  <2>. QED BY <2>1, <2>2
<1>. HIDE DEF h
<1>. QED BY <1>1, <1>2, SumSame

LEMMA SumSigned ==
  ASSUME NEW f, NEW g, NEW S, IsFiniteSet(S), NEW k \in {-1, 0, 1},
         \A x \in S : f[x] \in Int /\ g[x] = k * f[x]
  PROVE  SumFunctionOnSet(g, S) = k * SumFunctionOnSet(f, S)
<1>1. SumFunctionOnSet(f, S) \in Int
  BY SumInt
<1>2. CASE k = 0
  <2>1. \A x \in S : g[x] = 0
    BY <1>2
  <2>. QED BY <1>1, <1>2, <2>1, SumZero
<1>3. CASE k = 1
  <2>1. \A x \in S : f[x] = g[x] /\ f[x] \in Int
    BY <1>3
  <2>. QED BY <1>1, <1>3, <2>1, SumSame
<1>4. CASE k = -1
  <2>. DEFINE z == [x \in S |-> 0]
  <2>1. \A x \in S : z[x] = 0
    OBVIOUS
  <2>. HIDE DEF z
  <2>2. \A x \in S : z[x] \in Int /\ g[x] = z[x] - f[x]
    BY <1>4, <2>1
  <2>3. SumFunctionOnSet(g, S) = SumFunctionOnSet(z, S) - SumFunctionOnSet(f, S)
    BY <2>2, SumMinus
  <2>. QED BY <1>1, <1>4, <2>1, <2>3, SumZero
<1>. QED BY <1>2, <1>3, <1>4

\* The rows of a table added up, or its columns.
LEMMA SumSwap ==
  ASSUME NEW S, NEW T, IsFiniteSet(S), IsFiniteSet(T), NEW m,
         \A x \in S, y \in T : m[x][y] \in Int
  PROVE  SumFunctionOnSet([x \in S |-> SumFunctionOnSet(m[x], T)], S)
         = SumFunctionOnSet([y \in T |-> SumFunctionOnSet([x \in S |-> m[x][y]], S)], T)
<1>. DEFINE row == [x \in S |-> SumFunctionOnSet(m[x], T)]
            part(y) == [x \in S |-> m[x][y]]
            col(R) == [y \in T |-> SumFunctionOnSet(part(y), R)]
            Good == {R \in SUBSET S : SumFunctionOnSet(row, R) = SumFunctionOnSet(col(R), T)}
<1>1. \A R \in SUBSET S : IsFiniteSet(R)
  BY FS_Subset
<1>2. \A x \in S : row[x] \in Int
  BY SumInt
<1>3. \A R \in SUBSET S, y \in T : SumFunctionOnSet(part(y), R) \in Int
  <2>. TAKE R \in SUBSET S, y \in T
  <2>1. \A x \in R : part(y)[x] \in Int
    OBVIOUS
  <2>. HIDE DEF part
  <2>. QED BY <1>1, <2>1, SumInt
<1>4. {} \in Good
  <2>1. \A y \in T : col({})[y] = 0
    <3>. HIDE DEF part
    <3>. QED BY SumNone
  <2>. HIDE DEF col, row
  <2>. QED BY <2>1, SumNone, SumZero
<1>5. ASSUME NEW R \in SUBSET S, NEW x \in S \ R, R \in Good PROVE R \union {x} \in Good
  <2>1. SumFunctionOnSet(row, R \union {x}) = row[x] + SumFunctionOnSet(row, R)
    <3>. HIDE DEF row
    <3>. QED BY <1>1, <1>2, SumAdd
  <2>2. \A y \in T : m[x][y] \in Int /\ col(R)[y] \in Int /\ col(R \union {x})[y] = m[x][y] + col(R)[y]
    <3>. TAKE y \in T
    <3>1. \A z \in S : part(y)[z] = m[z][y] /\ part(y)[z] \in Int
      OBVIOUS
    <3>. HIDE DEF part
    <3>2. SumFunctionOnSet(part(y), R \union {x}) = part(y)[x] + SumFunctionOnSet(part(y), R)
      BY <1>1, <3>1, SumAdd
    <3>. QED BY <1>3, <3>1, <3>2
  <2>3. row[x] = SumFunctionOnSet(m[x], T)
    OBVIOUS
  <2>. HIDE DEF row, col
  <2>4. SumFunctionOnSet(col(R \union {x}), T) = SumFunctionOnSet(m[x], T) + SumFunctionOnSet(col(R), T)
    <3>. DEFINE a == m[x]
                b == col(R)
                c == col(R \union {x})
    <3>1. \A y \in T : a[y] \in Int /\ b[y] \in Int /\ c[y] = a[y] + b[y]
      BY <2>2
    <3>. HIDE DEF a, b, c
    <3>2. SumFunctionOnSet(c, T) = SumFunctionOnSet(a, T) + SumFunctionOnSet(b, T)
      BY <3>1, SumPlus
    <3>. QED BY <3>2 DEF a, b, c
  <2>. QED BY <1>5, <2>1, <2>3, <2>4
<1>. HIDE DEF Good
<1>6. S \in Good
  BY <1>4, <1>5, Induction
<1>. QED BY <1>6 DEF Good
=============================================================================

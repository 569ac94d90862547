-------------------------------- MODULE Sums --------------------------------
(***************************************************************************)
(* Sums over the values of a function: SumFunctionOnSet and SumFunction of *)
(* the community modules, by induction over the finite set of indices.     *)
(*                                                                         *)
(* The induction is the principle of the least counterexample, stated for  *)
(* sets (Smallest).                                                        *)
(***************************************************************************)
EXTENDS Integers, FiniteSets, Functions, FiniteSetTheorems, WellFoundedInduction, TLAPS

LEMMA LeastMember ==
    ASSUME NEW T, T \subseteq Nat, T # {}
    PROVE  \E n \in T : \A m \in T : n <= m
<1> DEFINE R == OpToRel(<, Nat)
<1>1. PICK n \in T : \A m \in T : <<m, n>> \notin R
    BY NatLessThanWellFounded, WFMin
<1>2. \A k, m \in Nat : m < k => <<m, k>> \in R
    BY Zenon DEF OpToRel
<1>3. \A m \in T : ~(m < n)
    <2> HIDE DEF R
    <2> QED  BY <1>1, <1>2
<1>4. \A m \in T : n <= m
    BY <1>3
<1> QED  BY <1>4

\* Of finite sets that have something wrong, one has no smaller one below it.
LEMMA Smallest ==
    ASSUME NEW Bad, Bad # {}, \A S \in Bad : IsFiniteSet(S)
    PROVE  \E S \in Bad : \A T \in Bad : T \subseteq S => T = S
<1> DEFINE sizes == {Cardinality(S) : S \in Bad}
<1>1. sizes \subseteq Nat /\ sizes # {}
    BY FS_CardinalityType
<1>2. PICK n \in sizes : \A m \in sizes : n <= m
    <2> HIDE DEF sizes
    <2> QED  BY <1>1, LeastMember
<1>3. PICK S \in Bad : Cardinality(S) = n
    BY <1>2
<1>4. ASSUME NEW T \in Bad, T \subseteq S, T # S PROVE FALSE
    <2>1. Cardinality(T) < Cardinality(S)
        BY <1>4, FS_Subset, FS_CardinalityType
    <2>2. n <= Cardinality(T)
        BY <1>2
    <2> QED  BY <2>1, <2>2, <1>3, FS_CardinalityType
<1> QED  BY <1>4

-----------------------------------------------------------------------------
(* The recursion that the sum is defined by has one solution.              *)

Pick(s) == CHOOSE x \in s : TRUE

Sums(f, S, g) ==
    g = [s \in SUBSET S |-> IF s = {} THEN 0 ELSE f[Pick(s)] + g[s \ {Pick(s)}]]

LEMMA SumIs ==
    ASSUME NEW f, NEW S
    PROVE  SumFunctionOnSet(f, S) = (CHOOSE g : Sums(f, S, g))[S]
    BY DEF SumFunctionOnSet, FoldFunctionOnSet, MapThenFoldSet, Sums, Pick

LEMMA Picks == ASSUME NEW s, s # {} PROVE Pick(s) \in s
    BY DEF Pick

LEMMA Unique ==
    ASSUME NEW f, NEW S, IsFiniteSet(S), NEW T \in SUBSET S,
           NEW g, Sums(f, S, g), NEW h, Sums(f, T, h)
    PROVE  \A s \in SUBSET T : g[s] = h[s]
<1> DEFINE bad == {s \in SUBSET T : g[s] # h[s]}
<1> SUFFICES ASSUME bad # {} PROVE FALSE
    OBVIOUS
<1>1. PICK s \in bad : \A t \in bad : t \subseteq s => t = s
    <2>1. \A t \in bad : IsFiniteSet(t)
        BY FS_Subset
    <2> HIDE DEF bad
    <2> QED  BY <2>1, Smallest
<1>2. s # {}
    BY DEF Sums
<1>3. Pick(s) \in s
    BY <1>2, Picks
<1>4. g[s \ {Pick(s)}] = h[s \ {Pick(s)}]
    BY <1>1, <1>3
<1> QED  BY <1>2, <1>4 DEF Sums

LEMMA Exists ==
    ASSUME NEW f, NEW S, IsFiniteSet(S)
    PROVE  \E g : Sums(f, S, g)
<1> DEFINE bad == {T \in SUBSET S : ~ \E g : Sums(f, T, g)}
<1> SUFFICES ASSUME bad # {} PROVE FALSE
    OBVIOUS
<1>1. PICK T \in bad : \A t \in bad : t \subseteq T => t = T
    <2>1. \A t \in bad : IsFiniteSet(t)
        BY FS_Subset
    <2> HIDE DEF bad
    <2> QED  BY <2>1, Smallest
<1> DEFINE Sol(t) == CHOOSE g : Sums(f, t, g)
           sum(t) == Sol(t)[t]
           new == [t \in SUBSET T |-> IF t = {} THEN 0 ELSE f[Pick(t)] + sum(t \ {Pick(t)})]
<1>2. \A t \in SUBSET T : t # T => Sums(f, t, Sol(t))
    BY <1>1
<1>3. ASSUME NEW t \in SUBSET T, t # T PROVE new[t] = sum(t)
    <2>1. CASE t = {}
        <3>1. Sums(f, t, Sol(t))
            BY <1>2, <1>3
        <3> HIDE DEF Sol
        <3>2. Sol(t)[t] = 0
            BY <2>1, <3>1 DEF Sums
        <3> QED  BY <2>1, <3>2
    <2>2. CASE t # {}
        <3> DEFINE u == t \ {Pick(t)}
        <3>1. Pick(t) \in t /\ u \in SUBSET T /\ u # T /\ u \in SUBSET t /\ t \in SUBSET t
            BY <2>2, Picks
        <3>2. Sums(f, t, Sol(t)) /\ Sums(f, u, Sol(u))
            BY <1>2, <1>3, <3>1
        <3>3. IsFiniteSet(t)
            BY FS_Subset
        <3>4. Sol(t)[u] = Sol(u)[u]
            <4> HIDE DEF u, Sol
            <4> QED  BY <3>1, <3>2, <3>3, Unique
        <3>5. Sol(t)[t] = f[Pick(t)] + Sol(t)[u]
            <4> HIDE DEF Sol
            <4> QED  BY <2>2, <3>1, <3>2 DEF Sums
        <3> QED  BY <2>2, <3>4, <3>5
    <2> QED  BY <2>1, <2>2
<1>4. ASSUME NEW t \in SUBSET T, t # {} PROVE sum(t \ {Pick(t)}) = new[t \ {Pick(t)}]
    <2>1. t \ {Pick(t)} \in SUBSET T /\ t \ {Pick(t)} # T
        BY <1>4, Picks
    <2> HIDE DEF sum, new
    <2> QED  BY <2>1, <1>3
<1>5. Sums(f, T, new)
    <2> HIDE DEF sum
    <2> QED BY <1>4 DEF Sums
<1> QED  BY <1>5

-----------------------------------------------------------------------------
(* Sums over a finite set of indices.                                      *)

LEMMA SumOfNone == ASSUME NEW f PROVE SumFunctionOnSet(f, {}) = 0
<1> DEFINE g == CHOOSE g : Sums(f, {}, g)
<1>1. Sums(f, {}, g)
    BY Exists, FS_EmptySet
<1>2. SumFunctionOnSet(f, {}) = g[{}]
    BY SumIs
<1> HIDE DEF g
<1> QED  BY <1>1, <1>2 DEF Sums

LEMMA SumPicks ==
    ASSUME NEW f, NEW S, IsFiniteSet(S), S # {}
    PROVE  SumFunctionOnSet(f, S) = f[Pick(S)] + SumFunctionOnSet(f, S \ {Pick(S)})
<1> DEFINE u == S \ {Pick(S)}
           g == CHOOSE g : Sums(f, S, g)
           h == CHOOSE h : Sums(f, u, h)
<1>1. IsFiniteSet(u) /\ u \in SUBSET S
    BY FS_Subset
<1>2. Sums(f, S, g) /\ Sums(f, u, h)
    <2> HIDE DEF u
    <2> QED  BY <1>1, Exists
<1>3. SumFunctionOnSet(f, S) = g[S] /\ SumFunctionOnSet(f, u) = h[u]
    BY SumIs
<1>4. g[u] = h[u]
    <2> HIDE DEF g, h, u
    <2> QED  BY <1>1, <1>2, Unique
<1>5. g[S] = f[Pick(S)] + g[u]
    <2> HIDE DEF g
    <2> QED  BY <1>1, <1>2 DEF Sums
<1> HIDE DEF g, h, u
<1>6. SumFunctionOnSet(f, S) = f[Pick(S)] + SumFunctionOnSet(f, u)
    BY <1>3, <1>4, <1>5
<1> QED  BY <1>6 DEF u

LEMMA SumIsInt ==
    ASSUME NEW f, NEW S, IsFiniteSet(S), \A x \in S : f[x] \in Int
    PROVE  SumFunctionOnSet(f, S) \in Int
<1> DEFINE bad == {T \in SUBSET S : SumFunctionOnSet(f, T) \notin Int}
<1> SUFFICES ASSUME bad # {} PROVE FALSE
    OBVIOUS
<1>1. PICK T \in bad : \A t \in bad : t \subseteq T => t = T
    <2>1. \A t \in bad : IsFiniteSet(t)
        BY FS_Subset
    <2> HIDE DEF bad
    <2> QED  BY <2>1, Smallest
<1>2. IsFiniteSet(T)
    BY FS_Subset
<1>5. T # {}
    BY SumOfNone
<1>3. Pick(T) \in T
    BY <1>5, Picks
<1>4. SumFunctionOnSet(f, T \ {Pick(T)}) \in Int
    BY <1>1, <1>3
<1> QED  BY <1>2, <1>3, <1>4, <1>5, SumPicks

\* Any index may be taken first.
LEMMA SumTakes ==
    ASSUME NEW f, NEW S, IsFiniteSet(S), \A x \in S : f[x] \in Int, NEW x \in S
    PROVE  SumFunctionOnSet(f, S) = f[x] + SumFunctionOnSet(f, S \ {x})
<1> DEFINE bad == {T \in SUBSET S : \E y \in T :
                       SumFunctionOnSet(f, T) # f[y] + SumFunctionOnSet(f, T \ {y})}
<1> SUFFICES ASSUME bad # {} PROVE FALSE
    OBVIOUS
<1>1. PICK T \in bad : \A t \in bad : t \subseteq T => t = T
    <2>1. \A t \in bad : IsFiniteSet(t)
        BY FS_Subset
    <2> HIDE DEF bad
    <2> QED  BY <2>1, Smallest
<1>2. PICK y \in T : SumFunctionOnSet(f, T) # f[y] + SumFunctionOnSet(f, T \ {y})
    BY <1>1
<1> DEFINE p == Pick(T)
           both == T \ {p, y}
<1>3. \A t \in SUBSET T : IsFiniteSet(t) /\ SumFunctionOnSet(f, t) \in Int
    BY FS_Subset, SumIsInt
<1>4. p \in T /\ f[p] \in Int /\ f[y] \in Int
    BY Picks
<1>5. SumFunctionOnSet(f, T) = f[p] + SumFunctionOnSet(f, T \ {p})
    BY <1>3, SumPicks
<1>6. p # y
    BY <1>2, <1>5
<1>7. SumFunctionOnSet(f, T \ {p}) = f[y] + SumFunctionOnSet(f, both)
    <2>1. T \ {p} \in SUBSET S /\ T \ {p} # T /\ y \in T \ {p} /\ (T \ {p}) \ {y} = both
        BY <1>4, <1>6
    <2> QED  BY <1>1, <2>1
<1>8. SumFunctionOnSet(f, T \ {y}) = f[p] + SumFunctionOnSet(f, both)
    <2>1. T \ {y} \in SUBSET S /\ T \ {y} # T /\ p \in T \ {y} /\ (T \ {y}) \ {p} = both
        BY <1>4, <1>6
    <2> QED  BY <1>1, <2>1
<1>9. both \in SUBSET T
    OBVIOUS
<1> HIDE DEF p, both
<1> QED  BY <1>2, <1>3, <1>4, <1>5, <1>7, <1>8, <1>9

-----------------------------------------------------------------------------
(* Sums of functions that are alike.                                       *)

LEMMA SumAgrees ==
    ASSUME NEW S, IsFiniteSet(S), NEW f, NEW g, \A x \in S : f[x] = g[x]
    PROVE  SumFunctionOnSet(f, S) = SumFunctionOnSet(g, S)
<1> DEFINE bad == {T \in SUBSET S : SumFunctionOnSet(f, T) # SumFunctionOnSet(g, T)}
<1> SUFFICES ASSUME bad # {} PROVE FALSE
    OBVIOUS
<1>1. PICK T \in bad : \A t \in bad : t \subseteq T => t = T
    <2>1. \A t \in bad : IsFiniteSet(t)
        BY FS_Subset
    <2> HIDE DEF bad
    <2> QED  BY <2>1, Smallest
<1>2. T # {}
    BY SumOfNone
<1>3. Pick(T) \in T
    BY <1>2, Picks
<1>4. SumFunctionOnSet(f, T \ {Pick(T)}) = SumFunctionOnSet(g, T \ {Pick(T)})
    BY <1>1, <1>3
<1>5. IsFiniteSet(T)
    BY FS_Subset
<1> QED  BY <1>2, <1>3, <1>4, <1>5, SumPicks

LEMMA SumPlus ==
    ASSUME NEW S, IsFiniteSet(S), NEW f, NEW g, NEW h,
           \A x \in S : f[x] \in Int /\ g[x] \in Int /\ h[x] = f[x] + g[x]
    PROVE  SumFunctionOnSet(h, S) = SumFunctionOnSet(f, S) + SumFunctionOnSet(g, S)
<1> DEFINE bad == {T \in SUBSET S : SumFunctionOnSet(h, T)
                       # SumFunctionOnSet(f, T) + SumFunctionOnSet(g, T)}
<1> SUFFICES ASSUME bad # {} PROVE FALSE
    OBVIOUS
<1>1. PICK T \in bad : \A t \in bad : t \subseteq T => t = T
    <2>1. \A t \in bad : IsFiniteSet(t)
        BY FS_Subset
    <2> HIDE DEF bad
    <2> QED  BY <2>1, Smallest
<1>2. T # {}
    <2>1. SumFunctionOnSet(f, {}) = 0 /\ SumFunctionOnSet(g, {}) = 0 /\ SumFunctionOnSet(h, {}) = 0
        BY SumOfNone
    <2>2. SumFunctionOnSet(h, {}) = SumFunctionOnSet(f, {}) + SumFunctionOnSet(g, {})
        BY <2>1
    <2> QED  BY <2>2
<1>3. Pick(T) \in T
    BY <1>2, Picks
<1> DEFINE u == T \ {Pick(T)}
<1>4. SumFunctionOnSet(h, u) = SumFunctionOnSet(f, u) + SumFunctionOnSet(g, u)
    BY <1>1, <1>3
<1>5. IsFiniteSet(T) /\ IsFiniteSet(u) /\ u \subseteq S
    BY FS_Subset
<1>6. SumFunctionOnSet(f, u) \in Int /\ SumFunctionOnSet(g, u) \in Int
    <2> HIDE DEF u
    <2> QED  BY <1>5, SumIsInt
<1>7. /\ SumFunctionOnSet(f, T) = f[Pick(T)] + SumFunctionOnSet(f, u)
      /\ SumFunctionOnSet(g, T) = g[Pick(T)] + SumFunctionOnSet(g, u)
      /\ SumFunctionOnSet(h, T) = h[Pick(T)] + SumFunctionOnSet(h, u)
    BY <1>2, <1>5, SumPicks
<1>8. /\ f[Pick(T)] \in Int /\ g[Pick(T)] \in Int
      /\ h[Pick(T)] = f[Pick(T)] + g[Pick(T)]
    BY <1>3
<1> HIDE DEF u
<1> QED  BY <1>1, <1>4, <1>6, <1>7, <1>8

\* A sum of values that are not negative is none less.
LEMMA SumIsNat ==
    ASSUME NEW f, NEW S, IsFiniteSet(S), \A x \in S : f[x] \in Nat
    PROVE  SumFunctionOnSet(f, S) \in Nat
<1> DEFINE bad == {T \in SUBSET S : SumFunctionOnSet(f, T) \notin Nat}
<1> SUFFICES ASSUME bad # {} PROVE FALSE
    OBVIOUS
<1>1. PICK T \in bad : \A t \in bad : t \subseteq T => t = T
    <2>1. \A t \in bad : IsFiniteSet(t)
        BY FS_Subset
    <2> HIDE DEF bad
    <2> QED  BY <2>1, Smallest
<1>2. IsFiniteSet(T)
    BY FS_Subset
<1>3. T # {}
    BY SumOfNone
<1>4. Pick(T) \in T
    BY <1>3, Picks
<1>5. SumFunctionOnSet(f, T \ {Pick(T)}) \in Nat
    BY <1>1, <1>4
<1> QED  BY <1>2, <1>3, <1>4, <1>5, SumPicks

LEMMA SumGrows ==
    ASSUME NEW S, IsFiniteSet(S), NEW f, NEW g,
           \A x \in S : f[x] \in Int /\ g[x] \in Int /\ f[x] <= g[x]
    PROVE  SumFunctionOnSet(f, S) <= SumFunctionOnSet(g, S)
<1> DEFINE d == [x \in S |-> g[x] - f[x]]
<1>1. \A x \in S : d[x] \in Nat /\ g[x] = f[x] + d[x]
    OBVIOUS
<1> HIDE DEF d
<1>2. SumFunctionOnSet(g, S) = SumFunctionOnSet(f, S) + SumFunctionOnSet(d, S)
    BY <1>1, SumPlus
<1>3. SumFunctionOnSet(d, S) \in Nat /\ SumFunctionOnSet(f, S) \in Int
    BY <1>1, SumIsNat, SumIsInt
<1> QED  BY <1>2, <1>3

\* A sum whose values differ in one place.
LEMMA SumUpdate ==
    ASSUME NEW S, IsFiniteSet(S), NEW f, NEW g, NEW x \in S,
           \A y \in S : f[y] \in Int, g[x] \in Int, \A y \in S \ {x} : g[y] = f[y]
    PROVE  SumFunctionOnSet(g, S) = SumFunctionOnSet(f, S) - f[x] + g[x]
<1> DEFINE u == S \ {x}
<1>1. IsFiniteSet(u) /\ u \subseteq S
    BY FS_Subset
<1>2. SumFunctionOnSet(g, u) = SumFunctionOnSet(f, u)
    <2>1. \A y \in u : f[y] = g[y]
        OBVIOUS
    <2> HIDE DEF u
    <2> QED  BY <1>1, <2>1, SumAgrees
<1>3. /\ SumFunctionOnSet(f, S) = f[x] + SumFunctionOnSet(f, u)
      /\ SumFunctionOnSet(g, S) = g[x] + SumFunctionOnSet(g, u)
    <2>1. \A y \in S : g[y] \in Int
        OBVIOUS
    <2> QED  BY <2>1, SumTakes
<1>4. SumFunctionOnSet(f, u) \in Int
    <2> HIDE DEF u
    <2> QED  BY <1>1, SumIsInt
<1> HIDE DEF u
<1> QED  BY <1>2, <1>3, <1>4

\* One value of a sum of values that are not negative is no more than the sum.
LEMMA SumCovers ==
    ASSUME NEW S, IsFiniteSet(S), NEW f, \A y \in S : f[y] \in Nat, NEW x \in S
    PROVE  f[x] <= SumFunctionOnSet(f, S)
<1>1. SumFunctionOnSet(f, S) = f[x] + SumFunctionOnSet(f, S \ {x})
    BY SumTakes
<1>2. SumFunctionOnSet(f, S \ {x}) \in Nat
    <2> DEFINE u == S \ {x}
    <2>1. IsFiniteSet(u) /\ \A y \in u : f[y] \in Nat
        BY FS_Subset
    <2> HIDE DEF u
    <2>2. SumFunctionOnSet(f, u) \in Nat
        BY <2>1, SumIsNat
    <2> QED  BY <2>2 DEF u
<1> QED  BY <1>1, <1>2

LEMMA SumOfZeros ==
    ASSUME NEW S, IsFiniteSet(S), NEW f, \A x \in S : f[x] = 0
    PROVE  SumFunctionOnSet(f, S) = 0
<1> DEFINE s == SumFunctionOnSet(f, S)
<1>1. s = s + s
    BY SumPlus
<1>2. s \in Int
    BY SumIsInt
<1> HIDE DEF s
<1>3. s = 0
    BY <1>1, <1>2
<1> QED  BY <1>3 DEF s

\* A sum with one value that counts.
LEMMA SumOfOne ==
    ASSUME NEW S, IsFiniteSet(S), NEW f, NEW x \in S, f[x] \in Int,
           \A y \in S \ {x} : f[y] = 0
    PROVE  SumFunctionOnSet(f, S) = f[x]
<1> DEFINE zero == [y \in S |-> 0]
<1>1. SumFunctionOnSet(zero, S) = 0
    BY SumOfZeros
<1>2. SumFunctionOnSet(f, S) = SumFunctionOnSet(zero, S) - zero[x] + f[x]
    <2>1. /\ \A y \in S : zero[y] \in Int
          /\ \A y \in S \ {x} : f[y] = zero[y]
        OBVIOUS
    <2> HIDE DEF zero
    <2> QED  BY <2>1, SumUpdate
<1>3. zero[x] = 0
    OBVIOUS
<1> HIDE DEF zero
<1> QED  BY <1>1, <1>2, <1>3

-----------------------------------------------------------------------------
(* Sums over a part of the indices.                                        *)

LEMMA SumSplits ==
    ASSUME NEW S, IsFiniteSet(S), NEW f, \A x \in S : f[x] \in Int, NEW T \in SUBSET S
    PROVE  SumFunctionOnSet(f, S) = SumFunctionOnSet(f, T) + SumFunctionOnSet(f, S \ T)
<1> DEFINE bad == {t \in SUBSET S :
                       SumFunctionOnSet(f, S)
                           # SumFunctionOnSet(f, t) + SumFunctionOnSet(f, S \ t)}
<1> SUFFICES ASSUME bad # {} PROVE FALSE
    OBVIOUS
<1>1. PICK t \in bad : \A u \in bad : u \subseteq t => u = t
    <2>1. \A u \in bad : IsFiniteSet(u)
        BY FS_Subset
    <2> HIDE DEF bad
    <2> QED  BY <2>1, Smallest
<1>2. SumFunctionOnSet(f, S) \in Int
    BY SumIsInt
<1>3. t # {}
    <2>1. S \ {} = S
        OBVIOUS
    <2> QED  BY <1>2, <2>1, SumOfNone
<1>4. PICK x \in t : TRUE
    BY <1>3
<1> DEFINE less == t \ {x}
           rest == S \ t
           more == S \ less
<1>5. SumFunctionOnSet(f, S) = SumFunctionOnSet(f, less) + SumFunctionOnSet(f, more)
    BY <1>1, <1>4
<1>6. SumFunctionOnSet(f, t) = f[x] + SumFunctionOnSet(f, less)
    <2>1. IsFiniteSet(t) /\ \A y \in t : f[y] \in Int
        BY FS_Subset
    <2> QED  BY <2>1, SumTakes
<1>7. SumFunctionOnSet(f, more) = f[x] + SumFunctionOnSet(f, rest)
    <2>1. IsFiniteSet(more) /\ (\A y \in more : f[y] \in Int) /\ x \in more
          /\ more \ {x} = rest
        BY FS_Subset
    <2> HIDE DEF more, rest
    <2> QED  BY <2>1, SumTakes
<1>8. /\ SumFunctionOnSet(f, less) \in Int /\ SumFunctionOnSet(f, rest) \in Int
      /\ f[x] \in Int
    <2>1. /\ IsFiniteSet(less) /\ \A y \in less : f[y] \in Int
          /\ IsFiniteSet(rest) /\ \A y \in rest : f[y] \in Int
        BY FS_Subset
    <2>2. f[x] \in Int
        OBVIOUS
    <2> HIDE DEF less, rest
    <2> QED  BY <2>1, <2>2, SumIsInt
<1>9. SumFunctionOnSet(f, S) # SumFunctionOnSet(f, t) + SumFunctionOnSet(f, rest)
    BY <1>1
<1> HIDE DEF less, rest, more, bad
<1> QED  BY <1>5, <1>6, <1>7, <1>8, <1>9

\* A sum over a part is the sum over all of what is zero elsewhere.
LEMMA SumWithin ==
    ASSUME NEW S, IsFiniteSet(S), NEW T \in SUBSET S, NEW f, NEW g,
           \A x \in T : f[x] \in Int /\ g[x] = f[x],
           \A x \in S \ T : g[x] = 0
    PROVE  SumFunctionOnSet(f, T) = SumFunctionOnSet(g, S)
<1> DEFINE u == S \ T
<1>1. IsFiniteSet(T) /\ IsFiniteSet(u)
    BY FS_Subset
<1>2. SumFunctionOnSet(g, S) = SumFunctionOnSet(g, T) + SumFunctionOnSet(g, u)
    <2>1. \A x \in S : g[x] \in Int
        OBVIOUS
    <2> QED  BY <2>1, SumSplits
<1>3. SumFunctionOnSet(g, u) = 0
    <2>1. \A x \in u : g[x] = 0
        OBVIOUS
    <2> HIDE DEF u
    <2> QED  BY <1>1, <2>1, SumOfZeros
<1>4. SumFunctionOnSet(f, T) = SumFunctionOnSet(g, T) /\ SumFunctionOnSet(g, T) \in Int
    BY <1>1, SumAgrees, SumIsInt
<1> HIDE DEF u
<1> QED  BY <1>2, <1>3, <1>4

\* A sum does not ask what its indices are called.
LEMMA SumRenames ==
    ASSUME NEW S, IsFiniteSet(S), NEW T, NEW h \in Bijection(S, T), NEW f, NEW g,
           \A x \in S : f[h[x]] \in Int /\ g[x] = f[h[x]]
    PROVE  SumFunctionOnSet(g, S) = SumFunctionOnSet(f, T)
<1> DEFINE im(t) == {h[x] : x \in t}
           bad == {t \in SUBSET S : ~(/\ IsFiniteSet(im(t))
                                      /\ SumFunctionOnSet(g, t) = SumFunctionOnSet(f, im(t)))}
<1>0. T = im(S) /\ \A x, y \in S : h[x] = h[y] => x = y
    BY DEF Bijection, Injection, IsInjective, Surjection
<1> SUFFICES ASSUME bad # {} PROVE FALSE
    BY <1>0
<1>1. PICK t \in bad : \A z \in bad : z \subseteq t => z = t
    <2>1. \A z \in bad : IsFiniteSet(z)
        BY FS_Subset
    <2> HIDE DEF bad
    <2> QED  BY <2>1, Smallest
<1>2. t # {}
    <2>1. im({}) = {}
        OBVIOUS
    <2>2. IsFiniteSet({}) /\ SumFunctionOnSet(g, {}) = SumFunctionOnSet(f, {})
        BY SumOfNone, FS_EmptySet
    <2>3. {} \notin bad
        BY <2>1, <2>2
    <2> HIDE DEF bad
    <2> QED  BY <2>3
<1>3. PICK x \in t : TRUE
    BY <1>2
<1> DEFINE u == t \ {x}
<1>4. IsFiniteSet(im(u)) /\ SumFunctionOnSet(g, u) = SumFunctionOnSet(f, im(u))
    <2>1. u \in SUBSET S /\ u \subseteq t /\ u # t
        BY <1>1, <1>3
    <2>2. u \notin bad
        <3> HIDE DEF bad, u
        <3> QED  BY <1>1, <2>1
    <2> HIDE DEF u, im
    <2> QED  BY <2>1, <2>2
<1>5. im(t) = im(u) \cup {h[x]} /\ im(t) \ {h[x]} = im(u) /\ h[x] \in im(t)
    <2>1. t \subseteq S /\ x \in S
        BY <1>1, <1>3
    <2> QED  BY <1>0, <1>3, <2>1
<1>6. IsFiniteSet(im(t))
    <2> DEFINE v == im(u)
    <2>1. IsFiniteSet(v)
        BY <1>4
    <2> HIDE DEF v
    <2>2. IsFiniteSet(v \cup {h[x]})
        BY <2>1, FS_AddElement
    <2> QED  BY <1>5, <2>2 DEF v
<1>7. SumFunctionOnSet(g, t) = g[x] + SumFunctionOnSet(g, u)
    <2>1. IsFiniteSet(t) /\ \A y \in t : g[y] \in Int
        BY FS_Subset
    <2> QED  BY <1>3, <2>1, SumTakes
<1>8. SumFunctionOnSet(f, im(t)) = f[h[x]] + SumFunctionOnSet(f, im(t) \ {h[x]})
    <2>1. \A z \in im(t) : f[z] \in Int
        BY <1>1
    <2> HIDE DEF im, u
    <2> QED  BY <1>5, <1>6, <2>1, SumTakes
<1>9. g[x] = f[h[x]]
    BY <1>1, <1>3
<1>10. SumFunctionOnSet(g, t) = SumFunctionOnSet(f, im(t))
    <2> HIDE DEF im, u, bad
    <2> QED  BY <1>4, <1>5, <1>7, <1>8, <1>9
<1> QED  BY <1>1, <1>6, <1>10

\* A table of numbers, and the same table turned.
Turned(f, g, S, T) == \A x \in S, y \in T : f[x][y] \in Int /\ g[y][x] = f[x][y]

\* A table has one sum, row by row and column by column.
LEMMA SumSwaps ==
    ASSUME NEW S, IsFiniteSet(S), NEW T, IsFiniteSet(T), NEW f, NEW g,
           Turned(f, g, S, T),
           NEW rows, \A x \in S : rows[x] = SumFunctionOnSet(f[x], T),
           NEW cols, \A y \in T : cols[y] = SumFunctionOnSet(g[y], S)
    PROVE  SumFunctionOnSet(rows, S) = SumFunctionOnSet(cols, T)
<1> USE DEF Turned
<1> DEFINE col(y) == g[y]
           part(s) == [y \in T |-> SumFunctionOnSet(col(y), s)]
           bad == {s \in SUBSET S : SumFunctionOnSet(rows, s) # SumFunctionOnSet(part(s), T)}
<1>1. bad = {}
    <2> SUFFICES ASSUME bad # {} PROVE FALSE
        OBVIOUS
    <2>1. PICK s \in bad : \A z \in bad : z \subseteq s => z = s
        <3>1. \A z \in bad : IsFiniteSet(z)
            BY FS_Subset
        <3> HIDE DEF bad
        <3> QED  BY <3>1, Smallest
    <2>2. {} \notin bad
        <3>1. \A y \in T : part({})[y] = 0
            BY SumOfNone
        <3>2. SumFunctionOnSet(part({}), T) = 0
            <4> HIDE DEF part
            <4> QED  BY <3>1, SumOfZeros
        <3> QED  BY <3>2, SumOfNone
    <2>3. PICK x \in s : TRUE
        <3> HIDE DEF bad
        <3> QED  BY <2>1, <2>2
    <2> DEFINE u == s \ {x}
    <2>4. SumFunctionOnSet(rows, u) = SumFunctionOnSet(part(u), T)
        <3>1. u \in SUBSET S /\ u \subseteq s /\ u # s
            BY <2>1, <2>3
        <3>2. u \notin bad
            <4> HIDE DEF bad, u
            <4> QED  BY <2>1, <3>1
        <3> HIDE DEF u, part
        <3> QED  BY <3>1, <3>2
    <2>5. s \subseteq S /\ x \in S /\ IsFiniteSet(s) /\ IsFiniteSet(u) /\ u \subseteq S
        BY <2>1, <2>3, FS_Subset
    <2>6. \A z \in S : rows[z] \in Int
        BY SumIsInt
    <2>7. SumFunctionOnSet(rows, s) = rows[x] + SumFunctionOnSet(rows, u)
        <3> HIDE DEF bad
        <3> QED  BY <2>3, <2>5, <2>6, SumTakes
    <2>8. ASSUME NEW y \in T
          PROVE  /\ f[x][y] \in Int /\ part(u)[y] \in Int
                 /\ part(s)[y] = f[x][y] + part(u)[y]
        <3>1. (\A z \in S : col(y)[z] \in Int) /\ col(y)[x] = f[x][y]
            BY <2>5
        <3> HIDE DEF col, bad, u
        <3>2. \A z \in s : col(y)[z] \in Int
            BY <2>5, <3>1
        <3>3. SumFunctionOnSet(col(y), s) = col(y)[x] + SumFunctionOnSet(col(y), s \ {x})
            BY <2>3, <2>5, <3>2, SumTakes
        <3>4. SumFunctionOnSet(col(y), u) \in Int
            BY <2>5, <3>1, SumIsInt
        <3>5. f[x][y] \in Int
            BY <2>5
        <3> QED  BY <3>1, <3>3, <3>4, <3>5 DEF u
    <2>9. SumFunctionOnSet(part(s), T) = SumFunctionOnSet(f[x], T) + SumFunctionOnSet(part(u), T)
        <3> DEFINE old == part(u)
                   new == part(s)
        <3>1. \A y \in T : f[x][y] \in Int /\ old[y] \in Int /\ new[y] = f[x][y] + old[y]
            BY <2>8
        <3> HIDE DEF old, new
        <3>2. SumFunctionOnSet(new, T) = SumFunctionOnSet(f[x], T) + SumFunctionOnSet(old, T)
            BY <3>1, SumPlus
        <3> QED  BY <3>2 DEF old, new
    <2>10. rows[x] = SumFunctionOnSet(f[x], T)
        BY <2>5
    <2>11. SumFunctionOnSet(rows, s) = SumFunctionOnSet(part(s), T)
        <3> HIDE DEF bad, part, u
        <3> QED  BY <2>4, <2>7, <2>9, <2>10
    <2> QED  BY <2>1, <2>11
<1>2. SumFunctionOnSet(rows, S) = SumFunctionOnSet(part(S), T)
    BY <1>1
<1>3. \A y \in T : part(S)[y] = cols[y]
    OBVIOUS
<1>4. SumFunctionOnSet(part(S), T) = SumFunctionOnSet(cols, T)
    <2> HIDE DEF part
    <2> QED  BY <1>3, SumAgrees
<1> QED  BY <1>2, <1>4

=============================================================================

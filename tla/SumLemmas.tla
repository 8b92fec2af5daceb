----------------------------- MODULE SumLemmas ------------------------------
(*************************************************************************)
(* Sums over finite sets, as SumFunctionOnSet of the Functions module    *)
(* defines them, and induction over a finite set.  Both rest on one      *)
(* argument: among the finite subsets for which something fails there is *)
(* a smallest one, because inclusion is well founded on them.            *)
(*************************************************************************)
EXTENDS Functions, FiniteSetTheorems, TLAPS

Pick(s) == CHOOSE x \in s : TRUE

SumsUp(f, S, g) ==
    g = [s \in SUBSET S |-> IF s = {} THEN 0
                            ELSE LET x == CHOOSE x \in s : TRUE
                                 IN f[x] + g[s \ {x}]]

(* Among finite sets that fail something there is a smallest.            *)
LEMMA SmallestBadSet ==
    ASSUME NEW S, NEW B, B \subseteq FiniteSubsetsOf(S), B # {}
    PROVE  \E U \in B : \A V \in B : V \subseteq U => V = U
<1>1. \E U \in B : \A V \in B : ~(<<V, U>> \in StrictSubsetOrdering(S))
  BY WFMin, FS_StrictSubsetOrderingWellFounded
<1>2. PICK U \in B : \A V \in B : ~(<<V, U>> \in StrictSubsetOrdering(S))
  BY <1>1
<1>3. \A V \in B : V \in SUBSET S
  BY DEF FiniteSubsetsOf
<1> QED
  BY <1>2, <1>3 DEF StrictSubsetOrdering

(* A sum is the value of one such function.                              *)
LEMMA SumUnfold ==
    ASSUME NEW f, NEW S
    PROVE  SumFunctionOnSet(f, S) = (CHOOSE g : SumsUp(f, S, g))[S]
BY DEF SumFunctionOnSet, FoldFunctionOnSet, MapThenFoldSet, SumsUp

(* Which takes an element out of its set.                                *)
LEMMA SumsUpStep ==
    ASSUME NEW f, NEW S, NEW g, SumsUp(f, S, g), NEW s \in SUBSET S
    PROVE  /\ s = {} => g[s] = 0
           /\ s # {} => Pick(s) \in s /\ g[s] = f[Pick(s)] + g[s \ {Pick(s)}]
BY DEF SumsUp, Pick

(* Two such functions agree on the finite sets they both know.             *)
LEMMA SumsAgree ==
    ASSUME NEW f, NEW S, NEW T, NEW g, NEW h,
           SumsUp(f, S, g), SumsUp(f, T, h),
           NEW s, IsFiniteSet(s), s \subseteq S, s \subseteq T
    PROVE  g[s] = h[s]
<1> DEFINE B == {t \in FiniteSubsetsOf(s) : g[t] # h[t]}
<1>1. SUFFICES ASSUME B # {} PROVE FALSE
  BY FS_FiniteSubsetsOfFinite DEF FiniteSubsetsOf
<1>2. PICK t \in B : \A u \in B : u \subseteq t => u = t
  <2>1. B \subseteq FiniteSubsetsOf(s)
    OBVIOUS
  <2> HIDE DEF B
  <2> QED
    BY <1>1, <2>1, SmallestBadSet
<1>3. t \in SUBSET s /\ g[t] # h[t] /\ IsFiniteSet(t)
  BY <1>2 DEF FiniteSubsetsOf
<1>4. t # {}
  BY <1>3, SumsUpStep
<1> DEFINE u == t \ {Pick(t)}
<1>5. Pick(t) \in t
  BY <1>4 DEF Pick
<1>6. u \in FiniteSubsetsOf(s) /\ u \subseteq t /\ u # t
  BY <1>3, <1>5, FS_Subset DEF FiniteSubsetsOf
<1>7. g[u] = h[u]
  BY <1>2, <1>6
<1>8. g[t] = f[Pick(t)] + g[u]
  BY <1>3, <1>4, SumsUpStep
<1>9. h[t] = f[Pick(t)] + h[u]
  BY <1>3, <1>4, SumsUpStep
<1> QED
  BY <1>3, <1>7, <1>8, <1>9

(* A sum restricted to fewer elements is a sum.                            *)
LEMMA SumsUpSubset ==
    ASSUME NEW f, NEW S, NEW g, SumsUp(f, S, g), NEW T, T \subseteq S
    PROVE  SumsUp(f, T, [s \in SUBSET T |-> g[s]])
BY DEF SumsUp

(* There is one for every finite set.                                      *)
LEMMA SumsExist ==
    ASSUME NEW f, NEW S, IsFiniteSet(S)
    PROVE  \E g : SumsUp(f, S, g)
<1> DEFINE B == {t \in FiniteSubsetsOf(S) : ~ \E g : SumsUp(f, t, g)}
           Val(t) == (CHOOSE g : SumsUp(f, t, g))[t]
<1>1. SUFFICES ASSUME B # {} PROVE FALSE
  BY FS_FiniteSubsetsOfFinite DEF FiniteSubsetsOf
<1>2. PICK t \in B : \A u \in B : u \subseteq t => u = t
  <2>1. B \subseteq FiniteSubsetsOf(S)
    OBVIOUS
  <2> HIDE DEF B
  <2> QED
    BY <1>1, <2>1, SmallestBadSet
<1>3. t \in SUBSET S /\ IsFiniteSet(t) /\ ~ \E g : SumsUp(f, t, g)
  BY <1>2 DEF FiniteSubsetsOf
<1>4. \A u : u \subseteq t /\ u # t => IsFiniteSet(u) /\ SumsUp(f, u, CHOOSE g : SumsUp(f, u, g))
  <2>1. SUFFICES ASSUME NEW u, u \subseteq t, u # t
                 PROVE  IsFiniteSet(u) /\ \E g : SumsUp(f, u, g)
    OBVIOUS
  <2>2. IsFiniteSet(u)
    BY <1>3, <2>1, FS_Subset
  <2>3. u \in FiniteSubsetsOf(S)
    BY <1>3, <2>1, <2>2 DEF FiniteSubsetsOf
  <2>4. u \notin B
    BY <1>2, <2>1
  <2> QED
    BY <2>2, <2>3, <2>4
<1>5. \A u : u \subseteq t /\ u # t =>
        /\ u = {} => Val(u) = 0
        /\ u # {} => Val(u) = f[Pick(u)] + Val(u \ {Pick(u)})
  <2>1. SUFFICES ASSUME NEW u, u \subseteq t, u # t
                 PROVE  /\ u = {} => Val(u) = 0
                        /\ u # {} => Val(u) = f[Pick(u)] + Val(u \ {Pick(u)})
    OBVIOUS
  <2> DEFINE g == CHOOSE g : SumsUp(f, u, g)
             w == u \ {Pick(u)}
             h == CHOOSE h : SumsUp(f, w, h)
  <2>2. SumsUp(f, u, g)
    BY <1>4, <2>1
  <2>3. u = {} => Val(u) = 0
    BY <2>2, SumsUpStep
  <2>4. ASSUME u # {} PROVE Val(u) = f[Pick(u)] + Val(w)
    <3>1. Pick(u) \in u /\ g[u] = f[Pick(u)] + g[w]
      BY <2>2, <2>4, SumsUpStep
    <3>2. w \subseteq t /\ w # t /\ w \subseteq u
      BY <2>1, <3>1
    <3>3. SumsUp(f, w, h) /\ IsFiniteSet(w)
      BY <1>4, <3>2
    <3>4. g[w] = h[w]
      <4> HIDE DEF g, h, w
      <4> QED
      BY <2>2, <3>2, <3>3, SumsAgree
    <3> QED
      BY <3>1, <3>4
  <2> QED
    BY <2>3, <2>4
<1> DEFINE g == [s \in SUBSET t |-> IF s = {} THEN 0
                                   ELSE f[Pick(s)] + Val(s \ {Pick(s)})]
<1>6. \A s \in SUBSET t : s # {} => g[s \ {Pick(s)}] = Val(s \ {Pick(s)})
  <2> SUFFICES ASSUME NEW s \in SUBSET t, s # {}
               PROVE  g[s \ {Pick(s)}] = Val(s \ {Pick(s)})
    OBVIOUS
  <2> DEFINE u == s \ {Pick(s)}
  <2>1. Pick(s) \in s
    BY DEF Pick
  <2>2. u \subseteq t /\ u # t
    BY <2>1
  <2> HIDE DEF Val
  <2> QED
    BY <1>5, <2>2
<1>7. SumsUp(f, t, g)
  <2>1. \A s \in SUBSET t :
          g[s] = IF s = {} THEN 0 ELSE f[Pick(s)] + g[s \ {Pick(s)}]
    <3> HIDE DEF Val
    <3> QED
      BY <1>6
  <2>2. g = [s \in SUBSET t |-> g[s]]
    OBVIOUS
  <2> HIDE DEF g
  <2> QED
    BY <2>1, <2>2 DEF SumsUp, Pick
<1> QED
  BY <1>3, <1>7

(* The sum over a finite set takes its elements one at a time.             *)
LEMMA SumPicks ==
    ASSUME NEW f, NEW S, IsFiniteSet(S)
    PROVE  /\ S = {} => SumFunctionOnSet(f, S) = 0
           /\ S # {} => SumFunctionOnSet(f, S) =
                          f[Pick(S)] + SumFunctionOnSet(f, S \ {Pick(S)})
<1> DEFINE T == S \ {Pick(S)}
           g == CHOOSE g : SumsUp(f, S, g)
           h == CHOOSE h : SumsUp(f, T, h)
<1>1. SumsUp(f, S, g) /\ IsFiniteSet(T) /\ SumsUp(f, T, h)
  BY SumsExist, FS_Subset
<1>2. g[T] = h[T]
  <2> HIDE DEF g, h
  <2> QED
    BY <1>1, SumsAgree
<1>3. SumFunctionOnSet(f, S) = g[S] /\ SumFunctionOnSet(f, T) = h[T]
  BY SumUnfold
<1> HIDE DEF g, h
<1> QED
  BY <1>1, <1>2, <1>3, SumsUpStep

(* A sum of integers is an integer, and any element can be taken out of it.*)
LEMMA SumWithout ==
    ASSUME NEW f, NEW S, IsFiniteSet(S), \A x \in S : f[x] \in Int
    PROVE  /\ SumFunctionOnSet(f, S) \in Int
           /\ \A x \in S : SumFunctionOnSet(f, S) =
                              f[x] + SumFunctionOnSet(f, S \ {x})
<1> DEFINE Good(t) == /\ SumFunctionOnSet(f, t) \in Int
                      /\ \A x \in t : SumFunctionOnSet(f, t) =
                                         f[x] + SumFunctionOnSet(f, t \ {x})
           B == {t \in FiniteSubsetsOf(S) : ~Good(t)}
<1>1. SUFFICES ASSUME B # {} PROVE FALSE
  <2> HIDE DEF Good
  <2>1. ~(B # {}) => Good(S)
    BY FS_FiniteSubsetsOfFinite
  <2> QED
    BY <2>1 DEF Good
<1>2. PICK t \in B : \A u \in B : u \subseteq t => u = t
  <2>1. B \subseteq FiniteSubsetsOf(S)
    OBVIOUS
  <2> HIDE DEF B
  <2> QED
    BY <1>1, <2>1, SmallestBadSet
<1>3. t \in SUBSET S /\ IsFiniteSet(t) /\ ~Good(t)
  BY <1>2 DEF FiniteSubsetsOf
<1>4. \A u : u \subseteq t /\ u # t => IsFiniteSet(u) /\ Good(u)
  <2> SUFFICES ASSUME NEW u, u \subseteq t, u # t
               PROVE  IsFiniteSet(u) /\ Good(u)
    OBVIOUS
  <2> HIDE DEF Good
  <2>1. IsFiniteSet(u)
    BY <1>3, FS_Subset
  <2> QED
    BY <1>2, <1>3, <2>1 DEF FiniteSubsetsOf
<1>5. t # {}
  <2>1. SUFFICES ASSUME t = {} PROVE Good(t)
    BY <1>3
  <2>2. SumFunctionOnSet(f, t) = 0
    BY <1>3, <2>1, SumPicks
  <2> QED
    BY <2>1, <2>2
<1> DEFINE p == Pick(t)
           u == t \ {p}
<1>6. p \in t /\ u \subseteq t /\ u # t /\ p \in S
  BY <1>3, <1>5 DEF Pick
<1>7. SumFunctionOnSet(f, t) = f[p] + SumFunctionOnSet(f, u)
  BY <1>3, <1>5, SumPicks
<1>8. SumFunctionOnSet(f, u) \in Int /\ f[p] \in Int
  BY <1>4, <1>6
<1>9. ASSUME NEW x \in t
      PROVE  SumFunctionOnSet(f, t) = f[x] + SumFunctionOnSet(f, t \ {x})
  <2>1. CASE x = p
    BY <1>7, <2>1
  <2>2. CASE x # p
    <3> DEFINE w == u \ {x}
               v == t \ {x}
    <3>1. x \in u /\ p \in v /\ v \subseteq t /\ v # t /\ w \subseteq t /\ w # t
      BY <1>6, <2>2
    <3>2. SumFunctionOnSet(f, u) = f[x] + SumFunctionOnSet(f, w)
      BY <1>4, <1>6, <3>1
    <3>3. v \ {p} = w
      OBVIOUS
    <3>4. SumFunctionOnSet(f, v) = f[p] + SumFunctionOnSet(f, w)
      BY <1>4, <3>1, <3>3
    <3>5. f[x] \in Int /\ SumFunctionOnSet(f, w) \in Int
      BY <1>3, <1>4, <3>1
    <3>6. SumFunctionOnSet(f, t) = f[x] + SumFunctionOnSet(f, v)
      <4> HIDE DEF u, v, w, p
      <4> QED
        BY <1>7, <1>8, <3>2, <3>4, <3>5, SMT
    <3> QED
      BY <3>6
  <2> QED
    BY <2>1, <2>2
<1>10. SumFunctionOnSet(f, t) \in Int
  BY <1>7, <1>8
<1>11. Good(t)
  BY <1>9, <1>10
<1> QED
  BY <1>3, <1>11

(* Induction over a finite set: what is true of the empty set, and of a    *)
(* set when it is true of the set without one element, is true of it.      *)
LEMMA SetInduction ==
    ASSUME NEW S, IsFiniteSet(S), NEW G, {} \in G,
           \A t \in SUBSET S : t # {} /\ t \ {Pick(t)} \in G => t \in G
    PROVE  S \in G
<1> DEFINE B == {t \in FiniteSubsetsOf(S) : t \notin G}
<1>1. SUFFICES ASSUME B # {} PROVE FALSE
  BY FS_FiniteSubsetsOfFinite DEF FiniteSubsetsOf
<1>2. PICK t \in B : \A u \in B : u \subseteq t => u = t
  <2>1. B \subseteq FiniteSubsetsOf(S)
    OBVIOUS
  <2> HIDE DEF B
  <2> QED
    BY <1>1, <2>1, SmallestBadSet
<1>3. t \in SUBSET S /\ IsFiniteSet(t) /\ t \notin G /\ t # {}
  BY <1>2 DEF FiniteSubsetsOf
<1> DEFINE u == t \ {Pick(t)}
<1>4. Pick(t) \in t
  BY <1>3 DEF Pick
<1>5. u \in FiniteSubsetsOf(S) /\ u \subseteq t /\ u # t
  BY <1>3, <1>4, FS_Subset DEF FiniteSubsetsOf
<1>6. u \in G
  BY <1>2, <1>5
<1> QED
  BY <1>3, <1>6

(* A sum looks at the elements of its set alone.                           *)
LEMMA SumCongruence ==
    ASSUME NEW f, NEW g, NEW S, IsFiniteSet(S), \A x \in S : f[x] = g[x]
    PROVE  SumFunctionOnSet(f, S) = SumFunctionOnSet(g, S)
<1> DEFINE G == {t \in SUBSET S : SumFunctionOnSet(f, t) = SumFunctionOnSet(g, t)}
<1>1. {} \in G
  BY SumPicks, FS_EmptySet
<1>2. ASSUME NEW t \in SUBSET S, t # {}, t \ {Pick(t)} \in G
      PROVE  t \in G
  <2>1. Pick(t) \in S /\ IsFiniteSet(t)
    BY <1>2, FS_Subset DEF Pick
  <2>2. f[Pick(t)] = g[Pick(t)]
    BY <2>1
  <2>3. /\ SumFunctionOnSet(f, t) = f[Pick(t)] + SumFunctionOnSet(f, t \ {Pick(t)})
        /\ SumFunctionOnSet(g, t) = g[Pick(t)] + SumFunctionOnSet(g, t \ {Pick(t)})
    BY <1>2, <2>1, SumPicks
  <2> QED
    BY <1>2, <2>2, <2>3
<1> HIDE DEF G
<1>3. S \in G
  BY <1>1, <1>2, SetInduction
<1> QED
  BY <1>3 DEF G

(* When one element changes, the sum changes by what that element did.     *)
LEMMA SumOneChanges ==
    ASSUME NEW f, NEW g, NEW S, IsFiniteSet(S), NEW x \in S,
           \A y \in S : f[y] \in Int /\ g[y] \in Int,
           \A y \in S \ {x} : f[y] = g[y]
    PROVE  /\ SumFunctionOnSet(f, S) \in Int /\ SumFunctionOnSet(g, S) \in Int
           /\ SumFunctionOnSet(g, S) = SumFunctionOnSet(f, S) - f[x] + g[x]
<1> DEFINE T == S \ {x}
<1>1. IsFiniteSet(T) /\ T \subseteq S
  BY FS_Subset
<1>2. SumFunctionOnSet(f, T) = SumFunctionOnSet(g, T)
  BY <1>1, SumCongruence
<1>3. SumFunctionOnSet(f, T) \in Int
  BY <1>1, SumWithout
<1>4. /\ SumFunctionOnSet(f, S) \in Int
      /\ SumFunctionOnSet(f, S) = f[x] + SumFunctionOnSet(f, T)
  BY SumWithout
<1>5. /\ SumFunctionOnSet(g, S) \in Int
      /\ SumFunctionOnSet(g, S) = g[x] + SumFunctionOnSet(g, T)
  BY SumWithout
<1> HIDE DEF T
<1> QED
  BY <1>2, <1>3, <1>4, <1>5

(* A sum grows with its elements.                                          *)
LEMMA SumMonotone ==
    ASSUME NEW f, NEW g, NEW S, IsFiniteSet(S),
           \A x \in S : f[x] \in Int /\ g[x] \in Int /\ f[x] <= g[x]
    PROVE  SumFunctionOnSet(f, S) <= SumFunctionOnSet(g, S)
<1> DEFINE G == {t \in SUBSET S : SumFunctionOnSet(f, t) <= SumFunctionOnSet(g, t)}
<1>1. {} \in G
  <2>1. SumFunctionOnSet(f, {}) = 0 /\ SumFunctionOnSet(g, {}) = 0
    BY SumPicks, FS_EmptySet
  <2> QED
    BY <2>1
<1>2. ASSUME NEW t \in SUBSET S, t # {}, t \ {Pick(t)} \in G
      PROVE  t \in G
  <2> DEFINE u == t \ {Pick(t)}
  <2>1. Pick(t) \in S /\ IsFiniteSet(t) /\ IsFiniteSet(u) /\ u \subseteq S
    BY <1>2, FS_Subset DEF Pick
  <2>2. f[Pick(t)] \in Int /\ g[Pick(t)] \in Int /\ f[Pick(t)] <= g[Pick(t)]
    BY <2>1
  <2>3. SumFunctionOnSet(f, u) \in Int /\ SumFunctionOnSet(g, u) \in Int
    BY <2>1, SumWithout
  <2>4. /\ SumFunctionOnSet(f, t) = f[Pick(t)] + SumFunctionOnSet(f, u)
        /\ SumFunctionOnSet(g, t) = g[Pick(t)] + SumFunctionOnSet(g, u)
    BY <1>2, <2>1, SumPicks
  <2>5. SumFunctionOnSet(f, u) <= SumFunctionOnSet(g, u)
    BY <1>2
  <2> HIDE DEF u
  <2>6. SumFunctionOnSet(f, t) <= SumFunctionOnSet(g, t)
    BY <2>2, <2>3, <2>4, <2>5
  <2> QED
    BY <2>6
<1> HIDE DEF G
<1>3. S \in G
  BY <1>1, <1>2, SetInduction
<1> QED
  BY <1>3 DEF G

(* A sum of nothing but zeros.                                             *)
LEMMA SumOfZeros ==
    ASSUME NEW f, NEW S, IsFiniteSet(S), \A x \in S : f[x] = 0
    PROVE  SumFunctionOnSet(f, S) = 0
<1> DEFINE G == {t \in SUBSET S : SumFunctionOnSet(f, t) = 0}
<1>1. {} \in G
  BY SumPicks, FS_EmptySet
<1>2. ASSUME NEW t \in SUBSET S, t # {}, t \ {Pick(t)} \in G
      PROVE  t \in G
  <2>1. Pick(t) \in S /\ IsFiniteSet(t)
    BY <1>2, FS_Subset DEF Pick
  <2>2. SumFunctionOnSet(f, t) = f[Pick(t)] + SumFunctionOnSet(f, t \ {Pick(t)})
    BY <1>2, <2>1, SumPicks
  <2> QED
    BY <1>2, <2>1, <2>2
<1> HIDE DEF G
<1>3. S \in G
  BY <1>1, <1>2, SetInduction
<1> QED
  BY <1>3 DEF G

(* No summand that is not negative exceeds a sum of such.                  *)
LEMMA SumBounds ==
    ASSUME NEW f, NEW S, IsFiniteSet(S), \A x \in S : f[x] \in Nat
    PROVE  /\ SumFunctionOnSet(f, S) \in Nat
           /\ \A x \in S : f[x] <= SumFunctionOnSet(f, S)
<1>1. ASSUME NEW T \in SUBSET S
      PROVE  SumFunctionOnSet(f, T) \in Nat
  <2> DEFINE z == [x \in T |-> 0]
  <2>1. IsFiniteSet(T)
    BY FS_Subset
  <2>2. SumFunctionOnSet(z, T) = 0
    BY <2>1, SumOfZeros
  <2>3. SumFunctionOnSet(z, T) <= SumFunctionOnSet(f, T)
    BY <2>1, SumMonotone
  <2>4. SumFunctionOnSet(f, T) \in Int
    BY <2>1, SumWithout
  <2> QED
    BY <2>2, <2>3, <2>4
<1>2. ASSUME NEW x \in S
      PROVE  f[x] <= SumFunctionOnSet(f, S)
  <2>1. SumFunctionOnSet(f, S) = f[x] + SumFunctionOnSet(f, S \ {x})
    BY SumWithout
  <2>2. SumFunctionOnSet(f, S \ {x}) \in Nat
    BY <1>1
  <2> QED
    BY <2>1, <2>2
<1> QED
  BY <1>1, <1>2

(* A finite set of integers that is not empty has a greatest element.      *)
LEMMA GreatestExists ==
    ASSUME NEW S \in SUBSET Int, IsFiniteSet(S), S # {}
    PROVE  \E m \in S : \A n \in S : n <= m
<1> DEFINE G == {t \in SUBSET S : t # {} => \E m \in t : \A n \in t : n <= m}
<1>1. {} \in G
  OBVIOUS
<1>2. ASSUME NEW t \in SUBSET S, t # {}, t \ {Pick(t)} \in G
      PROVE  t \in G
  <2>1. Pick(t) \in t /\ Pick(t) \in Int
    BY <1>2 DEF Pick
  <2>2. CASE t \ {Pick(t)} = {}
    <3>1. \A n \in t : n <= Pick(t)
      BY <2>1, <2>2
    <3> QED
      BY <2>1, <3>1
  <2>3. CASE t \ {Pick(t)} # {}
    <3>1. PICK m \in t \ {Pick(t)} : \A n \in t \ {Pick(t)} : n <= m
      BY <1>2, <2>3
    <3>2. m \in Int /\ m \in t
      BY <3>1
    <3>3. CASE m <= Pick(t)
      <4>1. ASSUME NEW n \in t PROVE n <= Pick(t)
        BY <2>1, <3>1, <3>2, <3>3
      <4> QED
        BY <2>1, <4>1
    <3>4. CASE ~(m <= Pick(t))
      <4>1. ASSUME NEW n \in t PROVE n <= m
        BY <2>1, <3>1, <3>2, <3>4
      <4> QED
        BY <3>2, <4>1
    <3> QED
      BY <3>3, <3>4
  <2> QED
    BY <2>2, <2>3
<1> HIDE DEF G
<1>3. S \in G
  BY <1>1, <1>2, SetInduction
<1> QED
  BY <1>3 DEF G
=============================================================================

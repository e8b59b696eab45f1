------------------------------- MODULE SumFacts -------------------------------
(***************************************************************************)
(* Facts about the sums of the community module Functions: what a sum over *)
(* a finite set is for every order in which its elements are taken.        *)
(***************************************************************************)
EXTENDS Integers, FiniteSets, Functions, FiniteSetTheorems, WellFoundedInduction, TLAPS

Chosen(S) == CHOOSE x \in S : TRUE

\* g is the function by which the fold computes the sums over the subsets of S.
Sums(g, f, S) ==
  g = [s \in SUBSET S |-> IF s = {} THEN 0 ELSE f[Chosen(s)] + g[s \ {Chosen(s)}]]

-----------------------------------------------------------------------------

\* A nonempty set of natural numbers has a least element.
LEMMA Least ==
  ASSUME NEW S, S \subseteq Nat, S # {}
  PROVE  \E x \in S : \A y \in S : x <= y
<1>1. PICK x \in S : \A y \in S : ~ (<<y, x>> \in OpToRel(<, Nat))
  BY NatLessThanWellFounded, WFMin
<1>2. \A y \in S : ~ (y < x)
  BY <1>1 DEF OpToRel
<1> QED
  BY <1>2

\* A nonempty set of subsets of a finite set has a member that contains no other.
LEMMA Smallest ==
  ASSUME NEW S, IsFiniteSet(S), NEW B, B \subseteq SUBSET S, B # {}
  PROVE  \E s \in B : \A t \in B : t \subseteq s => t = s
<1> DEFINE N == {Cardinality(s) : s \in B}
<1>1. \A s \in B : IsFiniteSet(s)
  BY FS_Subset
<1>2. N \subseteq Nat /\ N # {}
  BY <1>1, FS_CardinalityType
<1>3. PICK n \in N : \A m \in N : n <= m
  BY <1>2, Least
<1>4. PICK s \in B : Cardinality(s) = n
  OBVIOUS
<1>5. ASSUME NEW t \in B, t \subseteq s, t # s
      PROVE  FALSE
  <2>1. /\ Cardinality(t) <= Cardinality(s)
        /\ Cardinality(s) # Cardinality(t)
        /\ Cardinality(s) \in Nat
    BY <1>1, <1>5, FS_Subset, FS_CardinalityType
  <2>2. Cardinality(t) \in N /\ Cardinality(t) \in Nat /\ n \in Nat
    BY <1>2
  <2> QED
    BY <2>1, <2>2, <1>3, <1>4
<1> QED
  BY <1>5

\* The element the fold takes is one of the set.
LEMMA ChosenIn ==
  ASSUME NEW S, S # {}
  PROVE  Chosen(S) \in S
BY DEF Chosen

\* Two functions that compute sums agree wherever both are defined.
LEMMA SumsAgree ==
  ASSUME NEW f, NEW S, NEW T, IsFiniteSet(S), NEW g, NEW h, Sums(g, f, S), Sums(h, f, T)
  PROVE  \A s \in SUBSET (S \cap T) : g[s] = h[s]
<1> DEFINE B == {s \in SUBSET (S \cap T) : g[s] # h[s]}
<1>1. SUFFICES ASSUME B # {} PROVE FALSE
  OBVIOUS
<1>2. PICK s \in B : \A t \in B : t \subseteq s => t = s
  <2>1. B \subseteq SUBSET S
    OBVIOUS
  <2> HIDE DEF B
  <2> QED
    BY <1>1, <2>1, Smallest
<1>3. s \in SUBSET S /\ s \in SUBSET T
  OBVIOUS
<1>4. /\ g[s] = IF s = {} THEN 0 ELSE f[Chosen(s)] + g[s \ {Chosen(s)}]
      /\ h[s] = IF s = {} THEN 0 ELSE f[Chosen(s)] + h[s \ {Chosen(s)}]
  BY <1>3 DEF Sums
<1>5. s # {}
  BY <1>4
<1>6. s \ {Chosen(s)} # s /\ s \ {Chosen(s)} \subseteq s
  BY <1>5, ChosenIn
<1>7. s \ {Chosen(s)} \notin B
  BY <1>2, <1>6
<1>8. g[s \ {Chosen(s)}] = h[s \ {Chosen(s)}]
  BY <1>7, <1>3
<1> QED
  BY <1>4, <1>8

\* The sum as the definitions of the library have it.
LEMMA SumUnfolds ==
  ASSUME NEW f, NEW S
  PROVE  SumFunctionOnSet(f, S) = (CHOOSE g : Sums(g, f, S))[S]
BY DEF SumFunctionOnSet, FoldFunctionOnSet, MapThenFoldSet, Sums, Chosen

\* The fold's function exists over every finite set.
LEMMA SumsExist ==
  ASSUME NEW f, NEW S, IsFiniteSet(S)
  PROVE  \E g : Sums(g, f, S)
<1> DEFINE B == {s \in SUBSET S : ~ \E g : Sums(g, f, s)}
<1>1. SUFFICES ASSUME B # {} PROVE FALSE
  OBVIOUS
<1>2. PICK s \in B : \A t \in B : t \subseteq s => t = s
  <2>1. B \subseteq SUBSET S
    OBVIOUS
  <2> HIDE DEF B
  <2> QED
    BY <1>1, <2>1, Smallest
<1> DEFINE V(u) == SumFunctionOnSet(f, u)
           g == [u \in SUBSET s |-> IF u = {} THEN 0 ELSE f[Chosen(u)] + V(u \ {Chosen(u)})]
<1>3. \A u \in SUBSET s : u # s => \E h : Sums(h, f, u)
  BY <1>2
<1>4. ASSUME NEW u \in SUBSET s, u # s
      PROVE  V(u) = g[u]
  <2>1. PICK k : Sums(k, f, u) /\ V(u) = k[u]
    BY <1>3, <1>4, SumUnfolds
  <2>2. k[u] = IF u = {} THEN 0 ELSE f[Chosen(u)] + k[u \ {Chosen(u)}]
    <3>1. u \in SUBSET u
      OBVIOUS
    <3> HIDE DEF V
    <3> QED
      BY <2>1, <3>1 DEF Sums
  <2>3. CASE u = {}
    BY <2>1, <2>2, <2>3
  <2>4. CASE u # {}
    <3> DEFINE v == u \ {Chosen(u)}
    <3>1. v \in SUBSET s /\ v # s /\ v \subseteq u
      BY <1>4
    <3>2. PICK l : Sums(l, f, v) /\ V(v) = l[v]
      BY <1>3, <3>1, SumUnfolds
    <3>3. IsFiniteSet(v) /\ v \in SUBSET (v \cap u)
      <4>1. v \in SUBSET S
        BY <3>1
      <4> HIDE DEF v
      <4> QED
        BY <4>1, <3>1, FS_Subset
    <3>4. l[v] = k[v]
      <4> HIDE DEF v, V
      <4> QED
        BY <2>1, <3>2, <3>3, SumsAgree
    <3> QED
      BY <2>1, <2>2, <2>4, <3>2, <3>4
  <2> QED
    BY <2>3, <2>4
<1>5. \A u \in SUBSET s : u # {} => V(u \ {Chosen(u)}) = g[u \ {Chosen(u)}]
  <2> SUFFICES ASSUME NEW u \in SUBSET s, u # {}
               PROVE  V(u \ {Chosen(u)}) = g[u \ {Chosen(u)}]
    OBVIOUS
  <2>1. u \ {Chosen(u)} \in SUBSET s /\ u \ {Chosen(u)} # s
    BY ChosenIn
  <2> QED
    BY <2>1, <1>4
<1>6. Sums(g, f, s)
  <2> DEFINE k == [u \in SUBSET s |-> IF u = {} THEN 0 ELSE f[Chosen(u)] + g[u \ {Chosen(u)}]]
  <2>1. \A u \in SUBSET s : g[u] = k[u]
    BY <1>5
  <2>2. g = k
    BY <2>1
  <2> QED
    BY <2>2 DEF Sums
<1> QED
  BY <1>2, <1>6

\* The sum over a set is one of its values and the sum over the others.
LEMMA SumTakesChosen ==
  ASSUME NEW f, NEW S, IsFiniteSet(S)
  PROVE  /\ SumFunctionOnSet(f, {}) = 0
         /\ S # {} => SumFunctionOnSet(f, S)
                        = f[Chosen(S)] + SumFunctionOnSet(f, S \ {Chosen(S)})
<1>1. ASSUME NEW T, IsFiniteSet(T)
      PROVE  \E g : Sums(g, f, T) /\ SumFunctionOnSet(f, T) = g[T]
  BY <1>1, SumsExist, SumUnfolds
<1>2. SumFunctionOnSet(f, {}) = 0
  <2>1. PICK g : Sums(g, f, {}) /\ SumFunctionOnSet(f, {}) = g[{}]
    BY <1>1, FS_EmptySet
  <2> QED
    BY <2>1 DEF Sums
<1>3. ASSUME S # {}
      PROVE  SumFunctionOnSet(f, S) = f[Chosen(S)] + SumFunctionOnSet(f, S \ {Chosen(S)})
  <2> DEFINE T == S \ {Chosen(S)}
  <2>1. IsFiniteSet(T) /\ T \in SUBSET (S \cap T)
    BY FS_Subset
  <2>2. PICK g : Sums(g, f, S) /\ SumFunctionOnSet(f, S) = g[S]
    BY <1>1
  <2>3. PICK h : Sums(h, f, T) /\ SumFunctionOnSet(f, T) = h[T]
    BY <1>1, <2>1
  <2>4. g[T] = h[T]
    <3> HIDE DEF T
    <3> QED
      BY <2>1, <2>2, <2>3, SumsAgree
  <2>5. g[S] = f[Chosen(S)] + g[T]
    <3>1. S \in SUBSET S
      OBVIOUS
    <3> QED
      BY <1>3, <2>2, <3>1 DEF Sums
  <2> QED
    BY <2>2, <2>3, <2>4, <2>5
<1> QED
  BY <1>2, <1>3

\* A sum of natural numbers is one.
LEMMA SumType ==
  ASSUME NEW f, NEW S, IsFiniteSet(S), \A x \in S : f[x] \in Nat
  PROVE  SumFunctionOnSet(f, S) \in Nat
<1> DEFINE B == {s \in SUBSET S : SumFunctionOnSet(f, s) \notin Nat}
<1>1. SUFFICES ASSUME B # {} PROVE FALSE
  OBVIOUS
<1>2. PICK s \in B : \A t \in B : t \subseteq s => t = s
  <2>1. B \subseteq SUBSET S
    OBVIOUS
  <2> HIDE DEF B
  <2> QED
    BY <1>1, <2>1, Smallest
<1> DEFINE t == s \ {Chosen(s)}
<1>3. IsFiniteSet(s)
  BY FS_Subset
<1>4. s # {}
  <2>1. SumFunctionOnSet(f, {}) = 0
    BY <1>3, SumTakesChosen
  <2> QED
    BY <2>1
<1>5. t \notin B /\ t \in SUBSET S /\ f[Chosen(s)] \in Nat
  BY <1>2, <1>4, ChosenIn
<1>6. SumFunctionOnSet(f, t) \in Nat
  BY <1>5
<1>7. SumFunctionOnSet(f, s) = f[Chosen(s)] + SumFunctionOnSet(f, t)
  BY <1>3, <1>4, SumTakesChosen
<1> QED
  BY <1>5, <1>6, <1>7

\* Any value can be taken out of the sum, not only the one the fold takes.
LEMMA SumTakesAny ==
  ASSUME NEW f, NEW S, IsFiniteSet(S), \A x \in S : f[x] \in Nat, NEW x \in S
  PROVE  SumFunctionOnSet(f, S) = f[x] + SumFunctionOnSet(f, S \ {x})
<1> DEFINE Law(s) == \A y \in s : SumFunctionOnSet(f, s) = f[y] + SumFunctionOnSet(f, s \ {y})
           B == {s \in SUBSET S : ~ Law(s)}
<1>1. SUFFICES ASSUME B # {} PROVE FALSE
  <2>1. S \in SUBSET S
    OBVIOUS
  <2> QED
    BY <2>1
<1>2. PICK s \in B : \A t \in B : t \subseteq s => t = s
  <2>1. B \subseteq SUBSET S
    OBVIOUS
  <2> HIDE DEF B
  <2> QED
    BY <1>1, <2>1, Smallest
<1>3. PICK y \in s : SumFunctionOnSet(f, s) # f[y] + SumFunctionOnSet(f, s \ {y})
  BY <1>2
<1> DEFINE z == Chosen(s)
           rest == s \ {y, z}
<1>4. IsFiniteSet(s) /\ s # {} /\ z \in s
  BY FS_Subset, ChosenIn
<1>5. SumFunctionOnSet(f, s) = f[z] + SumFunctionOnSet(f, s \ {z})
  BY <1>4, SumTakesChosen
<1>6. y # z
  BY <1>3, <1>5
<1>7. Law(s \ {z}) /\ Law(s \ {y})
  <2>1. s \ {z} \in SUBSET S /\ s \ {z} # s /\ s \ {z} \subseteq s
    BY <1>4
  <2>2. s \ {y} \in SUBSET S /\ s \ {y} # s /\ s \ {y} \subseteq s
    BY <1>3
  <2> HIDE DEF Law, z
  <2> QED
    BY <1>2, <2>1, <2>2
<1>8. /\ SumFunctionOnSet(f, s \ {z}) = f[y] + SumFunctionOnSet(f, rest)
      /\ SumFunctionOnSet(f, s \ {y}) = f[z] + SumFunctionOnSet(f, rest)
  <2>1. y \in s \ {z} /\ z \in s \ {y}
    BY <1>4, <1>6
  <2>2. (s \ {z}) \ {y} = rest /\ (s \ {y}) \ {z} = rest
    OBVIOUS
  <2> HIDE DEF z, rest
  <2> QED
    BY <1>7, <2>1, <2>2
<1>9. f[y] \in Nat /\ f[z] \in Nat /\ SumFunctionOnSet(f, rest) \in Nat
  <2>1. IsFiniteSet(rest) /\ rest \subseteq S
    BY FS_Subset
  <2>2. y \in S /\ z \in S
    BY <1>4
  <2> QED
    BY <2>1, <2>2, SumType
<1> HIDE DEF z, rest, B
<1> QED
  BY <1>3, <1>5, <1>8, <1>9

\* The sum depends on the values over the set and on nothing else.
LEMMA SumOfSame ==
  ASSUME NEW f, NEW g, NEW S, IsFiniteSet(S), \A x \in S : f[x] = g[x]
  PROVE  SumFunctionOnSet(f, S) = SumFunctionOnSet(g, S)
<1> DEFINE B == {s \in SUBSET S : SumFunctionOnSet(f, s) # SumFunctionOnSet(g, s)}
<1>1. SUFFICES ASSUME B # {} PROVE FALSE
  OBVIOUS
<1>2. PICK s \in B : \A t \in B : t \subseteq s => t = s
  <2>1. B \subseteq SUBSET S
    OBVIOUS
  <2> HIDE DEF B
  <2> QED
    BY <1>1, <2>1, Smallest
<1> DEFINE t == s \ {Chosen(s)}
<1>3. IsFiniteSet(s)
  BY FS_Subset
<1>4. s # {}
  BY <1>3, SumTakesChosen
<1>5. t \notin B /\ t \in SUBSET S /\ f[Chosen(s)] = g[Chosen(s)]
  BY <1>2, <1>4, ChosenIn
<1>6. /\ SumFunctionOnSet(f, s) = f[Chosen(s)] + SumFunctionOnSet(f, t)
      /\ SumFunctionOnSet(g, s) = g[Chosen(s)] + SumFunctionOnSet(g, t)
  BY <1>3, <1>4, SumTakesChosen
<1> QED
  BY <1>5, <1>6

\* A sum of zeros is zero.
LEMMA SumOfZeros ==
  ASSUME NEW f, NEW S, IsFiniteSet(S), \A x \in S : f[x] = 0
  PROVE  SumFunctionOnSet(f, S) = 0
<1> DEFINE B == {s \in SUBSET S : SumFunctionOnSet(f, s) # 0}
<1>1. SUFFICES ASSUME B # {} PROVE FALSE
  OBVIOUS
<1>2. PICK s \in B : \A t \in B : t \subseteq s => t = s
  <2>1. B \subseteq SUBSET S
    OBVIOUS
  <2> HIDE DEF B
  <2> QED
    BY <1>1, <2>1, Smallest
<1> DEFINE t == s \ {Chosen(s)}
<1>3. IsFiniteSet(s)
  BY FS_Subset
<1>4. s # {}
  BY <1>3, SumTakesChosen
<1>5. t \notin B /\ t \in SUBSET S /\ f[Chosen(s)] = 0
  BY <1>2, <1>4, ChosenIn
<1>6. SumFunctionOnSet(f, s) = f[Chosen(s)] + SumFunctionOnSet(f, t)
  BY <1>3, <1>4, SumTakesChosen
<1> QED
  BY <1>5, <1>6

\* A sum grows with its values.
LEMMA SumGrows ==
  ASSUME NEW f, NEW g, NEW S, IsFiniteSet(S),
         \A x \in S : f[x] \in Nat /\ g[x] \in Nat /\ f[x] <= g[x]
  PROVE  SumFunctionOnSet(f, S) <= SumFunctionOnSet(g, S)
<1> DEFINE B == {s \in SUBSET S : ~ (SumFunctionOnSet(f, s) <= SumFunctionOnSet(g, s))}
<1>1. SUFFICES ASSUME B # {} PROVE FALSE
  OBVIOUS
<1>2. PICK s \in B : \A t \in B : t \subseteq s => t = s
  <2>1. B \subseteq SUBSET S
    OBVIOUS
  <2> HIDE DEF B
  <2> QED
    BY <1>1, <2>1, Smallest
<1> DEFINE t == s \ {Chosen(s)}
<1>3. IsFiniteSet(s)
  BY FS_Subset
<1>4. s # {}
  <2>1. SumFunctionOnSet(f, {}) = 0 /\ SumFunctionOnSet(g, {}) = 0
    BY <1>3, SumTakesChosen
  <2> QED
    BY <2>1
<1>5. /\ t \notin B /\ t \in SUBSET S /\ IsFiniteSet(t)
      /\ f[Chosen(s)] \in Nat /\ g[Chosen(s)] \in Nat /\ f[Chosen(s)] <= g[Chosen(s)]
  BY <1>2, <1>4, ChosenIn, FS_Subset
<1>6. /\ SumFunctionOnSet(f, s) = f[Chosen(s)] + SumFunctionOnSet(f, t)
      /\ SumFunctionOnSet(g, s) = g[Chosen(s)] + SumFunctionOnSet(g, t)
  BY <1>3, <1>4, SumTakesChosen
<1>7. SumFunctionOnSet(f, t) \in Nat /\ SumFunctionOnSet(g, t) \in Nat
  <2> HIDE DEF t
  <2> QED
    BY <1>5, SumType
<1>8. SumFunctionOnSet(f, t) <= SumFunctionOnSet(g, t)
  BY <1>5
<1>9. ~ (SumFunctionOnSet(f, s) <= SumFunctionOnSet(g, s))
  BY <1>2
<1> HIDE DEF t, B
<1> QED
  BY <1>5, <1>6, <1>7, <1>8, <1>9

\* A function that differs in one value has the sum that differs by it.
LEMMA SumOfChange ==
  ASSUME NEW f, NEW g, NEW S, IsFiniteSet(S),
         \A x \in S : f[x] \in Nat /\ g[x] \in Nat,
         NEW c \in S, \A x \in S \ {c} : g[x] = f[x]
  PROVE  SumFunctionOnSet(g, S) + f[c] = SumFunctionOnSet(f, S) + g[c]
<1> DEFINE T == S \ {c}
<1>1. IsFiniteSet(T)
  BY FS_Subset
<1>2. SumFunctionOnSet(f, T) = SumFunctionOnSet(g, T)
  <2> HIDE DEF T
  <2>1. \A x \in T : f[x] = g[x]
    BY DEF T
  <2> QED
    BY <1>1, <2>1, SumOfSame
<1>3. SumFunctionOnSet(f, T) \in Nat
  BY <1>1, SumType
<1>4. /\ SumFunctionOnSet(f, S) = f[c] + SumFunctionOnSet(f, T)
      /\ SumFunctionOnSet(g, S) = g[c] + SumFunctionOnSet(g, T)
  BY SumTakesAny
<1> HIDE DEF T
<1> QED
  BY <1>2, <1>3, <1>4

\* A sum over a part of a set is no greater than the sum over the set.
LEMMA SumOfPart ==
  ASSUME NEW f, NEW S, IsFiniteSet(S), \A x \in S : f[x] \in Nat, NEW T, T \subseteq S
  PROVE  SumFunctionOnSet(f, T) <= SumFunctionOnSet(f, S)
<1> DEFINE B == {s \in SUBSET S : T \subseteq s /\ ~ (SumFunctionOnSet(f, T) <= SumFunctionOnSet(f, s))}
<1>1. SUFFICES ASSUME B # {} PROVE FALSE
  OBVIOUS
<1>2. PICK s \in B : \A t \in B : t \subseteq s => t = s
  <2>1. B \subseteq SUBSET S
    OBVIOUS
  <2> HIDE DEF B
  <2> QED
    BY <1>1, <2>1, Smallest
<1>3. IsFiniteSet(s) /\ IsFiniteSet(T) /\ s \subseteq S /\ T \subseteq s
  BY FS_Subset
<1>4. SumFunctionOnSet(f, T) \in Nat
  BY <1>3, SumType
<1>5. s # T
  BY <1>4
<1>6. PICK x \in s : x \notin T
  BY <1>3, <1>5
<1>7. SumFunctionOnSet(f, s) = f[x] + SumFunctionOnSet(f, s \ {x})
  BY <1>3, <1>6, SumTakesAny
<1>8. SumFunctionOnSet(f, T) <= SumFunctionOnSet(f, s \ {x})
  <2>1. s \ {x} \notin B /\ s \ {x} \in SUBSET S /\ T \subseteq s \ {x}
    BY <1>2, <1>3, <1>6
  <2> QED
    BY <2>1
<1>9. f[x] \in Nat /\ SumFunctionOnSet(f, s \ {x}) \in Nat
  <2>1. IsFiniteSet(s \ {x}) /\ \A y \in s \ {x} : f[y] \in Nat
    BY <1>3, FS_Subset
  <2> QED
    BY <1>3, <2>1, SumType
<1>10. ~ (SumFunctionOnSet(f, T) <= SumFunctionOnSet(f, s))
  BY <1>2
<1> HIDE DEF B
<1> QED
  BY <1>4, <1>7, <1>8, <1>9, <1>10

\* A sum counts its positive values.
LEMMA SumCounts ==
  ASSUME NEW f, NEW S, IsFiniteSet(S), \A x \in S : f[x] \in Nat,
         NEW T, T \subseteq S, \A x \in T : f[x] > 0
  PROVE  Cardinality(T) <= SumFunctionOnSet(f, S)
<1> DEFINE B == {s \in SUBSET T : ~ (Cardinality(s) <= SumFunctionOnSet(f, s))}
<1>1. IsFiniteSet(T)
  BY FS_Subset
<1>2. Cardinality(T) <= SumFunctionOnSet(f, T)
  <2>1. SUFFICES ASSUME B # {} PROVE FALSE
    <3>1. T \in SUBSET T
      OBVIOUS
    <3> QED
      BY <3>1
  <2>2. PICK s \in B : \A t \in B : t \subseteq s => t = s
    <3>1. B \subseteq SUBSET T
      OBVIOUS
    <3> HIDE DEF B
    <3> QED
      BY <1>1, <2>1, <3>1, Smallest
  <2>3. IsFiniteSet(s)
    BY <1>1, FS_Subset
  <2>4. s # {}
    <3>1. Cardinality({}) = 0 /\ SumFunctionOnSet(f, {}) = 0
      BY <2>3, FS_EmptySet, SumTakesChosen
    <3> QED
      BY <3>1
  <2>5. PICK x \in s : TRUE
    BY <2>4
  <2> DEFINE t == s \ {x}
  <2>6. /\ IsFiniteSet(t) /\ Cardinality(t) = Cardinality(s) - 1
        /\ Cardinality(s) \in Nat
    BY <2>3, FS_RemoveElement, FS_CardinalityType
  <2>7. /\ \A y \in s : f[y] \in Nat
        /\ f[x] \in Nat /\ f[x] > 0
    OBVIOUS
  <2>8. SumFunctionOnSet(f, s) = f[x] + SumFunctionOnSet(f, t)
    BY <2>3, <2>7, SumTakesAny
  <2>9. SumFunctionOnSet(f, t) \in Nat
    BY <2>6, <2>7, SumType
  <2>10. Cardinality(t) <= SumFunctionOnSet(f, t)
    <3>1. t \notin B /\ t \in SUBSET T
      BY <2>2, <2>5
    <3> QED
      BY <3>1
  <2>11. ~ (Cardinality(s) <= SumFunctionOnSet(f, s))
    BY <2>2
  <2> HIDE DEF t, B
  <2> QED
    BY <2>6, <2>7, <2>8, <2>9, <2>10, <2>11
<1>3. SumFunctionOnSet(f, T) <= SumFunctionOnSet(f, S)
  BY SumOfPart
<1>4. /\ Cardinality(T) \in Nat /\ SumFunctionOnSet(f, T) \in Nat
      /\ SumFunctionOnSet(f, S) \in Nat
  BY <1>1, FS_CardinalityType, SumType
<1> HIDE DEF B
<1> QED
  BY <1>2, <1>3, <1>4

\* The sum of two functions is the sum of their sums.
LEMMA SumAdds ==
  ASSUME NEW f, NEW g, NEW h, NEW S, IsFiniteSet(S),
         \A x \in S : f[x] \in Nat /\ g[x] \in Nat /\ h[x] = f[x] + g[x]
  PROVE  SumFunctionOnSet(h, S) = SumFunctionOnSet(f, S) + SumFunctionOnSet(g, S)
<1> DEFINE Law(s) == SumFunctionOnSet(h, s) = SumFunctionOnSet(f, s) + SumFunctionOnSet(g, s)
           B == {s \in SUBSET S : ~ Law(s)}
<1>1. SUFFICES ASSUME B # {} PROVE FALSE
  <2>1. S \in SUBSET S
    OBVIOUS
  <2>2. Law(S) \/ S \in B
    <3> HIDE DEF Law
    <3> QED
      BY <2>1
  <2> QED
    BY <2>2
<1>2. PICK s \in B : \A t \in B : t \subseteq s => t = s
  <2>1. B \subseteq SUBSET S
    OBVIOUS
  <2> HIDE DEF B
  <2> QED
    BY <1>1, <2>1, Smallest
<1> DEFINE t == s \ {Chosen(s)}
<1>3. IsFiniteSet(s) /\ s \subseteq S
  BY FS_Subset
<1>4. s # {}
  <2>1. /\ SumFunctionOnSet(f, {}) = 0 /\ SumFunctionOnSet(g, {}) = 0
        /\ SumFunctionOnSet(h, {}) = 0
    BY <1>3, SumTakesChosen
  <2>2. Law({})
    BY <2>1
  <2>3. ~ Law(s)
    BY <1>2
  <2> HIDE DEF Law, B
  <2> QED
    BY <2>2, <2>3
<1>5. /\ t \notin B /\ t \in SUBSET S /\ IsFiniteSet(t) /\ Chosen(s) \in S
  BY <1>2, <1>3, <1>4, ChosenIn, FS_Subset
<1>6. /\ SumFunctionOnSet(f, s) = f[Chosen(s)] + SumFunctionOnSet(f, t)
      /\ SumFunctionOnSet(g, s) = g[Chosen(s)] + SumFunctionOnSet(g, t)
      /\ SumFunctionOnSet(h, s) = h[Chosen(s)] + SumFunctionOnSet(h, t)
  BY <1>3, <1>4, SumTakesChosen
<1>7. SumFunctionOnSet(f, t) \in Nat /\ SumFunctionOnSet(g, t) \in Nat
  <2> HIDE DEF t
  <2> QED
    BY <1>5, SumType
<1>8. Law(t) /\ ~ Law(s)
  BY <1>2, <1>5
<1>9. /\ h[Chosen(s)] = f[Chosen(s)] + g[Chosen(s)]
      /\ f[Chosen(s)] \in Nat /\ g[Chosen(s)] \in Nat
  BY <1>5
<1> HIDE DEF t, B
<1> QED
  BY <1>6, <1>7, <1>8, <1>9
=============================================================================

----------------------------- MODULE SumTheorems -----------------------------
(***************************************************************************)
(* What a sum over a finite set (SumFunctionOnSet of Functions) does when  *)
(* the set gains or loses an element, or the function changes at one       *)
(* point.  The charges of a host and the buffers of a receiver are such    *)
(* sums.                                                                   *)
(*                                                                         *)
(* The sum is defined by recursion over an arbitrary choice of elements.   *)
(* Every induction below is on the size of a set, as the absence of a      *)
(* least counterexample.                                                   *)
(***************************************************************************)
EXTENDS Integers, Functions, FiniteSetTheorems, WellFoundedInduction, TLAPS

\* A nonempty set of natural numbers has a least element.
LEMMA LeastNumber ==
  ASSUME NEW N \in SUBSET Nat, N # {}
  PROVE  \E m \in N : \A k \in N : m <= k
<1>1. PICK m \in N : \A k \in N : ~(<<k, m>> \in OpToRel(<, Nat))
  BY NatLessThanWellFounded, WFMin
<1>2. ASSUME NEW k \in N PROVE m <= k
  <2>1. ~(k < m)
    <3>1. <<k, m>> \in Nat \X Nat /\ <<k, m>>[1] = k /\ <<k, m>>[2] = m
      OBVIOUS
    <3>. QED
      BY <1>1, <3>1 DEF OpToRel
  <2>. QED
    BY <2>1
<1>. QED
  BY <1>2

Pick(s) == CHOOSE x \in s : TRUE

\* g adds f up over the subsets in D, as the recursion of the library does.
AddsUp(g, f, D) ==
  \A s \in D : g[s] = IF s = {} THEN 0 ELSE f[Pick(s)] + g[s \ {Pick(s)}]

NatOn(f, S) == \A x \in S : f[x] \in Nat

\* The element a set is reduced by is one of its own, and a smaller set is left.
LEMMA Reduced ==
  ASSUME NEW s, IsFiniteSet(s), s # {}
  PROVE  /\ Pick(s) \in s
         /\ IsFiniteSet(s \ {Pick(s)})
         /\ Cardinality(s) \in Nat /\ Cardinality(s \ {Pick(s)}) \in Nat
         /\ Cardinality(s \ {Pick(s)}) = Cardinality(s) - 1
<1>1. Pick(s) \in s
  BY DEF Pick
<1>2. IsFiniteSet(s \ {Pick(s)}) /\ Cardinality(s \ {Pick(s)}) = Cardinality(s) - 1
  BY <1>1, FS_RemoveElement
<1>. QED
  BY <1>1, <1>2, FS_CardinalityType

\* The subsets of at most n elements.
UpTo(S, n) == {s \in SUBSET S : Cardinality(s) <= n}

\* The function the recursion describes exists.
LEMMA AdderExists ==
  ASSUME NEW S, IsFiniteSet(S), NEW f, NatOn(f, S)
  PROVE  \E g \in [SUBSET S -> Nat] : AddsUp(g, f, SUBSET S)
<1>. DEFINE Works(n) == \E g \in [UpTo(S, n) -> Nat] : AddsUp(g, f, UpTo(S, n))
            Bad == {n \in Nat : ~Works(n)}
<1>0. \A s \in SUBSET S : IsFiniteSet(s) /\ Cardinality(s) \in Nat
  BY FS_Subset, FS_CardinalityType
<1>1. Works(0)
  <2>. DEFINE g == [s \in UpTo(S, 0) |-> 0]
  <2>1. \A s \in UpTo(S, 0) : s = {}
    BY <1>0, FS_EmptySet DEF UpTo
  <2>2. g \in [UpTo(S, 0) -> Nat] /\ AddsUp(g, f, UpTo(S, 0))
    BY <2>1 DEF AddsUp
  <2>. QED
    BY <2>2
<1>2. ASSUME NEW n \in Nat, Works(n) PROVE Works(n + 1)
  <2>1. PICK g \in [UpTo(S, n) -> Nat] : AddsUp(g, f, UpTo(S, n))
    BY <1>2
  <2>. DEFINE h == [s \in UpTo(S, n + 1) |->
                      IF s = {} THEN 0 ELSE f[Pick(s)] + g[s \ {Pick(s)}]]
  <2>2. ASSUME NEW s \in UpTo(S, n + 1), s # {}
        PROVE  s \ {Pick(s)} \in UpTo(S, n) /\ Pick(s) \in S
               /\ s \ {Pick(s)} \in UpTo(S, n + 1)
    <3>1. s \in SUBSET S /\ Cardinality(s) <= n + 1
      BY DEF UpTo
    <3>2. Pick(s) \in s /\ Cardinality(s) \in Nat
          /\ Cardinality(s \ {Pick(s)}) = Cardinality(s) - 1
      BY <1>0, <2>2, <3>1, Reduced
    <3>. QED
      BY <3>1, <3>2 DEF UpTo
  <2>3. h \in [UpTo(S, n + 1) -> Nat]
    <3>1. ASSUME NEW s \in UpTo(S, n + 1), s # {}
          PROVE  f[Pick(s)] + g[s \ {Pick(s)}] \in Nat
      BY <2>2, <3>1 DEF NatOn
    <3>. QED
      BY <3>1
  <2>4. \A s \in UpTo(S, n) : s \in UpTo(S, n + 1) /\ h[s] = g[s]
    <3>1. \A s \in UpTo(S, n) : s \in UpTo(S, n + 1)
      BY <1>0 DEF UpTo
    <3>. QED
      BY <2>1, <3>1 DEF AddsUp
  <2>5. AddsUp(h, f, UpTo(S, n + 1))
    <3>1. ASSUME NEW s \in UpTo(S, n + 1), s # {}
          PROVE  h[s] = f[Pick(s)] + h[s \ {Pick(s)}]
      BY <2>2, <2>4, <3>1
    <3>. QED
      BY <3>1 DEF AddsUp
  <2>. QED
    BY <2>3, <2>5
<1>. HIDE DEF Works
<1>3. Bad = {}
  <2>. SUFFICES ASSUME Bad # {} PROVE FALSE
    OBVIOUS
  <2>1. PICK m \in Bad : \A k \in Bad : m <= k
    BY LeastNumber
  <2>2. m \in Nat /\ m # 0
    BY <1>1
  <2>3. m - 1 \in Nat /\ m - 1 \notin Bad
    BY <2>1, <2>2
  <2>4. Works((m - 1) + 1)
    BY <1>2, <2>3
  <2>. QED
    BY <2>1, <2>2, <2>4
<1>4. Works(Cardinality(S))
  BY <1>0, <1>3
<1>5. UpTo(S, Cardinality(S)) = SUBSET S
  BY FS_Subset DEF UpTo
<1>. QED
  BY <1>4, <1>5 DEF Works

\* Two such functions agree where both are defined.
LEMMA AdderUnique ==
  ASSUME NEW T, NEW f, NEW g, NEW h, IsFiniteSet(T),
         AddsUp(g, f, SUBSET T), AddsUp(h, f, SUBSET T)
  PROVE  g[T] = h[T]
<1>. DEFINE Bad == {n \in Nat : \E s \in SUBSET T : Cardinality(s) = n /\ g[s] # h[s]}
<1>. SUFFICES ASSUME g[T] # h[T] PROVE FALSE
  OBVIOUS
<1>0. \A s \in SUBSET T : IsFiniteSet(s) /\ Cardinality(s) \in Nat
  BY FS_Subset, FS_CardinalityType
<1>1. Bad # {}
  BY <1>0
<1>2. PICK m \in Bad : \A k \in Bad : m <= k
  BY <1>1, LeastNumber
<1>3. PICK s \in SUBSET T : Cardinality(s) = m /\ g[s] # h[s]
  OBVIOUS
<1>4. s # {}
  BY <1>3 DEF AddsUp
<1>5. /\ s \ {Pick(s)} \in SUBSET T
      /\ Cardinality(s \ {Pick(s)}) = m - 1 /\ m - 1 \in Nat
  BY <1>0, <1>3, <1>4, Reduced
<1>6. g[s \ {Pick(s)}] = h[s \ {Pick(s)}]
  BY <1>2, <1>5
<1>. QED
  BY <1>3, <1>4, <1>6 DEF AddsUp

\* The library's sum is the value of such a function.
LEMMA SumIsAdded ==
  ASSUME NEW S, IsFiniteSet(S), NEW f, NatOn(f, S)
  PROVE  \E g \in [SUBSET S -> Nat] :
           AddsUp(g, f, SUBSET S) /\ SumFunctionOnSet(f, S) = g[S]
<1>. DEFINE Is(k) == k = [s \in SUBSET S |->
                            IF s = {} THEN 0 ELSE f[Pick(s)] + k[s \ {Pick(s)}]]
<1>1. PICK g : g \in [SUBSET S -> Nat] /\ AddsUp(g, f, SUBSET S)
  BY AdderExists
<1>2. Is(g)
  BY <1>1 DEF AddsUp
<1>3. SumFunctionOnSet(f, S) = (CHOOSE h : Is(h))[S]
  BY DEF SumFunctionOnSet, FoldFunctionOnSet, MapThenFoldSet, Pick
<1>4. PICK c : c = (CHOOSE h : Is(h)) /\ Is(c)
  BY <1>2
<1>5. AddsUp(c, f, SUBSET S)
  BY <1>4 DEF AddsUp
<1>6. c[S] = g[S]
  BY <1>1, <1>5, AdderUnique
<1>. QED
  BY <1>1, <1>3, <1>4, <1>6

Sum(f, S) == SumFunctionOnSet(f, S)

\* A sum of natural numbers is one; nothing adds up to zero.
LEMMA SumType ==
  ASSUME NEW S, NEW f, IsFiniteSet(S), NatOn(f, S)
  PROVE  Sum(f, S) \in Nat
<1>1. IsFiniteSet(S) /\ NatOn(f, S)
  OBVIOUS
<1>2. PICK g : g \in [SUBSET S -> Nat] /\ SumFunctionOnSet(f, S) = g[S]
  BY <1>1, SumIsAdded
<1>. QED
  BY <1>2 DEF Sum

LEMMA SumEmpty ==
  ASSUME NEW f
  PROVE  Sum(f, {}) = 0
<1>1. IsFiniteSet({}) /\ NatOn(f, {})
  BY FS_EmptySet DEF NatOn
<1>2. PICK g : AddsUp(g, f, SUBSET {}) /\ SumFunctionOnSet(f, {}) = g[{}]
  BY <1>1, SumIsAdded
<1>. QED
  BY <1>2 DEF AddsUp, Sum

\* The recursion, unfolded once.
LEMMA SumPick ==
  ASSUME NEW S, NEW f, IsFiniteSet(S), NatOn(f, S), S # {}
  PROVE  /\ Pick(S) \in S
         /\ Sum(f, S) = f[Pick(S)] + Sum(f, S \ {Pick(S)})
<1>. DEFINE T == S \ {Pick(S)}
<1>0. IsFiniteSet(S) /\ NatOn(f, S)
  OBVIOUS
<1>1. Pick(S) \in S /\ IsFiniteSet(T)
  BY <1>0, Reduced
<1>2. NatOn(f, T) /\ T \subseteq S
  BY DEF NatOn
<1>3. PICK g : AddsUp(g, f, SUBSET S) /\ SumFunctionOnSet(f, S) = g[S]
  BY <1>0, SumIsAdded
<1>4. PICK h : AddsUp(h, f, SUBSET T) /\ SumFunctionOnSet(f, T) = h[T]
  BY <1>1, <1>2, SumIsAdded
<1>5. g[T] = h[T]
  <2>1. AddsUp(g, f, SUBSET T)
    BY <1>2, <1>3 DEF AddsUp
  <2>. HIDE DEF T
  <2>. QED
    BY <1>1, <1>4, <2>1, AdderUnique
<1>6. g[S] = f[Pick(S)] + g[T]
  BY <1>3 DEF AddsUp
<1>. QED
  BY <1>1, <1>3, <1>4, <1>5, <1>6 DEF Sum

\* Any element can be counted first.
LEMMA SumRemove ==
  ASSUME NEW S, NEW f, NEW x, IsFiniteSet(S), NatOn(f, S), x \in S
  PROVE  Sum(f, S) = f[x] + Sum(f, S \ {x})
<1>. DEFINE Wrong(s, y) == Sum(f, s) # f[y] + Sum(f, s \ {y})
            Bad == {n \in Nat : \E s \in SUBSET S : \E y \in s :
                                  Cardinality(s) = n /\ Wrong(s, y)}
<1>0. \A s \in SUBSET S : /\ IsFiniteSet(s) /\ Cardinality(s) \in Nat
                          /\ NatOn(f, s) /\ Sum(f, s) \in Nat
  <2>1. ASSUME NEW s \in SUBSET S
        PROVE  IsFiniteSet(s) /\ Cardinality(s) \in Nat /\ NatOn(f, s)
    BY FS_Subset, FS_CardinalityType DEF NatOn
  <2>. QED
    BY <2>1, SumType
<1>. SUFFICES ASSUME Wrong(S, x) PROVE FALSE
  OBVIOUS
<1>1. Bad # {}
  BY <1>0
<1>2. PICK m \in Bad : \A k \in Bad : m <= k
  BY <1>1, LeastNumber
<1>. PICK s \in SUBSET S : \E y \in s : Cardinality(s) = m /\ Wrong(s, y)
  OBVIOUS
<1>3. PICK y \in s : Cardinality(s) = m /\ Wrong(s, y)
  OBVIOUS
<1>. DEFINE p == Pick(s)
<1>4. p \in s /\ Sum(f, s) = f[p] + Sum(f, s \ {p})
  BY <1>0, SumPick
<1>5. p # y
  BY <1>3, <1>4
<1>6. ASSUME NEW z \in s, NEW w \in s, z # w
      PROVE  Sum(f, s \ {z}) = f[w] + Sum(f, (s \ {z}) \ {w})
  <2>1. Cardinality(s \ {z}) = m - 1 /\ m - 1 \in Nat
    BY <1>0, <1>3, FS_RemoveElement, FS_CardinalityType
  <2>2. s \ {z} \in SUBSET S /\ w \in s \ {z}
    BY <1>6
  <2>3. m - 1 \notin Bad
    BY <1>2, <2>1
  <2>4. ~Wrong(s \ {z}, w)
    BY <2>1, <2>2, <2>3
  <2>. QED
    BY <2>4
<1>7. (s \ {p}) \ {y} = (s \ {y}) \ {p}
  OBVIOUS
<1>8. f[p] \in Nat /\ f[y] \in Nat /\ Sum(f, (s \ {p}) \ {y}) \in Nat
  <2>1. (s \ {p}) \ {y} \in SUBSET S
    OBVIOUS
  <2>. QED
    BY <1>0, <1>4, <2>1 DEF NatOn
<1>9. /\ Sum(f, s \ {p}) = f[y] + Sum(f, (s \ {p}) \ {y})
      /\ Sum(f, s \ {y}) = f[p] + Sum(f, (s \ {p}) \ {y})
  BY <1>4, <1>5, <1>6, <1>7
<1>. QED
  BY <1>3, <1>4, <1>8, <1>9

\* What an element adds.
LEMMA SumInsert ==
  ASSUME NEW S, NEW f, NEW x, IsFiniteSet(S), NatOn(f, S), f[x] \in Nat, x \notin S
  PROVE  Sum(f, S \cup {x}) = Sum(f, S) + f[x]
<1>1. IsFiniteSet(S \cup {x}) /\ NatOn(f, S \cup {x})
  BY FS_AddElement DEF NatOn
<1>2. (S \cup {x}) \ {x} = S
  OBVIOUS
<1>3. Sum(f, S) \in Nat
  BY SumType
<1>. QED
  BY <1>1, <1>2, <1>3, SumRemove

\* A sum over more elements is no smaller.
LEMMA SumMonotone ==
  ASSUME NEW S, NEW T, NEW f, IsFiniteSet(S), NatOn(f, S), T \subseteq S
  PROVE  Sum(f, T) <= Sum(f, S)
<1>. DEFINE Bad == {n \in Nat : \E s \in SUBSET S : \E t \in SUBSET s :
                      Cardinality(s) = n /\ ~(Sum(f, t) <= Sum(f, s))}
<1>0. \A s \in SUBSET S : /\ IsFiniteSet(s) /\ Cardinality(s) \in Nat
                          /\ NatOn(f, s) /\ Sum(f, s) \in Nat
  <2>1. ASSUME NEW s \in SUBSET S
        PROVE  IsFiniteSet(s) /\ Cardinality(s) \in Nat /\ NatOn(f, s)
    BY FS_Subset, FS_CardinalityType DEF NatOn
  <2>. QED
    BY <2>1, SumType
<1>. SUFFICES ASSUME ~(Sum(f, T) <= Sum(f, S)) PROVE FALSE
  OBVIOUS
<1>1. Bad # {}
  BY <1>0
<1>2. PICK m \in Bad : \A k \in Bad : m <= k
  BY <1>1, LeastNumber
<1>. PICK s \in SUBSET S : \E t \in SUBSET s :
        Cardinality(s) = m /\ ~(Sum(f, t) <= Sum(f, s))
  OBVIOUS
<1>3. PICK t \in SUBSET s : Cardinality(s) = m /\ ~(Sum(f, t) <= Sum(f, s))
  OBVIOUS
<1>4. Sum(f, s) \in Nat /\ s # t
  BY <1>0, <1>3
<1>5. PICK x \in s : x \notin t
  BY <1>4
<1>6. Cardinality(s \ {x}) = m - 1 /\ m - 1 \in Nat
  <2>1. IsFiniteSet(s) /\ x \in s /\ Cardinality(s) = m
    BY <1>0, <1>3
  <2>2. IsFiniteSet(s \ {x}) /\ Cardinality(s \ {x}) = Cardinality(s) - 1
    BY <2>1, FS_RemoveElement
  <2>. QED
    BY <2>1, <2>2, FS_CardinalityType
<1>7. s \ {x} \in SUBSET S /\ t \in SUBSET (s \ {x}) /\ t \in SUBSET S
  BY <1>5
<1>8. Sum(f, t) <= Sum(f, s \ {x})
  <2>1. m - 1 \notin Bad
    BY <1>2, <1>6
  <2>. QED
    BY <1>6, <1>7, <2>1
<1>9. Sum(f, s) = f[x] + Sum(f, s \ {x})
  BY <1>0, SumRemove
<1>10. f[x] \in Nat /\ Sum(f, s \ {x}) \in Nat /\ Sum(f, t) \in Nat
  BY <1>0, <1>7 DEF NatOn
<1>. QED
  BY <1>3, <1>8, <1>9, <1>10

\* A sum depends on the values of its elements only.
LEMMA SumSame ==
  ASSUME NEW S, NEW f, NEW g, IsFiniteSet(S), NatOn(f, S),
         \A x \in S : g[x] = f[x]
  PROVE  Sum(g, S) = Sum(f, S)
<1>. DEFINE Bad == {n \in Nat : \E s \in SUBSET S :
                      Cardinality(s) = n /\ Sum(g, s) # Sum(f, s)}
<1>0. \A s \in SUBSET S : /\ IsFiniteSet(s) /\ Cardinality(s) \in Nat
                          /\ NatOn(f, s) /\ NatOn(g, s)
  BY FS_Subset, FS_CardinalityType DEF NatOn
<1>. SUFFICES ASSUME Sum(g, S) # Sum(f, S) PROVE FALSE
  OBVIOUS
<1>1. Bad # {}
  BY <1>0
<1>2. PICK m \in Bad : \A k \in Bad : m <= k
  BY <1>1, LeastNumber
<1>3. PICK s \in SUBSET S : Cardinality(s) = m /\ Sum(g, s) # Sum(f, s)
  OBVIOUS
<1>4. s # {}
  BY <1>3, SumEmpty
<1>. DEFINE p == Pick(s)
<1>5. p \in s /\ Cardinality(s \ {p}) = m - 1 /\ m - 1 \in Nat
  BY <1>0, <1>3, <1>4, Reduced
<1>6. /\ Sum(f, s) = f[p] + Sum(f, s \ {p})
      /\ Sum(g, s) = g[p] + Sum(g, s \ {p})
  BY <1>0, <1>4, SumPick
<1>7. Sum(g, s \ {p}) = Sum(f, s \ {p})
  BY <1>2, <1>5
<1>. QED
  BY <1>3, <1>5, <1>6, <1>7

\* What a change at one point does to a sum.
LEMMA SumChange ==
  ASSUME NEW S, NEW f, NEW g, NEW x, IsFiniteSet(S), NatOn(f, S), NatOn(g, S),
         x \in S, \A y \in S \ {x} : g[y] = f[y]
  PROVE  Sum(g, S) = Sum(f, S) - f[x] + g[x]
<1>1. IsFiniteSet(S) /\ IsFiniteSet(S \ {x})
  BY FS_Subset
<1>2. NatOn(f, S \ {x})
  BY DEF NatOn
<1>3. Sum(g, S \ {x}) = Sum(f, S \ {x})
  BY <1>1, <1>2, SumSame
<1>4. /\ Sum(f, S) = f[x] + Sum(f, S \ {x})
      /\ Sum(g, S) = g[x] + Sum(g, S \ {x})
  BY <1>1, SumRemove
<1>5. f[x] \in Nat /\ g[x] \in Nat /\ Sum(f, S \ {x}) \in Nat
  BY <1>1, <1>2, SumType DEF NatOn
<1>. QED
  BY <1>3, <1>4, <1>5
=============================================================================

---------------------------- MODULE LedgerProofs ----------------------------
(* Lemmas the proofs about several contracts share: ids that are handed out  *)
(* in order, and sums over finite sets.                                      *)
EXTENDS Integers, Functions, FiniteSetTheorems, TLAPS

\* A set of ids that has, with an id, all smaller ones is a prefix of the ids: its
\* cardinality can stand for the contract's counter.
LEMMA IdsInOrder ==
    ASSUME NEW limit \in Nat, NEW taken \in SUBSET (1..limit),
           \A p \in taken : \A q \in 1..p : q \in taken
    PROVE  Cardinality(taken) \in Nat /\ taken = 1..Cardinality(taken)
<1> DEFINE n == Cardinality(taken)
<1>1. IsFiniteSet(1..limit)
  BY FS_Interval
<1>2. IsFiniteSet(taken) /\ n \in Nat
  BY <1>1, FS_Subset, FS_CardinalityType
<1>3. ASSUME NEW p \in taken, ~(p <= n) PROVE FALSE
  <2>1. p \in Nat
    OBVIOUS
  <2>2. 1..p \subseteq taken /\ Cardinality(1..p) = p
    BY <2>1, <1>3, <1>2, FS_Interval
  <2>3. p <= n
    BY <2>2, <1>2, FS_Subset
  <2> QED
    BY <2>3, <1>3
<1>4. ASSUME NEW q \in 1..n, q \notin taken PROVE FALSE
  <2>1. q \in Nat /\ q - 1 \in Int /\ q <= n /\ q >= 1
    BY <1>2
  <2>2. ASSUME NEW p \in taken PROVE p \in 1 .. q - 1
    <3>1. p \in Nat /\ p >= 1
      OBVIOUS
    <3>2. ~(q <= p)
      BY <1>4, <3>1, <2>1
    <3> QED
      BY <3>1, <3>2, <2>1
  <2>3. taken \subseteq 1 .. q - 1 /\ IsFiniteSet(1 .. q - 1) /\ Cardinality(1 .. q - 1) = q - 1
    BY <2>1, <2>2, FS_Interval
  <2>4. n <= q - 1
    BY <2>3, FS_Subset
  <2> QED
    BY <2>1, <2>4, <1>2
<1>5. taken \subseteq 1..n
  BY <1>2, <1>3
<1> QED
  BY <1>2, <1>4, <1>5

-----------------------------------------------------------------------------

\* Induction over the subsets of a finite set: where a claim fails, it fails for
\* a set whose strict subsets it holds for.
LEMMA LeastCounterexample ==
    ASSUME NEW S, IsFiniteSet(S), NEW Bad \in SUBSET (SUBSET S), Bad # {}
    PROVE  \E s \in Bad : \A t \in SUBSET s : t # s => t \notin Bad
<1>1. IsWellFoundedOn(StrictSubsetOrdering(S), SUBSET S)
  BY FS_StrictSubsetOrderingWellFounded, FS_FiniteSubsetsOfFinite
<1>2. PICK s \in Bad : \A t \in Bad : <<t, s>> \notin StrictSubsetOrdering(S)
  <2>1. Bad \subseteq SUBSET S
    OBVIOUS
  <2> QED
    BY <1>1, <2>1, WFMin
<1>3. ASSUME NEW t \in SUBSET s, t # s, t \in Bad PROVE FALSE
  BY <1>2, <1>3 DEF StrictSubsetOrdering
<1> QED
  BY <1>2, <1>3

\* The element the sums take first.
Chosen(s) == CHOOSE x \in s : TRUE

\* g computes the sums of f over the subsets of S.
SumsUp(g, f, S) ==
    g = [s \in SUBSET S |-> IF s = {} THEN 0 ELSE f[Chosen(s)] + g[s \ {Chosen(s)}]]

\* The sum is the recursion of SumsUp, at the whole set.
LEMMA SumUnfolds ==
    ASSUME NEW f, NEW S
    PROVE  SumFunctionOnSet(f, S) = (CHOOSE g : SumsUp(g, f, S))[S]
BY DEF SumFunctionOnSet, FoldFunctionOnSet, MapThenFoldSet, SumsUp, Chosen

\* Two computations of the sums agree where both are defined.
LEMMA SumsUnique ==
    ASSUME NEW f, NEW S, IsFiniteSet(S), NEW T, T \subseteq S,
           NEW g, SumsUp(g, f, S), NEW h, SumsUp(h, f, T)
    PROVE  \A s \in SUBSET T : g[s] = h[s]
<1> DEFINE Bad == {s \in SUBSET T : g[s] # h[s]}
<1>1. SUFFICES ASSUME Bad # {} PROVE FALSE
  OBVIOUS
<1>2. IsFiniteSet(T)
  BY FS_Subset
<1>3. PICK s \in Bad : \A t \in SUBSET s : t # s => t \notin Bad
  <2>1. Bad \in SUBSET (SUBSET T)
    OBVIOUS
  <2> HIDE DEF Bad
  <2> QED
    BY <1>1, <1>2, <2>1, LeastCounterexample
<1>4. s \in SUBSET T /\ s \in SUBSET S /\ g[s] # h[s]
  BY <1>3
<1>5. CASE s = {}
  BY <1>4, <1>5 DEF SumsUp
<1>6. CASE s # {}
  <2> DEFINE x == Chosen(s)
  <2>1. x \in s
    BY <1>6 DEF Chosen
  <2>2. s \ {x} \in SUBSET s /\ s \ {x} # s /\ s \ {x} \in SUBSET T
    BY <2>1, <1>4
  <2>3. g[s \ {x}] = h[s \ {x}]
    BY <2>2, <1>3
  <2>4. g[s] = f[x] + g[s \ {x}] /\ h[s] = f[x] + h[s \ {x}]
    <3> HIDE DEF x
    <3>1. g[s] = f[Chosen(s)] + g[s \ {Chosen(s)}]
      BY <1>4, <1>6 DEF SumsUp
    <3>2. h[s] = f[Chosen(s)] + h[s \ {Chosen(s)}]
      BY <1>4, <1>6 DEF SumsUp
    <3> QED
      BY <3>1, <3>2 DEF x
  <2> QED
    BY <2>3, <2>4, <1>4
<1> QED
  BY <1>5, <1>6

\* The recursion has a solution over every finite set.
LEMMA SumsExist ==
    ASSUME NEW f, NEW S, IsFiniteSet(S)
    PROVE  \E g : SumsUp(g, f, S)
<1> DEFINE Bad == {s \in SUBSET S : ~\E g : SumsUp(g, f, s)}
<1>1. SUFFICES ASSUME Bad # {} PROVE FALSE
  OBVIOUS
<1>2. PICK T \in Bad : \A t \in SUBSET T : t # T => t \notin Bad
  <2>1. Bad \in SUBSET (SUBSET S)
    OBVIOUS
  <2> HIDE DEF Bad
  <2> QED
    BY <1>1, <2>1, LeastCounterexample
<1>3. T \in SUBSET S /\ IsFiniteSet(T) /\ ~\E g : SumsUp(g, f, T)
  BY <1>2, FS_Subset
<1>4. \A t \in SUBSET T : t # T => \E g : SumsUp(g, f, t)
  BY <1>2, <1>3
<1> DEFINE G(t) == CHOOSE g : SumsUp(g, f, t)
           h == [s \in SUBSET T |-> IF s = {} THEN 0
                    ELSE f[Chosen(s)] + G(s \ {Chosen(s)})[s \ {Chosen(s)}]]
<1>5. \A t \in SUBSET T : t # T => SumsUp(G(t), f, t)
  BY <1>4
<1> HIDE DEF G
<1>6. ASSUME NEW s \in SUBSET T, s # T PROVE h[s] = G(s)[s]
  <2>1. SumsUp(G(s), f, s)
    BY <1>5, <1>6
  <2>2. CASE s = {}
    BY <2>1, <2>2 DEF SumsUp
  <2>3. CASE s # {}
    <3> DEFINE r == s \ {Chosen(s)}
    <3>1. Chosen(s) \in s
      BY <2>3 DEF Chosen
    <3>2. r \subseteq s /\ r \in SUBSET T /\ r # T /\ IsFiniteSet(s)
      BY <3>1, <1>6, <1>3, FS_Subset
    <3>3. SumsUp(G(r), f, r)
      BY <3>2, <1>5
    <3> HIDE DEF r
    <3>4. G(s)[r] = G(r)[r]
      BY <2>1, <3>2, <3>3, SumsUnique
    <3>5. G(s)[s] = f[Chosen(s)] + G(s)[r]
      BY <2>1, <2>3 DEF SumsUp, r
    <3>6. h[s] = f[Chosen(s)] + G(r)[r]
      BY <2>3 DEF r
    <3> QED
      BY <3>4, <3>5, <3>6
  <2> QED
    BY <2>2, <2>3
<1>7. ASSUME NEW s \in SUBSET T, s # {}
      PROVE  h[s] = f[Chosen(s)] + h[s \ {Chosen(s)}]
  <2>1. Chosen(s) \in s
    BY <1>7 DEF Chosen
  <2>2. s \ {Chosen(s)} \in SUBSET T /\ s \ {Chosen(s)} # T
    BY <2>1
  <2>3. h[s \ {Chosen(s)}] = G(s \ {Chosen(s)})[s \ {Chosen(s)}]
    BY <2>2, <1>6
  <2>4. h[s] = f[Chosen(s)] + G(s \ {Chosen(s)})[s \ {Chosen(s)}]
    BY <1>7
  <2> QED
    BY <2>3, <2>4
<1>8. h = [s \in SUBSET T |-> IF s = {} THEN 0 ELSE f[Chosen(s)] + h[s \ {Chosen(s)}]]
  <2>1. h = [s \in SUBSET T |-> h[s]]
    OBVIOUS
  <2>2. \A s \in SUBSET T : s = {} => h[s] = 0
    OBVIOUS
  <2> HIDE DEF h
  <2> QED
    BY <2>1, <2>2, <1>7
<1>9. SumsUp(h, f, T)
  BY <1>8 DEF SumsUp
<1> QED
  BY <1>9, <1>3

\* The empty sum.
LEMMA SumOfNone == ASSUME NEW f PROVE SumFunctionOnSet(f, {}) = 0
<1>1. PICK g : SumsUp(g, f, {})
  BY SumsExist, FS_EmptySet
<1> DEFINE c == CHOOSE h : SumsUp(h, f, {})
<1>2. SumsUp(c, f, {})
  BY <1>1
<1> HIDE DEF c
<1>3. c[{}] = 0
  BY <1>2 DEF SumsUp
<1> QED
  BY <1>3, SumUnfolds DEF c

\* The recursion's step.
LEMMA SumOfChosen ==
    ASSUME NEW f, NEW S, IsFiniteSet(S), S # {}
    PROVE  /\ Chosen(S) \in S
           /\ SumFunctionOnSet(f, S) = f[Chosen(S)] + SumFunctionOnSet(f, S \ {Chosen(S)})
<1>1. Chosen(S) \in S
  BY DEF Chosen
<1> DEFINE T == S \ {Chosen(S)}
           g == CHOOSE h : SumsUp(h, f, S)
           r == CHOOSE h : SumsUp(h, f, T)
<1>2. IsFiniteSet(T)
  BY FS_Subset
<1>3. SumsUp(g, f, S) /\ SumsUp(r, f, T)
  BY <1>2, SumsExist
<1>4. SumFunctionOnSet(f, S) = g[S] /\ SumFunctionOnSet(f, T) = r[T]
  BY SumUnfolds
<1> HIDE DEF g, r
<1>5. g[T] = r[T]
  <2>1. T \subseteq S /\ T \in SUBSET T
    OBVIOUS
  <2> HIDE DEF T
  <2> QED
    BY <2>1, <1>3, SumsUnique
<1>6. g[S] = f[Chosen(S)] + g[T]
  BY <1>3 DEF SumsUp
<1> QED
  BY <1>1, <1>4, <1>5, <1>6

\* A sum of integers is one, of naturals too.
LEMMA SumIsInt ==
    ASSUME NEW S, IsFiniteSet(S), NEW f, \A x \in S : f[x] \in Int
    PROVE  SumFunctionOnSet(f, S) \in Int
<1> DEFINE Bad == {s \in SUBSET S : SumFunctionOnSet(f, s) \notin Int}
<1>1. SUFFICES ASSUME Bad # {} PROVE FALSE
  OBVIOUS
<1>2. PICK s \in Bad : \A t \in SUBSET s : t # s => t \notin Bad
  <2>1. Bad \in SUBSET (SUBSET S)
    OBVIOUS
  <2> HIDE DEF Bad
  <2> QED
    BY <1>1, <2>1, LeastCounterexample
<1>3. s \in SUBSET S /\ SumFunctionOnSet(f, s) \notin Int
  BY <1>2
<1>4. \A t \in SUBSET s : t # s => SumFunctionOnSet(f, t) \in Int
  BY <1>2, <1>3
<1>5. s # {}
  BY <1>3, SumOfNone
<1>6. /\ Chosen(s) \in s
      /\ SumFunctionOnSet(f, s) = f[Chosen(s)] + SumFunctionOnSet(f, s \ {Chosen(s)})
  BY <1>3, <1>5, FS_Subset, SumOfChosen
<1>7. SumFunctionOnSet(f, s \ {Chosen(s)}) \in Int
  BY <1>4, <1>6
<1> QED
  BY <1>3, <1>6, <1>7

\* Any member can be taken out of a sum.
LEMMA SumOfMember ==
    ASSUME NEW S, IsFiniteSet(S), NEW f, \A x \in S : f[x] \in Int, NEW x \in S
    PROVE  SumFunctionOnSet(f, S) = f[x] + SumFunctionOnSet(f, S \ {x})
<1> DEFINE Splits(s) == \A y \in s : SumFunctionOnSet(f, s) = f[y] + SumFunctionOnSet(f, s \ {y})
           Bad == {s \in SUBSET S : ~Splits(s)}
<1>1. SUFFICES ASSUME Bad # {} PROVE FALSE
  OBVIOUS
<1>2. PICK s \in Bad : \A t \in SUBSET s : t # s => t \notin Bad
  <2>1. Bad \in SUBSET (SUBSET S)
    OBVIOUS
  <2> HIDE DEF Bad
  <2> QED
    BY <1>1, <2>1, LeastCounterexample
<1>3. s \in SUBSET S /\ ~Splits(s)
  BY <1>2
<1>4. \A t \in SUBSET s : t # s => Splits(t)
  BY <1>2, <1>3
<1>5. PICK y \in s : SumFunctionOnSet(f, s) # f[y] + SumFunctionOnSet(f, s \ {y})
  BY <1>3
<1> DEFINE c == Chosen(s)
<1>6. c \in s /\ SumFunctionOnSet(f, s) = f[c] + SumFunctionOnSet(f, s \ {c})
  BY <1>3, FS_Subset, SumOfChosen
<1> HIDE DEF c
<1>7. c # y
  BY <1>5, <1>6
<1> DEFINE rest == s \ {c, y}
<1>8. SumFunctionOnSet(f, s \ {c}) = f[y] + SumFunctionOnSet(f, rest)
  <2>1. s \ {c} \in SUBSET s /\ s \ {c} # s /\ y \in s \ {c} /\ (s \ {c}) \ {y} = rest
    BY <1>6, <1>7
  <2>2. Splits(s \ {c})
    BY <2>1, <1>4
  <2> QED
    BY <2>1, <2>2
<1>9. SumFunctionOnSet(f, s \ {y}) = f[c] + SumFunctionOnSet(f, rest)
  <2>1. s \ {y} \in SUBSET s /\ s \ {y} # s /\ c \in s \ {y} /\ (s \ {y}) \ {c} = rest
    BY <1>6, <1>7
  <2>2. Splits(s \ {y})
    BY <2>1, <1>4
  <2> QED
    BY <2>1, <2>2
<1>10. f[c] \in Int /\ f[y] \in Int /\ SumFunctionOnSet(f, rest) \in Int
  <2>1. rest \subseteq S /\ IsFiniteSet(rest)
    BY <1>3, FS_Subset
  <2> QED
    BY <2>1, <1>3, <1>6, SumIsInt
<1> HIDE DEF rest
<1> QED
  BY <1>5, <1>6, <1>8, <1>9, <1>10

\* Sums over one set are compared member by member.
LEMMA SumCompares ==
    ASSUME NEW S, IsFiniteSet(S), NEW f, NEW g,
           \A x \in S : f[x] \in Int /\ g[x] \in Int /\ f[x] <= g[x]
    PROVE  SumFunctionOnSet(f, S) <= SumFunctionOnSet(g, S)
<1> DEFINE Bad == {s \in SUBSET S : ~(SumFunctionOnSet(f, s) <= SumFunctionOnSet(g, s))}
<1>1. SUFFICES ASSUME Bad # {} PROVE FALSE
  OBVIOUS
<1>2. PICK s \in Bad : \A t \in SUBSET s : t # s => t \notin Bad
  <2>1. Bad \in SUBSET (SUBSET S)
    OBVIOUS
  <2> HIDE DEF Bad
  <2> QED
    BY <1>1, <2>1, LeastCounterexample
<1>3. s \in SUBSET S /\ ~(SumFunctionOnSet(f, s) <= SumFunctionOnSet(g, s)) /\ IsFiniteSet(s)
  BY <1>2, FS_Subset
<1>4. s # {}
  BY <1>3, SumOfNone
<1> DEFINE t == s \ {Chosen(s)}
<1>5. /\ Chosen(s) \in s /\ t \in SUBSET s /\ t # s /\ IsFiniteSet(t)
      /\ SumFunctionOnSet(f, s) = f[Chosen(s)] + SumFunctionOnSet(f, t)
      /\ SumFunctionOnSet(g, s) = g[Chosen(s)] + SumFunctionOnSet(g, t)
  BY <1>3, <1>4, SumOfChosen, FS_Subset
<1> HIDE DEF t
<1>6. SumFunctionOnSet(f, t) <= SumFunctionOnSet(g, t)
  BY <1>2, <1>3, <1>5
<1>7. SumFunctionOnSet(f, t) \in Int /\ SumFunctionOnSet(g, t) \in Int
  BY <1>3, <1>5, SumIsInt
<1> QED
  BY <1>3, <1>5, <1>6, <1>7

\* A sum depends only on the values of the function on the set.
LEMMA SumAgrees ==
    ASSUME NEW S, IsFiniteSet(S), NEW f, NEW g,
           \A x \in S : f[x] \in Int /\ f[x] = g[x]
    PROVE  SumFunctionOnSet(f, S) = SumFunctionOnSet(g, S)
<1>1. /\ SumFunctionOnSet(f, S) <= SumFunctionOnSet(g, S)
      /\ SumFunctionOnSet(g, S) <= SumFunctionOnSet(f, S)
  BY SumCompares
<1>2. SumFunctionOnSet(f, S) \in Int /\ SumFunctionOnSet(g, S) \in Int
  BY SumIsInt
<1> QED
  BY <1>1, <1>2

\* The sum of naturals is one, and no member exceeds it.
LEMMA SumIsNat ==
    ASSUME NEW S, IsFiniteSet(S), NEW f, \A x \in S : f[x] \in Nat
    PROVE  /\ SumFunctionOnSet(f, S) \in Nat
           /\ \A x \in S : f[x] <= SumFunctionOnSet(f, S)
<1> DEFINE zero == [x \in S |-> 0]
<1>1. ASSUME NEW T \in SUBSET S
      PROVE  SumFunctionOnSet(f, T) \in Nat
  <2> DEFINE Bad == {s \in SUBSET S : SumFunctionOnSet(f, s) \notin Nat}
  <2>1. SUFFICES ASSUME Bad # {} PROVE FALSE
    OBVIOUS
  <2>2. PICK s \in Bad : \A t \in SUBSET s : t # s => t \notin Bad
    <3>1. Bad \in SUBSET (SUBSET S)
      OBVIOUS
    <3> HIDE DEF Bad
    <3> QED
      BY <2>1, <3>1, LeastCounterexample
  <2>3. s \in SUBSET S /\ SumFunctionOnSet(f, s) \notin Nat /\ IsFiniteSet(s)
    BY <2>2, FS_Subset
  <2>4. s # {}
    BY <2>3, SumOfNone
  <2>5. /\ Chosen(s) \in s
        /\ SumFunctionOnSet(f, s) = f[Chosen(s)] + SumFunctionOnSet(f, s \ {Chosen(s)})
    BY <2>3, <2>4, SumOfChosen
  <2>6. SumFunctionOnSet(f, s \ {Chosen(s)}) \in Nat
    BY <2>2, <2>3, <2>5
  <2> QED
    BY <2>3, <2>5, <2>6
<1>2. ASSUME NEW x \in S PROVE f[x] <= SumFunctionOnSet(f, S)
  <2>1. SumFunctionOnSet(f, S) = f[x] + SumFunctionOnSet(f, S \ {x})
    BY SumOfMember
  <2>2. SumFunctionOnSet(f, S \ {x}) \in Nat
    BY <1>1
  <2> QED
    BY <2>1, <2>2
<1> QED
  BY <1>1, <1>2

\* A sum changes by what one member changes by.
LEMMA SumOfChange ==
    ASSUME NEW S, IsFiniteSet(S), NEW f, NEW g, NEW x \in S,
           \A y \in S : f[y] \in Int, g[x] \in Int,
           \A y \in S : y # x => g[y] = f[y]
    PROVE  SumFunctionOnSet(g, S) = SumFunctionOnSet(f, S) - f[x] + g[x]
<1>1. IsFiniteSet(S \ {x}) /\ \A y \in S : g[y] \in Int
  BY FS_Subset
<1>2. SumFunctionOnSet(f, S \ {x}) = SumFunctionOnSet(g, S \ {x})
  BY <1>1, SumAgrees
<1>3. /\ SumFunctionOnSet(f, S) = f[x] + SumFunctionOnSet(f, S \ {x})
      /\ SumFunctionOnSet(g, S) = g[x] + SumFunctionOnSet(g, S \ {x})
  BY <1>1, SumOfMember
<1>4. SumFunctionOnSet(f, S \ {x}) \in Int
  BY <1>1, SumIsInt
<1> QED
  BY <1>1, <1>2, <1>3, <1>4

\* A sum over a set with one more member.
LEMMA SumWithOneMore ==
    ASSUME NEW S, IsFiniteSet(S), NEW f, NEW x, x \notin S,
           \A y \in S \cup {x} : f[y] \in Int
    PROVE  SumFunctionOnSet(f, S \cup {x}) = SumFunctionOnSet(f, S) + f[x]
<1>1. IsFiniteSet(S \cup {x}) /\ (S \cup {x}) \ {x} = S
  BY FS_AddElement
<1>2. SumFunctionOnSet(f, S \cup {x}) = f[x] + SumFunctionOnSet(f, S)
  BY <1>1, SumOfMember
<1>3. SumFunctionOnSet(f, S) \in Int
  BY SumIsInt
<1> QED
  BY <1>2, <1>3

\* Zeros add nothing.
LEMMA SumOfZeros ==
    ASSUME NEW S, IsFiniteSet(S), NEW f, \A x \in S : f[x] = 0
    PROVE  SumFunctionOnSet(f, S) = 0
<1> DEFINE Bad == {s \in SUBSET S : SumFunctionOnSet(f, s) # 0}
<1>1. SUFFICES ASSUME Bad # {} PROVE FALSE
  OBVIOUS
<1>2. PICK s \in Bad : \A t \in SUBSET s : t # s => t \notin Bad
  <2>1. Bad \in SUBSET (SUBSET S)
    OBVIOUS
  <2> HIDE DEF Bad
  <2> QED
    BY <1>1, <2>1, LeastCounterexample
<1>3. s \in SUBSET S /\ SumFunctionOnSet(f, s) # 0 /\ IsFiniteSet(s)
  BY <1>2, FS_Subset
<1>4. /\ Chosen(s) \in s
      /\ SumFunctionOnSet(f, s) = f[Chosen(s)] + SumFunctionOnSet(f, s \ {Chosen(s)})
  BY <1>3, SumOfNone, SumOfChosen
<1>5. SumFunctionOnSet(f, s \ {Chosen(s)}) = 0
  BY <1>2, <1>3, <1>4
<1> QED
  BY <1>3, <1>4, <1>5

\* Sums are linear: of f + k * g.
LEMMA SumIsLinear ==
    ASSUME NEW S, IsFiniteSet(S), NEW f, NEW g, NEW h, NEW k \in Int,
           \A x \in S : f[x] \in Int /\ g[x] \in Int /\ h[x] = f[x] + k * g[x]
    PROVE  SumFunctionOnSet(h, S) = SumFunctionOnSet(f, S) + k * SumFunctionOnSet(g, S)
<1> DEFINE Linear(s) == SumFunctionOnSet(h, s)
                          = SumFunctionOnSet(f, s) + k * SumFunctionOnSet(g, s)
           Bad == {s \in SUBSET S : ~Linear(s)}
<1>1. SUFFICES ASSUME Bad # {} PROVE FALSE
  OBVIOUS
<1>2. PICK s \in Bad : \A t \in SUBSET s : t # s => t \notin Bad
  <2>1. Bad \in SUBSET (SUBSET S)
    OBVIOUS
  <2> HIDE DEF Bad
  <2> QED
    BY <1>1, <2>1, LeastCounterexample
<1>3. s \in SUBSET S /\ ~Linear(s) /\ IsFiniteSet(s)
  BY <1>2, FS_Subset
<1>4. s # {}
  BY <1>3, SumOfNone
<1> DEFINE c == Chosen(s)
           t == s \ {c}
<1>5. /\ c \in s /\ t \in SUBSET s /\ t # s /\ IsFiniteSet(t)
      /\ SumFunctionOnSet(f, s) = f[c] + SumFunctionOnSet(f, t)
      /\ SumFunctionOnSet(g, s) = g[c] + SumFunctionOnSet(g, t)
      /\ SumFunctionOnSet(h, s) = h[c] + SumFunctionOnSet(h, t)
  BY <1>3, <1>4, SumOfChosen, FS_Subset
<1> HIDE DEF c, t
<1>6. Linear(t)
  BY <1>2, <1>3, <1>5
<1>7. /\ SumFunctionOnSet(f, t) \in Int /\ SumFunctionOnSet(g, t) \in Int
      /\ f[c] \in Int /\ g[c] \in Int /\ h[c] = f[c] + k * g[c]
  BY <1>3, <1>5, SumIsInt
<1> DEFINE a == SumFunctionOnSet(f, t)
           b == SumFunctionOnSet(g, t)
<1>8. f[c] + k * g[c] + (a + k * b) = (f[c] + a) + k * (g[c] + b)
  <2> HIDE DEF a, b
  <2>1. \A p, q, m, n \in Int : p + k * q + (m + k * n) = (p + m) + k * (q + n)
    OBVIOUS
  <2> QED
    BY <2>1, <1>7 DEF a, b
<1> QED
  BY <1>3, <1>5, <1>6, <1>7, <1>8

\* The sum over two disjoint sets is the sum of their sums.
LEMMA SumOfUnion ==
    ASSUME NEW S, IsFiniteSet(S), NEW R, IsFiniteSet(R), S \cap R = {},
           NEW f, \A x \in S \cup R : f[x] \in Int
    PROVE  SumFunctionOnSet(f, S \cup R) = SumFunctionOnSet(f, S) + SumFunctionOnSet(f, R)
<1> DEFINE Adds(r) == SumFunctionOnSet(f, S \cup r)
                        = SumFunctionOnSet(f, S) + SumFunctionOnSet(f, r)
           Bad == {r \in SUBSET R : ~Adds(r)}
<1>1. SUFFICES ASSUME Bad # {} PROVE FALSE
  OBVIOUS
<1>2. PICK r \in Bad : \A t \in SUBSET r : t # r => t \notin Bad
  <2>1. Bad \in SUBSET (SUBSET R)
    OBVIOUS
  <2> HIDE DEF Bad
  <2> QED
    BY <1>1, <2>1, LeastCounterexample
<1>3. r \in SUBSET R /\ ~Adds(r) /\ IsFiniteSet(r)
  BY <1>2, FS_Subset
<1>4. SumFunctionOnSet(f, S) \in Int
  BY SumIsInt
<1>5. r # {}
  <2>1. S \cup {} = S
    OBVIOUS
  <2>2. SumFunctionOnSet(f, S \cup {}) = SumFunctionOnSet(f, S) + SumFunctionOnSet(f, {})
    BY <2>1, <1>4, SumOfNone
  <2> QED
    BY <2>2, <1>3
<1> DEFINE c == Chosen(r)
           t == r \ {c}
<1>6. /\ c \in r /\ t \in SUBSET r /\ t # r /\ IsFiniteSet(t)
      /\ SumFunctionOnSet(f, r) = f[c] + SumFunctionOnSet(f, t)
  BY <1>3, <1>5, SumOfChosen, FS_Subset
<1> HIDE DEF c
<1>7. Adds(t)
  <2> HIDE DEF t, Adds
  <2> QED
    BY <1>2, <1>3, <1>6
<1>8. SumFunctionOnSet(f, S \cup r) = f[c] + SumFunctionOnSet(f, S \cup t)
  <2>1. IsFiniteSet(S \cup r)
    BY <1>3, FS_Union
  <2>2. c \in S \cup r /\ (S \cup r) \ {c} = S \cup t /\ \A x \in S \cup r : f[x] \in Int
    BY <1>3, <1>6
  <2> HIDE DEF t
  <2> QED
    BY <2>1, <2>2, SumOfMember
<1>9. SumFunctionOnSet(f, t) \in Int /\ f[c] \in Int
  BY <1>3, <1>6, SumIsInt
<1> QED
  BY <1>3, <1>4, <1>6, <1>7, <1>8, <1>9

\* A sum of naturals over a part is no larger, and no smaller when the rest is zero.
LEMMA SumOfPart ==
    ASSUME NEW S, IsFiniteSet(S), NEW T \in SUBSET S, NEW f, \A x \in S : f[x] \in Nat
    PROVE  /\ SumFunctionOnSet(f, T) <= SumFunctionOnSet(f, S)
           /\ (\A x \in S \ T : f[x] = 0) => SumFunctionOnSet(f, T) = SumFunctionOnSet(f, S)
<1>1. IsFiniteSet(T) /\ IsFiniteSet(S \ T) /\ T \cup (S \ T) = S /\ T \cap (S \ T) = {}
  BY FS_Subset
<1>2. SumFunctionOnSet(f, T \cup (S \ T)) = SumFunctionOnSet(f, T) + SumFunctionOnSet(f, S \ T)
  BY <1>1, SumOfUnion
<1>3. SumFunctionOnSet(f, T) \in Nat /\ SumFunctionOnSet(f, S \ T) \in Nat
  BY <1>1, SumIsNat
<1>4. (\A x \in S \ T : f[x] = 0) => SumFunctionOnSet(f, S \ T) = 0
  BY <1>1, SumOfZeros
<1>5. SumFunctionOnSet(f, S) = SumFunctionOnSet(f, T) + SumFunctionOnSet(f, S \ T)
  BY <1>1, <1>2
<1> QED
  BY <1>3, <1>4, <1>5

\* A set of numbers that is not empty has a least one.
LEMMA LeastNumber ==
    ASSUME NEW Bad \in SUBSET Nat, Bad # {}
    PROVE  \E n \in Bad : \A m \in Bad : n <= m
<1>1. IsWellFoundedOn(OpToRel(<, Nat), Nat) /\ Bad \subseteq Nat
  BY NatLessThanWellFounded
<1>2. PICK n \in Bad : \A m \in Bad : <<m, n>> \notin OpToRel(<, Nat)
  BY <1>1, WFMin
<1>3. ASSUME NEW m \in Bad, ~(n <= m) PROVE FALSE
  <2>1. m \in Nat /\ n \in Nat /\ m < n
    BY <1>3
  <2> QED
    BY <2>1, <1>2 DEF OpToRel
<1> QED
  BY <1>3

\* One entry of a book changes: the sum by as much.
LEMMA SumOfUpdate ==
    ASSUME NEW S, IsFiniteSet(S), NEW f \in [S -> Nat], NEW x \in S, NEW n \in Nat,
           NEW g, g[x] = n, \A y \in S : y # x => g[y] = f[y]
    PROVE  /\ SumFunctionOnSet(g, S) = SumFunctionOnSet(f, S) - f[x] + n
           /\ SumFunctionOnSet(g, S) \in Nat
           /\ SumFunctionOnSet(f, S) \in Nat /\ f[x] <= SumFunctionOnSet(f, S)
<1>1. \A y \in S : f[y] \in Nat /\ f[y] \in Int
  OBVIOUS
<1>2. g[x] \in Int /\ \A y \in S : g[y] \in Nat
  OBVIOUS
<1>3. SumFunctionOnSet(g, S) = SumFunctionOnSet(f, S) - f[x] + g[x]
  BY <1>1, <1>2, SumOfChange
<1> QED
  BY <1>1, <1>2, <1>3, SumIsNat

\* Division by a positive number rounds down, by less than one.
LEMMA QuotientRounds ==
    ASSUME NEW p \in Nat, NEW k \in Nat \ {0}
    PROVE  p \div k \in Nat /\ (p \div k) * k <= p /\ p < (p \div k) * k + k
OBVIOUS

\* A part of p, in proportion n of k, is at most p, and nothing of nothing.
LEMMA PartOfWhole ==
    ASSUME NEW p \in Nat, NEW k \in Nat \ {0}, NEW n \in 0..k
    PROVE  /\ (p * n) \div k \in 0..p
           /\ ((p * n) \div k) * k <= p * n
           /\ p = 0 => (p * n) \div k = 0
<1> DEFINE pn == p * n
           q == pn \div k
<1>1. pn \in Nat /\ pn <= p * k
  OBVIOUS
<1> HIDE DEF pn
<1>2. q \in Nat /\ q * k <= pn
  BY <1>1, QuotientRounds
<1> HIDE DEF q
<1>3. q <= p
  <2>1. CASE q >= p + 1
    <3>1. q * k >= (p + 1) * k /\ (p + 1) * k = p * k + k
      BY <1>2, <2>1
    <3>2. q * k \in Int /\ p * k \in Int
      BY <1>2
    <3> QED
      BY <1>1, <1>2, <3>1, <3>2
  <2> QED
    BY <1>2, <2>1
<1> QED
  BY <1>2, <1>3 DEF q, pn

\* Where each value, times k, is covered, so is the sum.
LEMMA SumScaled ==
    ASSUME NEW S, IsFiniteSet(S), NEW f, NEW g, NEW k \in Nat,
           \A x \in S : f[x] \in Nat /\ g[x] \in Nat /\ f[x] * k <= g[x]
    PROVE  /\ SumFunctionOnSet(f, S) \in Nat /\ SumFunctionOnSet(g, S) \in Nat
           /\ SumFunctionOnSet(f, S) * k <= SumFunctionOnSet(g, S)
<1> DEFINE h == [x \in S |-> f[x] * k]
           z == [x \in S |-> 0]
<1>1. \A x \in S : /\ h[x] \in Int /\ g[x] \in Int /\ h[x] <= g[x]
                   /\ f[x] \in Int /\ z[x] \in Int /\ h[x] = z[x] + k * f[x]
                   /\ z[x] = 0 /\ f[x] \in Nat /\ g[x] \in Nat
  OBVIOUS
<1> HIDE DEF h, z
<1>2. SumFunctionOnSet(h, S) <= SumFunctionOnSet(g, S)
  BY <1>1, SumCompares
<1>3. SumFunctionOnSet(h, S) = SumFunctionOnSet(z, S) + k * SumFunctionOnSet(f, S)
  BY <1>1, SumIsLinear
<1>4. SumFunctionOnSet(z, S) = 0
  BY <1>1, SumOfZeros
<1>5. SumFunctionOnSet(f, S) \in Nat /\ SumFunctionOnSet(g, S) \in Nat
  BY <1>1, SumIsNat
<1>6. SumFunctionOnSet(f, S) * k = k * SumFunctionOnSet(f, S) /\ k * SumFunctionOnSet(f, S) \in Int
  BY <1>5
<1> QED
  BY <1>2, <1>3, <1>4, <1>5, <1>6
=============================================================================

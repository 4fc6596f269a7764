-------------------------- MODULE CollectionTheorems --------------------------
(***************************************************************************)
(* What the other proofs need to know of sets, sums and sequences.  An     *)
(* induction is over a set: the set of the n, or of the subsets, for which *)
(* a fact holds contains the first and is closed under the next.  That is  *)
(* how the operators of the community modules that are folds are reasoned  *)
(* about: FoldEquation has a solution on a finite set, and a fact about it *)
(* is carried from each subset to the one with one element more.           *)
(***************************************************************************)
EXTENDS Integers, SequencesExt, FiniteSetTheorems, SequenceTheorems,
        WellFoundedInduction, TLAPS

(* A nonempty set of naturals has a least element.                         *)
LEMMA LeastNatural ==
    ASSUME NEW S \in SUBSET Nat, S # {}
    PROVE  \E x \in S : \A y \in S : x <= y
<1>1. PICK x \in S : \A y \in S : ~(<<y, x>> \in OpToRel(<, Nat))
  BY WFMin, NatLessThanWellFounded
<1>2. ASSUME NEW y \in S PROVE x <= y
  <2>1. ~(y < x)
    <3>1. <<y, x>> \in Nat \X Nat /\ <<y, x>>[1] = y /\ <<y, x>>[2] = x
      OBVIOUS
    <3>2. y < x => <<y, x>> \in OpToRel(<, Nat)
      BY <3>1, Zenon DEF OpToRel
    <3>3. QED
      BY <1>1, <3>2
  <2>2. QED
    BY <2>1
<1>3. QED
  BY <1>2

(* Min of a nonempty set of naturals is that element.                      *)
LEMMA MinIsLeast ==
    ASSUME NEW S \in SUBSET Nat, S # {}
    PROVE  Min(S) \in S /\ \A y \in S : Min(S) <= y
BY LeastNatural DEF Min

(* Induction for a set: no operator stands for the predicate.              *)
LEMMA InductiveSet ==
    ASSUME NEW G, 0 \in G, \A n \in Nat : n \in G => n + 1 \in G
    PROVE  Nat \subseteq G
<1>1. SUFFICES ASSUME Nat \ G # {} PROVE FALSE
  OBVIOUS
<1>2. PICK m \in Nat \ G : \A y \in Nat \ G : m <= y
  BY <1>1, LeastNatural
<1>3. m # 0 /\ m - 1 \in Nat /\ (m - 1) + 1 = m /\ ~(m <= m - 1)
  BY <1>2
<1>4. m - 1 \in G
  BY <1>2, <1>3
<1>5. QED
  BY <1>2, <1>3, <1>4

(* Induction over the subsets of a finite set.                             *)
LEMMA InductiveFamily ==
    ASSUME NEW S, IsFiniteSet(S), NEW F, {} \in F,
           \A s \in SUBSET S, x \in S : s \in F /\ x \notin s => s \cup {x} \in F
    PROVE  SUBSET S \subseteq F
<1> DEFINE G == {n \in Nat : \A s \in SUBSET S : Cardinality(s) = n => s \in F}
<1>1. \A s \in SUBSET S : IsFiniteSet(s) /\ Cardinality(s) \in Nat
  BY FS_Subset, FS_CardinalityType
<1>2. 0 \in G
  BY <1>1, FS_EmptySet
<1>3. ASSUME NEW n \in Nat, n \in G PROVE n + 1 \in G
  <2>1. SUFFICES ASSUME NEW s \in SUBSET S, Cardinality(s) = n + 1 PROVE s \in F
    BY <1>3
  <2>2. s # {}
    <3>1. n + 1 # 0
      OBVIOUS
    <3>2. QED
      BY <2>1, <3>1, FS_EmptySet
  <2>3. PICK x : x \in s
    BY <2>2
  <2>4. Cardinality(s \ {x}) = n
    <3>1. Cardinality(s \ {x}) = Cardinality(s) - 1
      BY <1>1, <2>3, FS_RemoveElement
    <3>2. QED
      BY <2>1, <3>1
  <2>5. s \ {x} \in F
    BY <1>3, <2>4
  <2>6. (s \ {x}) \cup {x} = s
    BY <2>3
  <2>7. QED
    BY <2>3, <2>5, <2>6
<1>4. Nat \subseteq G
  <2> HIDE DEF G
  <2> QED
    BY <1>2, <1>3, InductiveSet
<1>5. QED
  BY <1>1, <1>4

-----------------------------------------------------------------------------
(***************************************************************************)
(* Folds.  The community modules define them by recursion on the subsets   *)
(* of a finite set: one element at a time is picked and combined with the  *)
(* value for the rest.  Such an equation has a solution.                   *)
(***************************************************************************)

FoldEquation(g, base, pick, H, S) ==
    \A s \in SUBSET S : g[s] = IF s = {} THEN base ELSE H[<<pick[s], g[s \ {pick[s]}]>>]

(* It is built for the subsets of at most n elements, n going up.          *)
LEMMA FoldTableExists ==
    ASSUME NEW S, IsFiniteSet(S), NEW D, NEW base \in D,
           NEW pick, \A s \in SUBSET S : s # {} => pick[s] \in s,
           NEW H \in [S \X D -> D]
    PROVE  \E g \in [SUBSET S -> D] : FoldEquation(g, base, pick, H, S)
<1> DEFINE Tables == [SUBSET S -> D]
           Step(g) == [s \in SUBSET S |->
                         IF s = {} THEN base ELSE H[<<pick[s], g[s \ {pick[s]}]>>]]
           Upto(g, n) == \A s \in SUBSET S : Cardinality(s) <= n => g[s] = Step(g)[s]
           G == {n \in Nat : \E g \in Tables : Upto(g, n)}
<1>1. \A s \in SUBSET S : IsFiniteSet(s) /\ Cardinality(s) \in Nat
  BY FS_Subset, FS_CardinalityType
<1>2. ASSUME NEW s \in SUBSET S, s # {}
      PROVE  /\ pick[s] \in s /\ pick[s] \in S /\ s \ {pick[s]} \in SUBSET S
             /\ Cardinality(s \ {pick[s]}) = Cardinality(s) - 1
  BY <1>1, <1>2, FS_RemoveElement
<1>3. ASSUME NEW g \in Tables PROVE Step(g) \in Tables
  <2>1. ASSUME NEW s \in SUBSET S, s # {} PROVE H[<<pick[s], g[s \ {pick[s]}]>>] \in D
    <3>1. pick[s] \in S /\ g[s \ {pick[s]}] \in D
      BY <1>2, <2>1
    <3>2. QED
      BY <3>1
  <2>2. QED
    BY <2>1
<1>4. \A g : /\ Step(g)[{}] = base
             /\ \A s \in SUBSET S : s # {} => Step(g)[s] = H[<<pick[s], g[s \ {pick[s]}]>>]
  OBVIOUS
<1> HIDE DEF Step
<1>5. 0 \in G
  <2>1. \A s \in SUBSET S : Cardinality(s) <= 0 => s = {}
    BY <1>1, FS_EmptySet
  <2> DEFINE z == [s \in SUBSET S |-> base]
  <2>2. z \in Tables /\ z[{}] = base
    OBVIOUS
  <2> HIDE DEF z
  <2>3. Upto(z, 0)
    BY <1>4, <2>1, <2>2
  <2>4. QED
    BY <2>2, <2>3
<1>6. ASSUME NEW n \in Nat, n \in G PROVE n + 1 \in G
  <2>1. PICK g \in Tables : Upto(g, n)
    BY <1>6
  <2>2. ASSUME NEW s \in SUBSET S, Cardinality(s) <= n + 1, s # {}
        PROVE  Step(g)[s] = Step(Step(g))[s]
    <3>1. s \ {pick[s]} \in SUBSET S /\ Cardinality(s \ {pick[s]}) <= n
      BY <1>1, <1>2, <2>2
    <3>2. Step(g)[s \ {pick[s]}] = g[s \ {pick[s]}]
      BY <2>1, <3>1
    <3>3. Step(g)[s] = H[<<pick[s], g[s \ {pick[s]}]>>]
      BY <1>4, <2>2, Zenon
    <3>4. Step(Step(g))[s] = H[<<pick[s], Step(g)[s \ {pick[s]}]>>]
      BY <1>4, <2>2, Zenon
    <3>5. QED
      BY <3>2, <3>3, <3>4, Zenon
  <2>3. Step(g)[{}] = Step(Step(g))[{}]
    BY <1>4
  <2>4. \A s \in SUBSET S : Cardinality(s) <= n + 1 => Step(g)[s] = Step(Step(g))[s]
    BY <2>2, <2>3
  <2>5. Step(g) \in Tables
    BY <1>3
  <2>6. QED
    BY <2>4, <2>5
<1>7. Cardinality(S) \in G
  <2> HIDE DEF G
  <2> QED
    BY <1>1, <1>5, <1>6, InductiveSet
<1>8. PICK g \in Tables : Upto(g, Cardinality(S))
  BY <1>7
<1>9. \A s \in SUBSET S : g[s] = Step(g)[s]
  BY <1>1, <1>8, FS_Subset
<1>10. \A s \in SUBSET S : g[s] = IF s = {} THEN base ELSE H[<<pick[s], g[s \ {pick[s]}]>>]
  BY <1>9 DEF Step
<1>11. QED
  BY <1>10, Zenon DEF FoldEquation

(***************************************************************************)
(* Sums.                                                                   *)
(***************************************************************************)
Pick(s) == CHOOSE x \in s : TRUE

SumEquation(g, f, S) ==
    g = [s \in SUBSET S |-> IF s = {} THEN 0 ELSE f[Pick(s)] + g[s \ {Pick(s)}]]

SumTable(f, S) == CHOOSE g : SumEquation(g, f, S)

(* A sum is the value of the table at the whole set.                       *)
LEMMA SumIsTable ==
    ASSUME NEW f, NEW S
    PROVE  SumFunctionOnSet(f, S) = SumTable(f, S)[S]
BY Zenon DEF SumFunctionOnSet, FoldFunctionOnSet, MapThenFoldSet, SumEquation, SumTable, Pick

(* Summing naturals over a finite set, the table is a solution.            *)
LEMMA SumTableExists ==
    ASSUME NEW S, IsFiniteSet(S), NEW f, \A x \in S : f[x] \in Nat
    PROVE  SumEquation(SumTable(f, S), f, S)
<1> DEFINE pick == [s \in SUBSET S |-> Pick(s)]
           H == [p \in S \X Nat |-> f[p[1]] + p[2]]
<1>1. \A s \in SUBSET S : pick[s] = Pick(s) /\ (s # {} => Pick(s) \in s)
  BY DEF Pick
<1>2. H \in [S \X Nat -> Nat] /\ \A x \in S, d \in Nat : H[<<x, d>>] = f[x] + d
  <2>1. \A p \in S \X Nat : f[p[1]] + p[2] \in Nat
    OBVIOUS
  <2>2. QED
    BY <2>1
<1> HIDE DEF pick, H
<1>3. \E g \in [SUBSET S -> Nat] : FoldEquation(g, 0, pick, H, S)
  <2>1. \A s \in SUBSET S : s # {} => pick[s] \in s
    BY <1>1
  <2>2. QED
    BY <1>2, <2>1, FoldTableExists
<1>4. PICK g \in [SUBSET S -> Nat] : FoldEquation(g, 0, pick, H, S)
  BY <1>3
<1>5. \A s \in SUBSET S : g[s] = IF s = {} THEN 0 ELSE f[Pick(s)] + g[s \ {Pick(s)}]
  <2>1. ASSUME NEW s \in SUBSET S, s # {}
        PROVE  g[s] = f[Pick(s)] + g[s \ {Pick(s)}]
    <3>1. Pick(s) \in S /\ g[s \ {Pick(s)}] \in Nat /\ pick[s] = Pick(s)
      BY <1>1, <2>1
    <3>2. QED
      BY <1>2, <1>4, <2>1, <3>1 DEF FoldEquation
  <2>2. QED
    BY <1>4, <2>1 DEF FoldEquation
<1>6. SumEquation(g, f, S)
  BY <1>5 DEF SumEquation
<1>7. QED
  BY <1>6, Zenon DEF SumTable

(* Its values on the subsets: naturals, if those of the function are, and  *)
(* the element that is taken away first does not matter.                   *)
LEMMA SumTableRemove ==
    ASSUME NEW f, NEW S, IsFiniteSet(S), \A x \in S : f[x] \in Nat,
           NEW g, SumEquation(g, f, S)
    PROVE  \A s \in SUBSET S :
              /\ g[s] \in Nat
              /\ \A x \in s : g[s] = f[x] + g[s \ {x}]
<1> DEFINE Good(s) == g[s] \in Nat /\ \A x \in s : g[s] = f[x] + g[s \ {x}]
           G == {n \in Nat : \A s \in SUBSET S : Cardinality(s) <= n => Good(s)}
<1>1. \A s \in SUBSET S : IsFiniteSet(s) /\ Cardinality(s) \in Nat
  BY FS_Subset, FS_CardinalityType
<1>2. \A s \in SUBSET S : g[s] = IF s = {} THEN 0 ELSE f[Pick(s)] + g[s \ {Pick(s)}]
  BY DEF SumEquation
<1>3. 0 \in G
  <2>1. \A s \in SUBSET S : Cardinality(s) <= 0 => s = {}
    BY <1>1, FS_EmptySet
  <2>2. Good({})
    BY <1>2
  <2>3. QED
    <3> HIDE DEF Good
    <3> QED
      BY <2>1, <2>2
<1>4. ASSUME NEW n \in Nat, n \in G PROVE n + 1 \in G
  <2>0. Good({})
    <3>1. {} \in SUBSET S
      OBVIOUS
    <3>2. g[{}] = 0
      BY <1>2, <3>1
    <3>3. QED
      BY <3>2
  <2>1. SUFFICES ASSUME NEW s \in SUBSET S, Cardinality(s) <= n + 1, s # {} PROVE Good(s)
    <3> HIDE DEF Good
    <3> QED
      BY <2>0
  <2> DEFINE c == Pick(s)
  <2>2. c \in s /\ c \in S
    BY <2>1 DEF Pick
  <2>3. \A x \in s : /\ s \ {x} \in SUBSET S
                     /\ Cardinality(s \ {x}) <= n
    <3>1. \A x \in s : Cardinality(s \ {x}) = Cardinality(s) - 1
      BY <1>1, FS_RemoveElement
    <3>2. QED
      BY <1>1, <2>1, <3>1
  <2>4. \A x \in s : Good(s \ {x})
    BY <1>4, <2>3
  <2>5. g[s] = f[c] + g[s \ {c}]
    BY <1>2, <2>1
  <2> HIDE DEF c
  <2>6. g[s] \in Nat
    <3>1. f[c] \in Nat /\ g[s \ {c}] \in Nat
      BY <2>2, <2>4
    <3>2. QED
      BY <2>5, <3>1
  <2>7. ASSUME NEW x \in s, x # c PROVE g[s] = f[x] + g[s \ {x}]
    <3>1. (s \ {c}) \ {x} = (s \ {x}) \ {c} /\ x \in s \ {c} /\ c \in s \ {x}
      BY <2>2, <2>7
    <3> DEFINE t == (s \ {c}) \ {x}
    <3>2. g[s \ {c}] = f[x] + g[t]
      BY <2>2, <2>4, <3>1
    <3>3. g[s \ {x}] = f[c] + g[t]
      BY <2>4, <3>1
    <3>4. t \in SUBSET S /\ Cardinality(t) <= n
      <4>1. t = (s \ {c}) \ {x} /\ s \ {c} \in SUBSET S /\ Cardinality(s \ {c}) <= n
        BY <2>2, <2>3
      <4>2. Cardinality(t) = Cardinality(s \ {c}) - 1
        BY <1>1, <3>1, <4>1, FS_RemoveElement
      <4>3. QED
        BY <1>1, <4>1, <4>2
    <3>5. g[t] \in Nat /\ f[x] \in Nat /\ f[c] \in Nat
      BY <1>4, <2>2, <3>4
    <3> HIDE DEF t
    <3>6. QED
      BY <2>5, <3>2, <3>3, <3>5
  <2>8. QED
    BY <2>5, <2>6, <2>7
<1>5. Nat \subseteq G
  <2> HIDE DEF G
  <2> QED
    BY <1>3, <1>4, InductiveSet
<1>6. SUFFICES ASSUME NEW s \in SUBSET S PROVE Good(s)
  OBVIOUS
<1>7. QED
  BY <1>1, <1>5

(* Two tables agree where their functions do.                              *)
LEMMA SumTablesAgree ==
    ASSUME NEW f1, NEW S1, IsFiniteSet(S1), NEW g1, SumEquation(g1, f1, S1),
           NEW f2, NEW S2, IsFiniteSet(S2), NEW g2, SumEquation(g2, f2, S2)
    PROVE  \A s \in SUBSET (S1 \cap S2) :
              (\A x \in s : f1[x] = f2[x]) => g1[s] = g2[s]
<1> DEFINE S == {x \in S1 \cap S2 : f1[x] = f2[x]}
           Same(s) == g1[s] = g2[s]
           G == {n \in Nat : \A s \in SUBSET S : Cardinality(s) <= n => Same(s)}
<1>1. S \subseteq S1 /\ S \subseteq S2
  OBVIOUS
<1>2. \A s \in SUBSET S : IsFiniteSet(s) /\ Cardinality(s) \in Nat
  BY <1>1, FS_Subset, FS_CardinalityType
<1>3. \A s \in SUBSET S :
         /\ g1[s] = IF s = {} THEN 0 ELSE f1[Pick(s)] + g1[s \ {Pick(s)}]
         /\ g2[s] = IF s = {} THEN 0 ELSE f2[Pick(s)] + g2[s \ {Pick(s)}]
  BY <1>1 DEF SumEquation
<1>4. 0 \in G
  <2>1. \A s \in SUBSET S : Cardinality(s) <= 0 => s = {}
    BY <1>2, FS_EmptySet
  <2>2. Same({})
    BY <1>3
  <2>3. QED
    <3> HIDE DEF Same
    <3> QED
      BY <2>1, <2>2
<1>5. ASSUME NEW n \in Nat, n \in G PROVE n + 1 \in G
  <2>0. Same({})
    BY <1>3
  <2>1. SUFFICES ASSUME NEW s \in SUBSET S, Cardinality(s) <= n + 1, s # {}
                 PROVE  Same(s)
    <3> HIDE DEF Same
    <3> QED
      BY <2>0
  <2>2. Pick(s) \in s /\ Cardinality(s \ {Pick(s)}) <= n /\ s \ {Pick(s)} \in SUBSET S
    <3>1. Pick(s) \in s
      BY <2>1 DEF Pick
    <3>2. Cardinality(s \ {Pick(s)}) = Cardinality(s) - 1
      BY <1>2, <3>1, FS_RemoveElement
    <3>3. QED
      BY <1>2, <2>1, <3>1, <3>2
  <2>3. g1[s \ {Pick(s)}] = g2[s \ {Pick(s)}] /\ f1[Pick(s)] = f2[Pick(s)]
    BY <1>5, <2>2
  <2>4. QED
    BY <1>3, <2>1, <2>3
<1>6. Nat \subseteq G
  <2> HIDE DEF G
  <2> QED
    BY <1>4, <1>5, InductiveSet
<1>7. \A s \in SUBSET S : g1[s] = g2[s]
  BY <1>2, <1>6
<1>8. QED
  BY <1>7

(* The sum over nothing.                                                   *)
LEMMA SumEmpty ==
    ASSUME NEW f
    PROVE  SumFunctionOnSet(f, {}) = 0
<1>1. SumEquation(SumTable(f, {}), f, {})
  BY SumTableExists, FS_EmptySet
<1>2. SumTable(f, {})[{}] = 0
  BY <1>1 DEF SumEquation
<1>3. QED
  BY <1>2, SumIsTable

(* A sum of naturals is a natural.                                         *)
LEMMA SumType ==
    ASSUME NEW S, IsFiniteSet(S), NEW f, \A x \in S : f[x] \in Nat
    PROVE  SumFunctionOnSet(f, S) \in Nat
<1>1. SumEquation(SumTable(f, S), f, S)
  BY SumTableExists
<1>2. QED
  BY <1>1, SumTableRemove, SumIsTable

(* The sum depends on the values at the elements only.                     *)
LEMMA SumSame ==
    ASSUME NEW S, IsFiniteSet(S), NEW f, NEW g,
           \A x \in S : f[x] \in Nat /\ g[x] = f[x]
    PROVE  SumFunctionOnSet(f, S) = SumFunctionOnSet(g, S)
<1>1. SumEquation(SumTable(f, S), f, S) /\ SumEquation(SumTable(g, S), g, S)
  BY SumTableExists
<1>2. SumTable(f, S)[S] = SumTable(g, S)[S]
  BY <1>1, SumTablesAgree
<1>3. QED
  BY <1>2, SumIsTable

(* One element more adds its value.                                        *)
LEMMA SumAdd ==
    ASSUME NEW S, IsFiniteSet(S), NEW y, y \notin S,
           NEW f, \A x \in S \cup {y} : f[x] \in Nat
    PROVE  SumFunctionOnSet(f, S \cup {y}) = f[y] + SumFunctionOnSet(f, S)
<1> DEFINE T == S \cup {y}
<1>1. IsFiniteSet(T) /\ y \in T /\ T \ {y} = S /\ S \in SUBSET (T \cap S)
  BY FS_AddElement
<1> HIDE DEF T
<1>2. SumEquation(SumTable(f, T), f, T) /\ SumEquation(SumTable(f, S), f, S)
  BY <1>1, SumTableExists
<1>3. SumTable(f, T)[T] = f[y] + SumTable(f, T)[S]
  <2>1. \A x \in T : f[x] \in Nat
    BY DEF T
  <2>2. QED
    BY <1>1, <1>2, <2>1, SumTableRemove
<1>4. SumTable(f, T)[S] = SumTable(f, S)[S]
  BY <1>1, <1>2, SumTablesAgree
<1>5. QED
  BY <1>3, <1>4, SumIsTable DEF T

(* A change in one place changes the sum by as much.                       *)
LEMMA SumChange ==
    ASSUME NEW S, IsFiniteSet(S), NEW y \in S,
           NEW f, \A x \in S : f[x] \in Nat,
           NEW g, \A x \in S \ {y} : g[x] = f[x], g[y] \in Nat
    PROVE  /\ SumFunctionOnSet(f, S) \in Nat /\ SumFunctionOnSet(g, S) \in Nat
           /\ SumFunctionOnSet(g, S) + f[y] = SumFunctionOnSet(f, S) + g[y]
<1> DEFINE R == S \ {y}
<1>1. IsFiniteSet(R) /\ R \cup {y} = S /\ y \notin R
  BY FS_Subset
<1>2. /\ \A x \in R : f[x] \in Nat /\ g[x] \in Nat /\ f[x] = g[x]
      /\ f[y] \in Nat /\ g[y] \in Nat
  OBVIOUS
<1> HIDE DEF R
<1>3. SumFunctionOnSet(f, S) = f[y] + SumFunctionOnSet(f, R)
  <2>1. SumFunctionOnSet(f, R \cup {y}) = f[y] + SumFunctionOnSet(f, R)
    BY <1>1, <1>2, SumAdd
  <2>2. QED
    BY <1>1, <2>1
<1>4. SumFunctionOnSet(g, S) = g[y] + SumFunctionOnSet(g, R)
  <2>1. SumFunctionOnSet(g, R \cup {y}) = g[y] + SumFunctionOnSet(g, R)
    BY <1>1, <1>2, SumAdd
  <2>2. QED
    BY <1>1, <2>1
<1>5. SumFunctionOnSet(f, R) = SumFunctionOnSet(g, R) /\ SumFunctionOnSet(f, R) \in Nat
  BY <1>1, <1>2, SumSame, SumType
<1>6. QED
  BY <1>2, <1>3, <1>4, <1>5

(* The sum over a disjoint union.                                          *)
LEMMA SumUnion ==
    ASSUME NEW S, IsFiniteSet(S), NEW T, IsFiniteSet(T), S \cap T = {},
           NEW f
    PROVE  (\A x \in S \cup T : f[x] \in Nat) =>
              SumFunctionOnSet(f, S \cup T) = SumFunctionOnSet(f, S) + SumFunctionOnSet(f, T)
<1>0. SUFFICES ASSUME \A x \in S \cup T : f[x] \in Nat
               PROVE  SumFunctionOnSet(f, S \cup T)
                         = SumFunctionOnSet(f, S) + SumFunctionOnSet(f, T)
  OBVIOUS
<1> DEFINE F == {s \in SUBSET T : SumFunctionOnSet(f, S \cup s)
                                    = SumFunctionOnSet(f, S) + SumFunctionOnSet(f, s)}
<1>1. \A s \in SUBSET T : /\ IsFiniteSet(s) /\ IsFiniteSet(S \cup s)
                          /\ SumFunctionOnSet(f, s) \in Nat
  BY <1>0, FS_Subset, FS_Union, SumType
<1>2. SumFunctionOnSet(f, S) \in Nat
  BY <1>0, SumType
<1>3. {} \in F
  <2>1. S \cup {} = S
    OBVIOUS
  <2>2. QED
    BY <1>2, <2>1, SumEmpty
<1>4. ASSUME NEW s \in SUBSET T, NEW x \in T, s \in F, x \notin s
      PROVE  s \cup {x} \in F
  <2>1. x \notin S \cup s /\ (S \cup s) \cup {x} = S \cup (s \cup {x})
    BY <1>4
  <2>2. SumFunctionOnSet(f, (S \cup s) \cup {x}) = f[x] + SumFunctionOnSet(f, S \cup s)
    <3>1. \A z \in (S \cup s) \cup {x} : f[z] \in Nat
      BY <1>0
    <3>2. QED
      BY <1>1, <2>1, <3>1, SumAdd
  <2>3. SumFunctionOnSet(f, s \cup {x}) = f[x] + SumFunctionOnSet(f, s)
    <3>1. \A z \in s \cup {x} : f[z] \in Nat
      BY <1>0
    <3>2. QED
      BY <1>1, <1>4, <3>1, SumAdd
  <2>4. SumFunctionOnSet(f, S \cup s) = SumFunctionOnSet(f, S) + SumFunctionOnSet(f, s)
    BY <1>4
  <2>5. f[x] \in Nat /\ SumFunctionOnSet(f, s) \in Nat
    BY <1>0, <1>1
  <2>6. SumFunctionOnSet(f, S \cup (s \cup {x}))
          = SumFunctionOnSet(f, S) + SumFunctionOnSet(f, s \cup {x})
    <3>1. SumFunctionOnSet(f, S \cup (s \cup {x})) = f[x] + SumFunctionOnSet(f, S \cup s)
      BY <2>1, <2>2, Zenon
    <3> DEFINE a == SumFunctionOnSet(f, S)
               b == SumFunctionOnSet(f, s)
               c == SumFunctionOnSet(f, S \cup s)
    <3>2. a \in Nat /\ b \in Nat /\ c = a + b /\ f[x] \in Nat
      BY <1>2, <2>4, <2>5
    <3> HIDE DEF a, b, c
    <3>3. f[x] + c = a + (f[x] + b)
      BY <3>2
    <3>4. QED
      BY <2>3, <3>1, <3>3, Zenon DEF a, b, c
  <2>7. QED
    BY <2>6
<1>5. SUBSET T \subseteq F
  <2> HIDE DEF F
  <2>1. \A s \in SUBSET T, x \in T : s \in F /\ x \notin s => s \cup {x} \in F
    BY <1>4, Zenon
  <2>2. QED
    <3>1. \A Q : {} \in Q /\ (\A s \in SUBSET T, x \in T : s \in Q /\ x \notin s => s \cup {x} \in Q)
                 => SUBSET T \subseteq Q
      BY InductiveFamily
    <3>2. QED
      BY <1>3, <2>1, <3>1
<1>6. QED
  BY <1>5

(* A sum of zeros.                                                         *)
LEMMA SumZero ==
    ASSUME NEW S, IsFiniteSet(S), NEW f, \A x \in S : f[x] = 0
    PROVE  SumFunctionOnSet(f, S) = 0
<1> DEFINE F == {s \in SUBSET S : SumFunctionOnSet(f, s) = 0}
<1>1. {} \in F
  BY SumEmpty
<1>2. ASSUME NEW s \in SUBSET S, NEW x \in S, s \in F, x \notin s
      PROVE  s \cup {x} \in F
  <2>1. IsFiniteSet(s) /\ \A z \in s \cup {x} : f[z] \in Nat
    BY FS_Subset
  <2>2. SumFunctionOnSet(f, s \cup {x}) = f[x] + SumFunctionOnSet(f, s)
    BY <1>2, <2>1, SumAdd
  <2>3. QED
    BY <1>2, <2>2
<1>3. SUBSET S \subseteq F
  <2> HIDE DEF F
  <2> QED
    BY <1>1, <1>2, InductiveFamily
<1>4. QED
  BY <1>3

(* A value appended to a list adds itself to the sum of the list.          *)
LEMMA SumOfSeq ==
    ASSUME NEW s \in Seq(Nat), NEW v \in Nat
    PROVE  SumFunction(s) \in Nat /\ SumFunction(Append(s, v)) = SumFunction(s) + v
<1> DEFINE D == 1 .. Len(s)
           n == Len(s) + 1
           t == Append(s, v)
<1>1. \A f : SumFunction(f) = SumFunctionOnSet(f, DOMAIN f)
  BY Zenon DEF SumFunction, SumFunctionOnSet, FoldFunction
<1>2. Len(s) \in Nat /\ DOMAIN s = D /\ DOMAIN t = D \cup {n} /\ n \notin D
  OBVIOUS
<1>3. IsFiniteSet(D)
  BY <1>2, FS_Interval
<1>4. /\ \A i \in D : s[i] \in Nat /\ t[i] = s[i]
      /\ t[n] = v
  OBVIOUS
<1> HIDE DEF D, n, t
<1>5. SumFunctionOnSet(t, D \cup {n}) = t[n] + SumFunctionOnSet(t, D)
  <2>1. \A i \in D \cup {n} : t[i] \in Nat
    BY <1>4
  <2>2. QED
    BY <1>2, <1>3, <2>1, SumAdd
<1>6. SumFunctionOnSet(t, D) = SumFunctionOnSet(s, D) /\ SumFunctionOnSet(s, D) \in Nat
  BY <1>3, <1>4, SumSame, SumType
<1>7. SumFunction(t) = SumFunctionOnSet(t, D \cup {n}) /\ SumFunction(s) = SumFunctionOnSet(s, D)
  BY <1>1, <1>2
<1>8. QED
  BY <1>4, <1>5, <1>6, <1>7 DEF t

-----------------------------------------------------------------------------
(* The positions of a sequence that hold a member of W.                    *)
Among(s, W) == {i \in DOMAIN s : s[i] \in W}

(* A value appended is one more of its kind.                               *)
LEMMA OneMoreAmong ==
    ASSUME NEW S, NEW s \in Seq(S), NEW v \in S, NEW W
    PROVE  /\ Cardinality(Among(s, W)) \in Nat /\ IsFiniteSet(Among(s, W))
           /\ Cardinality(Among(Append(s, v), W))
                = Cardinality(Among(s, W)) + (IF v \in W THEN 1 ELSE 0)
<1> DEFINE n == Len(s)
           more == Append(s, v)
<1>1. n \in Nat /\ DOMAIN s = 1 .. n
  OBVIOUS
<1>2. /\ DOMAIN more = 1 .. n + 1 /\ more[n + 1] = v
      /\ \A i \in 1 .. n : more[i] = s[i]
  OBVIOUS
<1>3. IsFiniteSet(Among(s, W)) /\ n + 1 \notin Among(s, W)
  <2>1. IsFiniteSet(1 .. n)
    BY <1>1, FS_Interval
  <2>2. Among(s, W) \subseteq 1 .. n
    BY <1>1 DEF Among
  <2>3. n + 1 \notin 1 .. n
    BY <1>1
  <2>4. QED
    BY <2>1, <2>2, <2>3, FS_Subset
<1> HIDE DEF n, more
<1>4. \A i : i \in 1 .. n + 1 <=> i \in 1 .. n \/ i = n + 1
  BY <1>1
<1>5. Among(more, W) = IF v \in W THEN Among(s, W) \cup {n + 1} ELSE Among(s, W)
  BY <1>1, <1>2, <1>4 DEF Among
<1>6. Cardinality(Among(s, W)) \in Nat
  BY <1>3, FS_CardinalityType
<1>7. Cardinality(Among(s, W) \cup {n + 1}) = Cardinality(Among(s, W)) + 1
  BY <1>3, FS_AddElement
<1>8. QED
  BY <1>3, <1>5, <1>6, <1>7 DEF more

(* The values of two sequences, one after the other.                       *)
LEMMA AmongConcat ==
    ASSUME NEW S, NEW s \in Seq(S), NEW t \in Seq(S), NEW W
    PROVE  Cardinality(Among(s \o t, W)) = Cardinality(Among(s, W)) + Cardinality(Among(t, W))
<1> DEFINE n == Len(s)
           A == Among(s, W)
           B == Among(t, W)
           C == {i \in DOMAIN (s \o t) : i > n /\ (s \o t)[i] \in W}
           f == [i \in B |-> i + n]
<1>1. n \in Nat /\ Len(t) \in Nat /\ DOMAIN s = 1 .. n /\ DOMAIN t = 1 .. Len(t)
  OBVIOUS
<1>2. /\ DOMAIN (s \o t) = 1 .. n + Len(t)
      /\ \A i \in 1 .. n + Len(t) : (s \o t)[i] = IF i <= n THEN s[i] ELSE t[i - n]
  BY ConcatProperties
<1>3. IsFiniteSet(A) /\ IsFiniteSet(B)
  <2>1. A \subseteq 1 .. n /\ B \subseteq 1 .. Len(t)
    BY <1>1 DEF Among
  <2>2. IsFiniteSet(1 .. n) /\ IsFiniteSet(1 .. Len(t))
    BY <1>1, FS_Interval
  <2>3. QED
    BY <2>1, <2>2, FS_Subset
<1>4. Among(s \o t, W) = A \cup C /\ A \cap C = {}
  <2>1. \A i : i \in A <=> i \in DOMAIN (s \o t) /\ i <= n /\ (s \o t)[i] \in W
    BY <1>1, <1>2 DEF Among
  <2>2. \A i \in DOMAIN (s \o t) : i \in Int /\ (i > n <=> ~(i <= n))
    BY <1>1, <1>2
  <2> HIDE DEF A, n
  <2>3. QED
    BY <2>1, <2>2 DEF Among
<1>5. f \in Bijection(B, C)
  <2>1. \A i \in B : i \in Int /\ i + n \in C
    BY <1>1, <1>2 DEF Among
  <2>2. \A j \in C : j \in Int /\ j - n \in B /\ (j - n) + n = j
    BY <1>1, <1>2 DEF Among
  <2> HIDE DEF B, C, n
  <2>3. f \in [B -> C]
    BY <2>1
  <2>4. \A i, j \in B : f[i] = f[j] => i = j
    BY <1>1, <2>1
  <2>5. \A j \in C : \E i \in B : f[i] = j
    BY <2>2
  <2> HIDE DEF f
  <2>6. QED
    BY <2>3, <2>4, <2>5 DEF Bijection, Injection, Surjection, IsInjective
<1>6. IsFiniteSet(C) /\ Cardinality(C) = Cardinality(B)
  <2>1. ExistsBijection(B, C)
    BY <1>5 DEF ExistsBijection
  <2>2. QED
    BY <1>3, <2>1, FS_Bijection
<1> HIDE DEF A, B, C, f
<1>7. Cardinality(A \cup C) = Cardinality(A) + Cardinality(C) - Cardinality(A \cap C)
  BY <1>3, <1>6, FS_Union
<1>8. Cardinality(A \cap C) = 0
  BY <1>4, FS_EmptySet
<1>9. Cardinality(A) \in Nat /\ Cardinality(C) \in Nat
  BY <1>3, <1>6, FS_CardinalityType
<1>10. QED
  BY <1>4, <1>6, <1>7, <1>8, <1>9 DEF A, B

(* A value inserted.                                                       *)
LEMMA InsertAtProperties ==
    ASSUME NEW S, NEW s \in Seq(S), NEW v \in S, NEW k \in 1 .. Len(s) + 1
    PROVE  LET t == InsertAt(s, k, v)
           IN  /\ t \in Seq(S) /\ Len(t) = Len(s) + 1
               /\ \A i \in 1 .. Len(s) + 1 :
                     t[i] = IF i < k THEN s[i] ELSE IF i = k THEN v ELSE s[i - 1]
               /\ \A W : Cardinality(Among(t, W))
                            = Cardinality(Among(s, W)) + (IF v \in W THEN 1 ELSE 0)
<1> DEFINE n == Len(s)
           a == SubSeq(s, 1, k - 1)
           b == SubSeq(s, k, n)
           av == Append(a, v)
           t == InsertAt(s, k, v)
<1>1. n \in Nat /\ k \in Nat /\ 1 <= k /\ k <= n + 1
  OBVIOUS
<1>2. a \in Seq(S) /\ Len(a) = k - 1 /\ \A i \in 1 .. k - 1 : a[i] = s[i]
  BY <1>1, SubSeqProperties
<1>3. b \in Seq(S) /\ Len(b) = n - k + 1 /\ \A i \in 1 .. n - k + 1 : b[i] = s[i + k - 1]
  BY <1>1, SubSeqProperties
<1> HIDE DEF a, b
<1>4. s = a \o b
  <2>1. a \o b \in Seq(S) /\ Len(a \o b) = Len(a) + Len(b)
        /\ \A i \in 1 .. Len(a) + Len(b) :
              (a \o b)[i] = IF i <= Len(a) THEN a[i] ELSE b[i - Len(a)]
    <3>1. a \in Seq(S) /\ b \in Seq(S)
      BY <1>2, <1>3
    <3>2. QED
      BY <3>1, ConcatProperties
  <2>2. Len(a) + Len(b) = n
    BY <1>1, <1>2, <1>3
  <2>3. ASSUME NEW i \in 1 .. n PROVE (a \o b)[i] = s[i]
    <3>1. CASE i <= k - 1
      <4>1. i \in 1 .. k - 1
        BY <1>1, <3>1
      <4>2. QED
        BY <1>2, <2>1, <2>2, <3>1, <4>1
    <3>2. CASE ~(i <= k - 1)
      <4>1. i - (k - 1) \in 1 .. n - k + 1 /\ i - (k - 1) + k - 1 = i
        BY <1>1, <3>2
      <4>2. (a \o b)[i] = b[i - (k - 1)]
        BY <1>2, <2>1, <2>2, <3>2
      <4>3. b[i - (k - 1)] = s[i - (k - 1) + k - 1]
        BY <1>3, <4>1
      <4>4. QED
        BY <4>1, <4>2, <4>3
    <3>3. QED
      BY <3>1, <3>2
  <2>4. QED
    BY <1>1, <2>1, <2>2, <2>3, SeqEqual
<1>5. /\ av \in Seq(S) /\ Len(av) = k /\ av[k] = v
      /\ \A i \in 1 .. k - 1 : av[i] = a[i]
  BY <1>1, <1>2
<1>6. t = av \o b
  <2>1. t = (a \o <<v>>) \o b
    BY DEF InsertAt, a, b
  <2>2. av = a \o <<v>>
    BY <1>2
  <2> HIDE DEF av, t
  <2>3. QED
    BY <2>1, <2>2, Zenon
<1> HIDE DEF t, av
<1>7. t \in Seq(S) /\ Len(t) = n + 1
      /\ \A i \in 1 .. n + 1 : t[i] = IF i <= k THEN av[i] ELSE b[i - k]
  <2>1. Len(av) + Len(b) = n + 1
    BY <1>1, <1>3, <1>5
  <2>2. av \o b \in Seq(S) /\ Len(av \o b) = Len(av) + Len(b)
        /\ \A i \in 1 .. Len(av) + Len(b) :
              (av \o b)[i] = IF i <= Len(av) THEN av[i] ELSE b[i - Len(av)]
    BY <1>3, <1>5, ConcatProperties
  <2>3. QED
    BY <1>5, <1>6, <2>1, <2>2
<1>8. ASSUME NEW i \in 1 .. n + 1
      PROVE  t[i] = IF i < k THEN s[i] ELSE IF i = k THEN v ELSE s[i - 1]
  <2>1. CASE i < k
    BY <1>1, <1>2, <1>5, <1>7, <2>1
  <2>2. CASE i = k
    BY <1>1, <1>5, <1>7, <2>2
  <2>3. CASE i > k
    <3>1. i - k \in 1 .. n - k + 1 /\ (i - k) + k - 1 = i - 1 /\ ~(i <= k)
      BY <1>1, <2>3
    <3>2. t[i] = b[i - k]
      BY <1>7, <3>1
    <3>3. b[i - k] = s[(i - k) + k - 1]
      BY <1>3, <3>1
    <3>4. QED
      BY <2>3, <3>1, <3>2, <3>3, <1>1
  <2>4. QED
    BY <1>1, <2>1, <2>2, <2>3
<1>9. ASSUME NEW W
      PROVE  Cardinality(Among(t, W)) = Cardinality(Among(s, W)) + (IF v \in W THEN 1 ELSE 0)
  <2>1. Cardinality(Among(t, W)) = Cardinality(Among(av, W)) + Cardinality(Among(b, W))
    BY <1>3, <1>5, <1>6, AmongConcat
  <2>2. Cardinality(Among(s, W)) = Cardinality(Among(a, W)) + Cardinality(Among(b, W))
    BY <1>2, <1>3, <1>4, AmongConcat
  <2>3. /\ Cardinality(Among(a, W)) \in Nat
        /\ Cardinality(Among(av, W)) = Cardinality(Among(a, W)) + (IF v \in W THEN 1 ELSE 0)
    BY <1>2, OneMoreAmong DEF av
  <2>4. Cardinality(Among(b, W)) \in Nat
    BY <1>3, OneMoreAmong
  <2>5. QED
    BY <2>1, <2>2, <2>3, <2>4
<1>10. QED
  BY <1>7, <1>8, <1>9 DEF t

(* A finite set of naturals has a greatest element, and Max is it.         *)
LEMMA MaxIsGreatest ==
    ASSUME NEW n \in Nat, NEW S \in SUBSET (1 .. n), S # {}
    PROVE  Max(S) \in S /\ \A y \in S : y <= Max(S)
<1> DEFINE T == {n - x : x \in S}
<1>1. T \in SUBSET Nat /\ T # {}
  <2>1. \A x \in S : x \in Nat /\ n - x \in Nat
    OBVIOUS
  <2>2. QED
    BY <2>1
<1>2. PICK m \in T : \A y \in T : m <= y
  BY <1>1, LeastNatural
<1>3. PICK x \in S : m = n - x
  BY <1>2
<1>4. \A y \in S : x >= y
  <2>1. ASSUME NEW y \in S PROVE x >= y
    <3>1. n - x <= n - y
      BY <1>2, <1>3
    <3>2. x \in Nat /\ y \in Nat
      OBVIOUS
    <3>3. QED
      BY <3>1, <3>2
  <2>2. QED
    BY <2>1
<1>5. Max(S) \in S /\ \A y \in S : Max(S) >= y
  BY <1>4 DEF Max
<1>6. QED
  BY <1>5

(* A set of positions with all those below its members is 1 .. its size.   *)
LEMMA InitialSegment ==
    ASSUME NEW n \in Nat, NEW A \in SUBSET (1 .. n),
           \A i \in A, j \in 1 .. n : j <= i => j \in A
    PROVE  Cardinality(A) \in 0 .. n /\ A = 1 .. Cardinality(A)
<1>1. CASE A = {}
  BY <1>1, FS_EmptySet
<1>2. CASE A # {}
  <2>1. Max(A) \in A /\ \A y \in A : y <= Max(A)
    BY <1>2, MaxIsGreatest
  <2>2. PICK m \in 1 .. n : m \in A /\ \A y \in A : y <= m
    BY <2>1
  <2>3. A = 1 .. m
    <3>1. \A i \in 1 .. m : i \in 1 .. n /\ i <= m
      BY <2>2
    <3>2. \A i \in A : i \in 1 .. m
      BY <2>2
    <3>3. QED
      BY <2>2, <3>1, <3>2
  <2>4. Cardinality(1 .. m) = m
    BY <2>2, FS_Interval
  <2>5. QED
    BY <2>2, <2>3, <2>4
<1>3. QED
  BY <1>1, <1>2

-----------------------------------------------------------------------------
(* Sequences without repetition.                                           *)

(* Taking k items from the front of a queue without repetition splits its  *)
(* members in two.                                                         *)
LEMMA SplitSeq ==
    ASSUME NEW S, NEW q \in Seq(S), IsInjective(q), NEW k \in 1 .. Len(q)
    PROVE  LET front == SubSeq(q, 1, k)
               rest  == SubSeq(q, k + 1, Len(q))
           IN  /\ front \in Seq(S) /\ rest \in Seq(S)
               /\ IsInjective(front) /\ IsInjective(rest)
               /\ ToSet(q) = ToSet(front) \cup ToSet(rest)
               /\ ToSet(front) \cap ToSet(rest) = {}
<1> DEFINE front == SubSeq(q, 1, k)
           rest  == SubSeq(q, k + 1, Len(q))
<1>1. /\ front \in Seq(S) /\ Len(front) = k
      /\ \A i \in 1 .. k : front[i] = q[i]
  BY SubSeqProperties
<1>2. /\ rest \in Seq(S) /\ Len(rest) = Len(q) - k
      /\ \A i \in 1 .. Len(q) - k : rest[i] = q[k + i]
  <2>1. CASE k = Len(q)
    BY <2>1, SubSeqProperties
  <2>2. CASE k < Len(q)
    BY <2>2, SubSeqProperties
  <2>3. QED
    BY <2>1, <2>2
<1>3. DOMAIN front = 1 .. k /\ DOMAIN rest = 1 .. Len(q) - k /\ DOMAIN q = 1 .. Len(q)
  BY <1>1, <1>2
<1>k. k \in Nat /\ Len(q) \in Nat /\ k <= Len(q)
  OBVIOUS
<1> HIDE DEF front, rest
<1>f. \A i \in DOMAIN front : i \in DOMAIN q /\ i <= k /\ front[i] = q[i]
  BY <1>1, <1>3, <1>k
<1>r. \A i \in DOMAIN rest : i \in Int /\ k + i \in DOMAIN q /\ k + i > k /\ rest[i] = q[k + i]
  BY <1>2, <1>3, <1>k
<1>q. \A i \in DOMAIN q : \/ i \in DOMAIN front /\ q[i] = front[i]
                          \/ i - k \in DOMAIN rest /\ q[i] = rest[i - k]
  BY <1>1, <1>2, <1>3, <1>k
<1>4. IsInjective(front) /\ IsInjective(rest)
  <2>1. IsInjective(front)
    BY <1>f DEF IsInjective
  <2>2. ASSUME NEW i \in DOMAIN rest, NEW j \in DOMAIN rest, rest[i] = rest[j] PROVE i = j
    <3>1. /\ k + i \in DOMAIN q /\ k + j \in DOMAIN q
          /\ q[k + i] = q[k + j]
          /\ i \in Int /\ j \in Int
      BY <2>2, <1>r
    <3>2. k + i = k + j
      BY <3>1 DEF IsInjective
    <3>3. QED
      BY <3>1, <3>2, <1>k
  <2>3. QED
    BY <2>1, <2>2 DEF IsInjective
<1>5. ToSet(front) \cap ToSet(rest) = {}
  <2> SUFFICES ASSUME NEW i \in DOMAIN front, NEW j \in DOMAIN rest, front[i] = rest[j]
               PROVE  FALSE
    BY DEF ToSet
  <2>1. i = k + j
    BY <1>f, <1>r DEF IsInjective
  <2>2. QED
    BY <2>1, <1>f, <1>r, <1>k
<1>6. ToSet(q) \subseteq ToSet(front) \cup ToSet(rest)
  BY <1>q DEF ToSet
<1>7. ToSet(front) \cup ToSet(rest) \subseteq ToSet(q)
  BY <1>f, <1>r DEF ToSet
<1>8. QED
  BY <1>1, <1>2, <1>4, <1>5, <1>6, <1>7 DEF front, rest

(* Joining two sequences without repetition and without common members.    *)
LEMMA JoinSeq ==
    ASSUME NEW S, NEW s \in Seq(S), NEW t \in Seq(S), IsInjective(s), IsInjective(t),
           ToSet(s) \cap ToSet(t) = {}
    PROVE  /\ s \o t \in Seq(S) /\ IsInjective(s \o t)
           /\ ToSet(s \o t) = ToSet(s) \cup ToSet(t)
<1> DEFINE u == s \o t
<1>1. /\ u \in Seq(S) /\ Len(u) = Len(s) + Len(t)
      /\ \A i \in 1 .. Len(s) + Len(t) : u[i] = IF i <= Len(s) THEN s[i] ELSE t[i - Len(s)]
  BY ConcatProperties
<1>2. /\ DOMAIN u = 1 .. Len(s) + Len(t) /\ DOMAIN s = 1 .. Len(s) /\ DOMAIN t = 1 .. Len(t)
      /\ Len(s) \in Nat /\ Len(t) \in Nat
  BY <1>1
<1>3. \A i \in DOMAIN u : \/ i \in DOMAIN s /\ u[i] = s[i]
                          \/ i - Len(s) \in DOMAIN t /\ u[i] = t[i - Len(s)] /\ i > Len(s)
  BY <1>1, <1>2
<1>4. /\ \A i \in DOMAIN s : i \in DOMAIN u /\ u[i] = s[i]
      /\ \A i \in DOMAIN t : i + Len(s) \in DOMAIN u /\ u[i + Len(s)] = t[i]
  BY <1>1, <1>2
<1>5. ToSet(u) = ToSet(s) \cup ToSet(t)
  <2>1. ToSet(u) \subseteq ToSet(s) \cup ToSet(t)
    BY <1>3 DEF ToSet
  <2>2. ToSet(s) \cup ToSet(t) \subseteq ToSet(u)
    BY <1>4 DEF ToSet
  <2>3. QED
    BY <2>1, <2>2
<1>6. IsInjective(u)
  <2> SUFFICES ASSUME NEW i \in DOMAIN u, NEW j \in DOMAIN u, u[i] = u[j] PROVE i = j
    BY DEF IsInjective
  <2>1. \A a \in DOMAIN s, b \in DOMAIN t : s[a] # t[b]
    BY DEF ToSet
  <2>2. CASE i \in DOMAIN s /\ u[i] = s[i] /\ j \in DOMAIN s /\ u[j] = s[j]
    BY <2>2 DEF IsInjective
  <2>3. CASE /\ i - Len(s) \in DOMAIN t /\ u[i] = t[i - Len(s)]
             /\ j - Len(s) \in DOMAIN t /\ u[j] = t[j - Len(s)]
    <3>1. i - Len(s) = j - Len(s)
      BY <2>3 DEF IsInjective
    <3>2. QED
      BY <3>1, <1>2
  <2>4. QED
    BY <1>3, <2>1, <2>2, <2>3
<1>7. QED
  BY <1>1, <1>5, <1>6

(* Appending a new member.                                                 *)
LEMMA AppendNew ==
    ASSUME NEW S, NEW q \in Seq(S), NEW x \in S, IsInjective(q), x \notin ToSet(q)
    PROVE  /\ IsInjective(Append(q, x))
           /\ ToSet(Append(q, x)) = ToSet(q) \cup {x}
<1> DEFINE t == <<x>>
<1>1. t \in Seq(S) /\ ToSet(t) = {x} /\ IsInjective(t)
  BY DEF ToSet, IsInjective
<1>2. Append(q, x) = q \o t
  OBVIOUS
<1> HIDE DEF t
<1>3. ToSet(q) \cap ToSet(t) = {}
  BY <1>1
<1>4. IsInjective(q \o t) /\ ToSet(q \o t) = ToSet(q) \cup ToSet(t)
  BY <1>1, <1>3, JoinSeq
<1>5. IsInjective(Append(q, x)) /\ ToSet(Append(q, x)) = ToSet(q) \cup ToSet(t)
  BY <1>2, <1>4, Zenon
<1>6. QED
  BY <1>1, <1>5, Zenon

(* The empty sequence has no member.                                       *)
LEMMA EmptySeqMembers == ToSet(<<>>) = {} /\ IsInjective(<<>>)
BY DEF ToSet, IsInjective

(* A sequence has no more members than places.                             *)
LEMMA MembersBound ==
    ASSUME NEW S, NEW s \in Seq(S)
    PROVE  IsFiniteSet(ToSet(s)) /\ Cardinality(ToSet(s)) <= Len(s)
<1> DEFINE T == ToSet(s)
           f == [i \in 1 .. Len(s) |-> s[i]]
<1>1. f \in Surjection(1 .. Len(s), T)
  <2>1. DOMAIN s = 1 .. Len(s)
    OBVIOUS
  <2>2. f \in [1 .. Len(s) -> T] /\ \A x \in T : \E i \in 1 .. Len(s) : f[i] = x
    BY <2>1 DEF ToSet
  <2>3. QED
    BY <2>2 DEF Surjection
<1>2. Len(s) \in Nat
  OBVIOUS
<1> HIDE DEF T, f
<1>3. IsFiniteSet(1 .. Len(s)) /\ Cardinality(1 .. Len(s)) = Len(s)
  BY <1>2, FS_Interval
<1>4. IsFiniteSet(T) /\ Cardinality(T) <= Len(s)
  BY <1>1, <1>2, <1>3, FS_Surjection
<1>5. QED
  BY <1>4 DEF T
===============================================================================

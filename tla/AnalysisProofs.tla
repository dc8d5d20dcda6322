--------------------------- MODULE AnalysisProofs ---------------------------
(***************************************************************************)
(* What is proved of Analysis, for every evidence, budget and ladder: that *)
(* the documents are those of the stages that wrote them (DocsInv), that   *)
(* an answer is about the documents there are (AnswersInv), and from the   *)
(* two the properties of the module.  The sums, orders and bounds of the   *)
(* operators come first: folds over finite sets, by induction on these.    *)
(***************************************************************************)
EXTENDS Analysis, FiniteSetTheorems, SequenceTheorems, WellFoundedInduction, TLAPS

-----------------------------------------------------------------------------
(* Induction, and what the folds over finite sets compute.                 *)

LEMMA Inductive ==
    ASSUME NEW T \in SUBSET Nat, 0 \in T, \A n \in T : n + 1 \in T
    PROVE T = Nat
  <1> DEFINE R == {ss \in Nat \X Nat : ss[1] < ss[2]}
             U == Nat \ T
  <1>1. IsWellFoundedOn(R, Nat)
    BY NatLessThanWellFounded DEF OpToRel
  <1>2. \A x, y \in Nat : x < y => <<x, y>> \in R
    OBVIOUS
  <1>3. U \subseteq Nat
    OBVIOUS
  <1> HIDE DEF R, U
  <1> SUFFICES ASSUME U # {} PROVE FALSE
    BY DEF U
  <1>4. PICK n \in U : \A y \in U : ~(<<y, n>> \in R)
    BY <1>1, <1>3, WFMin
  <1>5. n \in Nat \ {0} /\ n - 1 \in Nat /\ n - 1 < n /\ (n - 1) + 1 = n
    BY DEF U
  <1>6. n - 1 \notin U
    BY <1>2, <1>4, <1>5
  <1> QED BY <1>5, <1>6 DEF U

\* A family of subsets of a finite set that holds a set once it holds the set less any of
\* its elements holds them all.
LEMMA SubsetsInductive ==
    ASSUME NEW I, IsFiniteSet(I), NEW G \in SUBSET SUBSET I,
           \A t \in SUBSET I : (\A x \in t : t \ {x} \in G) => t \in G
    PROVE G = SUBSET I
  <1> DEFINE T == {n \in Nat : \A t \in SUBSET I : Cardinality(t) = n => t \in G}
  <1>1. \A t \in SUBSET I : IsFiniteSet(t) /\ Cardinality(t) \in Nat
    BY FS_Subset, FS_CardinalityType
  <1>2. 0 \in T
    <2> SUFFICES ASSUME NEW t \in SUBSET I, Cardinality(t) = 0 PROVE t \in G
      OBVIOUS
    <2>1. t = {}
      BY <1>1, FS_EmptySet
    <2> QED BY <2>1
  <1>3. ASSUME NEW n \in T PROVE n + 1 \in T
    <2> SUFFICES ASSUME NEW t \in SUBSET I, Cardinality(t) = n + 1 PROVE t \in G
      OBVIOUS
    <2>1. ASSUME NEW x \in t PROVE Cardinality(t \ {x}) = n
      <3>1. IsFiniteSet(t) /\ n \in Nat
        BY <1>1
      <3>2. Cardinality(t \ {x}) = Cardinality(t) - 1
        BY <3>1, FS_RemoveElement
      <3> QED BY <3>1, <3>2
    <2>2. \A x \in t : t \ {x} \in G
      BY <2>1
    <2> QED BY <2>2
  <1>4. T = Nat
    <2> HIDE DEF T
    <2>1. T \in SUBSET Nat
      BY DEF T
    <2> QED BY <1>2, <1>3, <2>1, Inductive
  <1> QED BY <1>1, <1>4

\* A choice of an element from every set of them.
Choosing(c, I) == \A t \in SUBSET I : t # {} => c[t] \in t

\* h folds the elements of the subsets of I, in the order c takes them, from base.
Folds(h, base, step, c, I) ==
    h = [t \in SUBSET I |-> IF t = {} THEN base ELSE step[<<c[t], h[t \ {c[t]}]>>]]

\* The same, for the subsets of no more than n elements.
FoldsUpto(h, base, step, c, I, n) ==
    h = [t \in {t \in SUBSET I : Cardinality(t) <= n} |->
            IF t = {} THEN base ELSE step[<<c[t], h[t \ {c[t]}]>>]]

\* A fold is defined.
LEMMA FoldsExist ==
    ASSUME NEW I, IsFiniteSet(I), NEW V, NEW base \in V, NEW step \in [I \X V -> V], NEW c, Choosing(c, I)
    PROVE \E h \in [SUBSET I -> V] : Folds(h, base, step, c, I)
  <1> DEFINE Small(n) == {t \in SUBSET I : Cardinality(t) <= n}
             Has(n) == \E h \in [Small(n) -> V] : FoldsUpto(h, base, step, c, I, n)
             T == {n \in Nat : Has(n)}
  <1>1. \A t \in SUBSET I : IsFiniteSet(t) /\ Cardinality(t) \in Nat
    BY FS_Subset, FS_CardinalityType
  <1>2. 0 \in T
    <2> DEFINE h == [t \in Small(0) |-> base]
    <2>1. \A t \in Small(0) : t = {}
      BY <1>1, FS_EmptySet
    <2>2. h \in [Small(0) -> V] /\ FoldsUpto(h, base, step, c, I, 0)
      BY <2>1 DEF FoldsUpto
    <2> QED BY <2>2
  <1>3. ASSUME NEW n \in T PROVE n + 1 \in T
    <2> SUFFICES Has(n + 1)
      <3> HIDE DEF Has
      <3> QED OBVIOUS
    <2>1. PICK h \in [Small(n) -> V] : FoldsUpto(h, base, step, c, I, n)
      OBVIOUS
    <2> DEFINE g == [t \in Small(n + 1) |-> IF t = {} THEN base ELSE step[<<c[t], h[t \ {c[t]}]>>]]
    <2>2. n \in Nat /\ Small(n) \subseteq Small(n + 1)
      BY <1>1
    <2>3. ASSUME NEW t \in Small(n + 1), t # {} PROVE c[t] \in I /\ t \ {c[t]} \in Small(n)
      <3>1. c[t] \in t
        BY <2>3 DEF Choosing
      <3>2. Cardinality(t \ {c[t]}) = Cardinality(t) - 1
        BY <1>1, <3>1, FS_RemoveElement
      <3> QED BY <1>1, <2>2, <3>1, <3>2
    <2>4. \A t \in Small(n) : g[t] = h[t]
      <3>1. h = [t \in Small(n) |-> IF t = {} THEN base ELSE step[<<c[t], h[t \ {c[t]}]>>]]
        BY <2>1 DEF FoldsUpto
      <3> HIDE DEF Small
      <3> QED BY <2>2, <3>1
    <2>5. g \in [Small(n + 1) -> V]
      <3>1. \A t \in Small(n + 1) : t # {} => step[<<c[t], h[t \ {c[t]}]>>] \in V
        BY <2>3
      <3> HIDE DEF Small
      <3> QED BY <3>1
    <2>6. FoldsUpto(g, base, step, c, I, n + 1)
      <3>1. \A t \in Small(n + 1) : t # {} => g[t \ {c[t]}] = h[t \ {c[t]}]
        BY <2>3, <2>4
      <3>2. g = [t \in Small(n + 1) |-> IF t = {} THEN base ELSE step[<<c[t], g[t \ {c[t]}]>>]]
        <4> HIDE DEF Small
        <4> QED BY <3>1
      <3> HIDE DEF g
      <3> QED BY <3>2 DEF FoldsUpto
    <2> HIDE DEF g, Small
    <2> QED BY <2>5, <2>6
  <1>4. T = Nat
    <2> HIDE DEF T
    <2>1. T \in SUBSET Nat
      BY DEF T
    <2> QED BY <1>2, <1>3, <2>1, Inductive
  <1>5. Cardinality(I) \in Nat /\ Small(Cardinality(I)) = SUBSET I
    BY FS_CardinalityType, FS_Subset
  <1>6. PICK h \in [Small(Cardinality(I)) -> V] : FoldsUpto(h, base, step, c, I, Cardinality(I))
    BY <1>4, <1>5
  <1>7. h = [t \in Small(Cardinality(I)) |-> IF t = {} THEN base ELSE step[<<c[t], h[t \ {c[t]}]>>]]
    BY <1>6 DEF FoldsUpto
  <1> HIDE DEF Small
  <1> QED BY <1>5, <1>6, <1>7 DEF Folds

LEMMA FoldsValue ==
    ASSUME NEW I, NEW base, NEW step, NEW c, NEW h, Folds(h, base, step, c, I)
    PROVE h[{}] = base /\ \A t \in SUBSET I : t # {} => h[t] = step[<<c[t], h[t \ {c[t]}]>>]
  BY DEF Folds

-----------------------------------------------------------------------------
(* Sums over finite sets.                                                  *)

Weighs(w, I) == IsFiniteSet(I) /\ \A x \in I : w[x] \in Int

\* h holds what the subsets of I weigh, whichever element is taken first.
Additive(h, w, I) ==
    /\ h \in [SUBSET I -> Int] /\ h[{}] = 0
    /\ \A t \in SUBSET I : \A x \in t : h[t] = w[x] + h[t \ {x}]

SumOf(w, I) == (CHOOSE h : Additive(h, w, I))[I]

\* h folds + over the subsets of I, in the order c takes their elements.
Tallies(h, w, c, I) == h = [t \in SUBSET I |-> IF t = {} THEN 0 ELSE w[c[t]] + h[t \ {c[t]}]]

\* What such a fold holds.
Adding(h, w, c, I) ==
    /\ Choosing(c, I) /\ h[{}] = 0
    /\ \A t \in SUBSET I : t # {} => h[t] = w[c[t]] + h[t \ {c[t]}]

\* A fold exists, in any order.
LEMMA AddingExists ==
    ASSUME NEW w, NEW I, Weighs(w, I), NEW c, Choosing(c, I)
    PROVE \E h \in [SUBSET I -> Int] : Tallies(h, w, c, I)
  <1> DEFINE step == [p \in I \X Int |-> w[p[1]] + p[2]]
  <1>1. IsFiniteSet(I) /\ step \in [I \X Int -> Int] /\ 0 \in Int
    BY DEF Weighs
  <1>2. PICK h \in [SUBSET I -> Int] : Folds(h, 0, step, c, I)
    <2> HIDE DEF step
    <2> QED BY <1>1, FoldsExist
  <1>3. ASSUME NEW t \in SUBSET I, t # {}
        PROVE step[<<c[t], h[t \ {c[t]}]>>] = w[c[t]] + h[t \ {c[t]}]
    <2>1. c[t] \in I /\ h[t \ {c[t]}] \in Int
      BY <1>3 DEF Choosing
    <2> QED BY <2>1
  <1>4. h = [t \in SUBSET I |-> IF t = {} THEN 0 ELSE step[<<c[t], h[t \ {c[t]}]>>]]
    BY <1>2 DEF Folds
  <1>5. h = [t \in SUBSET I |-> IF t = {} THEN 0 ELSE w[c[t]] + h[t \ {c[t]}]]
    <2> HIDE DEF step
    <2> QED BY <1>3, <1>4
  <1> QED BY <1>5 DEF Tallies

\* The order does not matter.
LEMMA AddingAny ==
    ASSUME NEW w, NEW I, Weighs(w, I), NEW c, NEW h \in [SUBSET I -> Int], Adding(h, w, c, I)
    PROVE Additive(h, w, I)
  <1> DEFINE G == {t \in SUBSET I : \A x \in t : h[t] = w[x] + h[t \ {x}]}
  <1>1. ASSUME NEW t \in SUBSET I, \A x \in t : t \ {x} \in G PROVE t \in G
    <2> SUFFICES ASSUME NEW x \in t PROVE h[t] = w[x] + h[t \ {x}]
      OBVIOUS
    <2> DEFINE a == c[t]
    <2>1. a \in t /\ h[t] = w[a] + h[t \ {a}]
      BY DEF Adding, Choosing
    <2> HIDE DEF a
    <2>2. CASE a = x
      BY <2>1, <2>2
    <2>3. CASE a # x
      <3>1. h[t \ {a}] = w[x] + h[(t \ {a}) \ {x}]
        BY <1>1, <2>1, <2>3
      <3>2. h[t \ {x}] = w[a] + h[(t \ {x}) \ {a}]
        BY <1>1, <2>1, <2>3
      <3>3. (t \ {a}) \ {x} = (t \ {x}) \ {a}
        OBVIOUS
      <3>4. PICK rest \in Int : rest = h[(t \ {x}) \ {a}]
        OBVIOUS
      <3>5. h[t \ {a}] = w[x] + rest
        BY <3>1, <3>3, <3>4, Zenon
      <3>6. h[t \ {x}] = w[a] + rest
        BY <3>2, <3>4, Zenon
      <3>7. w[a] \in Int /\ w[x] \in Int
        BY <2>1 DEF Weighs
      <3> QED BY <2>1, <3>5, <3>6, <3>7
    <2> QED BY <2>2, <2>3
  <1>2. G = SUBSET I
    <2>1. IsFiniteSet(I)
      BY DEF Weighs
    <2> HIDE DEF G
    <2>2. G \in SUBSET SUBSET I
      BY DEF G
    <2> QED BY <1>1, <2>1, <2>2, SubsetsInductive
  <1> QED BY <1>2 DEF Additive, Adding

Chosen(t) == CHOOSE x \in t : TRUE

LEMMA AdditiveExists == ASSUME NEW w, NEW I, Weighs(w, I) PROVE \E h : Additive(h, w, I)
  <1> DEFINE c == [t \in SUBSET I |-> Chosen(t)]
  <1>1. Choosing(c, I)
    BY DEF Choosing, Chosen
  <1> HIDE DEF c
  <1>2. PICK h \in [SUBSET I -> Int] : Tallies(h, w, c, I)
    BY <1>1, AddingExists
  <1>3. Adding(h, w, c, I)
    <2>1. h[{}] = 0
      BY <1>2 DEF Tallies
    <2>2. \A t \in SUBSET I : t # {} => h[t] = w[c[t]] + h[t \ {c[t]}]
      BY <1>2 DEF Tallies
    <2> QED BY <1>1, <2>1, <2>2 DEF Adding
  <1> QED BY <1>3, AddingAny

\* The same elements weigh the same in whatever set they are taken from.
LEMMA AdditiveAgree ==
    ASSUME NEW w, NEW I, Weighs(w, I), NEW J \in SUBSET I, NEW v, \A x \in J : v[x] = w[x],
           NEW h, Additive(h, w, I), NEW g, Additive(g, v, J)
    PROVE g[J] = h[J]
  <1> DEFINE G == {t \in SUBSET J : g[t] = h[t]}
  <1>1. ASSUME NEW t \in SUBSET J, \A x \in t : t \ {x} \in G PROVE t \in G
    <2>1. CASE t = {}
      BY <2>1 DEF Additive
    <2>2. CASE t # {}
      <3>1. PICK x \in t : TRUE
        BY <2>2
      <3>2. g[t \ {x}] = h[t \ {x}]
        BY <1>1, <3>1
      <3>3. g[t] = v[x] + g[t \ {x}]
        BY <3>1 DEF Additive
      <3>4. h[t] = w[x] + h[t \ {x}]
        BY <3>1 DEF Additive
      <3> QED BY <3>1, <3>2, <3>3, <3>4
    <2> QED BY <2>1, <2>2
  <1>2. G = SUBSET J
    <2>1. IsFiniteSet(J)
      BY FS_Subset DEF Weighs
    <2> HIDE DEF G
    <2>2. G \in SUBSET SUBSET J
      BY DEF G
    <2> QED BY <1>1, <2>1, <2>2, SubsetsInductive
  <1> QED BY <1>2

LEMMA SumAdditive ==
    ASSUME NEW w, NEW I, Weighs(w, I), NEW h, Additive(h, w, I) PROVE SumOf(w, I) = h[I]
  <1> DEFINE g == CHOOSE f : Additive(f, w, I)
  <1>1. Additive(g, w, I)
    BY AdditiveExists
  <1>2. SumOf(w, I) = g[I]
    BY DEF SumOf
  <1> HIDE DEF g
  <1> QED BY <1>1, <1>2, AdditiveAgree

LEMMA SumType == ASSUME NEW w, NEW I, Weighs(w, I) PROVE SumOf(w, I) \in Int
  <1>1. PICK h : Additive(h, w, I)
    BY AdditiveExists
  <1>2. SumOf(w, I) = h[I]
    BY <1>1, SumAdditive
  <1>3. h[I] \in Int
    BY <1>1 DEF Additive
  <1> QED BY <1>2, <1>3

LEMMA WeighsSubset == ASSUME NEW w, NEW I, Weighs(w, I), NEW J \in SUBSET I PROVE Weighs(w, J)
  BY FS_Subset DEF Weighs

LEMMA SumEmpty == ASSUME NEW w PROVE SumOf(w, {}) = 0
  <1>1. Weighs(w, {})
    BY FS_EmptySet DEF Weighs
  <1>2. PICK h : Additive(h, w, {})
    BY <1>1, AdditiveExists
  <1> QED BY <1>1, <1>2, SumAdditive DEF Additive

LEMMA SumTake ==
    ASSUME NEW w, NEW I, Weighs(w, I), NEW x \in I
    PROVE w[x] \in Int /\ SumOf(w, I \ {x}) \in Int /\ SumOf(w, I) = w[x] + SumOf(w, I \ {x})
  <1>1. PICK h : Additive(h, w, I)
    BY AdditiveExists
  <1>2. Weighs(w, I \ {x})
    BY WeighsSubset
  <1>3. PICK g : Additive(g, w, I \ {x})
    BY <1>2, AdditiveExists
  <1>4. g[I \ {x}] = h[I \ {x}]
    BY <1>1, <1>3, AdditiveAgree
  <1>5. SumOf(w, I \ {x}) = g[I \ {x}] /\ SumOf(w, I) = h[I]
    BY <1>1, <1>2, <1>3, SumAdditive
  <1>6. h[I] = w[x] + h[I \ {x}] /\ h[I \ {x}] \in Int
    BY <1>1 DEF Additive
  <1> QED BY <1>4, <1>5, <1>6 DEF Weighs

LEMMA SumSame ==
    ASSUME NEW w, NEW I, Weighs(w, I), NEW v, \A x \in I : v[x] = w[x]
    PROVE SumOf(v, I) = SumOf(w, I)
  <1>1. Weighs(v, I)
    BY DEF Weighs
  <1>2. PICK h : Additive(h, w, I)
    BY AdditiveExists
  <1>3. PICK g : Additive(g, v, I)
    BY <1>1, AdditiveExists
  <1>4. g[I] = h[I]
    <2>1. \A J \in SUBSET I : (\A x \in J : v[x] = w[x]) /\ Additive(g, v, J) => g[J] = h[J]
      BY <1>2, AdditiveAgree
    <2> QED BY <1>3, <2>1
  <1> QED BY <1>1, <1>2, <1>3, <1>4, SumAdditive

\* The sum of a function is what its domain weighs.
LEMMA FunctionSum ==
    ASSUME NEW f, Weighs(f, DOMAIN f) PROVE SumFunction(f) = SumOf(f, DOMAIN f)
  <1> DEFINE I == DOMAIN f
             c == [t \in SUBSET I |-> Chosen(t)]
             g == CHOOSE h : h = [t \in SUBSET I |-> IF t = {} THEN 0 ELSE f[Chosen(t)] + h[t \ {Chosen(t)}]]
  <1>1. SumFunction(f) = g[I]
    BY DEF SumFunction, SumFunctionOnSet, FoldFunctionOnSet, MapThenFoldSet, Chosen
  <1>2. Choosing(c, I) /\ \A t \in SUBSET I : c[t] = Chosen(t)
    BY DEF Choosing, Chosen
  <1> HIDE DEF c
  <1>3. PICK h \in [SUBSET I -> Int] : Tallies(h, f, c, I)
    BY <1>2, AddingExists
  <1>4. h = [t \in SUBSET I |-> IF t = {} THEN 0 ELSE f[Chosen(t)] + h[t \ {Chosen(t)}]]
    BY <1>2, <1>3 DEF Tallies
  <1>5. g = [t \in SUBSET I |-> IF t = {} THEN 0 ELSE f[Chosen(t)] + g[t \ {Chosen(t)}]]
    BY <1>4
  <1> HIDE DEF g
  <1> DEFINE G == {t \in SUBSET I : g[t] = h[t]}
  <1>6. ASSUME NEW t \in SUBSET I, \A x \in t : t \ {x} \in G PROVE t \in G
    <2>1. CASE t = {}
      BY <1>4, <1>5, <2>1
    <2>2. CASE t # {}
      <3>1. Chosen(t) \in t
        BY <2>2 DEF Chosen
      <3>2. g[t \ {Chosen(t)}] = h[t \ {Chosen(t)}]
        BY <1>6, <3>1
      <3>3. g[t] = f[Chosen(t)] + g[t \ {Chosen(t)}]
        BY <1>5, <2>2
      <3>4. h[t] = f[Chosen(t)] + h[t \ {Chosen(t)}]
        BY <1>4, <2>2
      <3> QED BY <3>2, <3>3, <3>4
    <2> QED BY <2>1, <2>2
  <1>7. G = SUBSET I
    <2>1. IsFiniteSet(I)
      BY DEF Weighs
    <2> HIDE DEF G
    <2>2. G \in SUBSET SUBSET I
      BY DEF G
    <2> QED BY <1>6, <2>1, <2>2, SubsetsInductive
  <1>8. g[I] = h[I]
    BY <1>7
  <1>9. Adding(h, f, c, I)
    <2>1. h[{}] = 0
      BY <1>3 DEF Tallies
    <2>2. \A t \in SUBSET I : t # {} => h[t] = f[c[t]] + h[t \ {c[t]}]
      BY <1>3 DEF Tallies
    <2> QED BY <1>2, <2>1, <2>2 DEF Adding
  <1>10. Additive(h, f, I)
    BY <1>2, <1>9, AddingAny
  <1>11. SumOf(f, I) = h[I]
    BY <1>10, SumAdditive
  <1> QED BY <1>1, <1>8, <1>11

\* What weighs nothing may be left out.
LEMMA SumLess ==
    ASSUME NEW w, NEW I, Weighs(w, I), NEW J \in SUBSET I, \A x \in I \ J : w[x] = 0
    PROVE SumOf(w, I) = SumOf(w, J)
  <1> DEFINE G == {t \in SUBSET I : SumOf(w, t) = SumOf(w, t \cap J)}
  <1>1. ASSUME NEW t \in SUBSET I, \A x \in t : t \ {x} \in G PROVE t \in G
    <2>1. CASE t \subseteq J
      <3>1. t \cap J = t
        BY <2>1
      <3> QED BY <3>1
    <2>2. CASE \E x \in t : x \notin J
      <3>1. PICK x \in t : x \notin J
        BY <2>2
      <3>2. SumOf(w, t) = w[x] + SumOf(w, t \ {x}) /\ SumOf(w, t \ {x}) \in Int
        BY WeighsSubset, SumTake
      <3>3. SumOf(w, t \ {x}) = SumOf(w, (t \ {x}) \cap J)
        BY <1>1
      <3>4. (t \ {x}) \cap J = t \cap J
        BY <3>1
      <3>5. w[x] = 0
        BY <3>1
      <3>6. SumOf(w, t) = SumOf(w, t \ {x})
        BY <3>2, <3>5
      <3>7. SumOf(w, t) = SumOf(w, t \cap J)
        BY <3>3, <3>4, <3>6, Zenon
      <3> QED BY <3>7
    <2> QED BY <2>1, <2>2
  <1>2. G = SUBSET I
    <2>1. IsFiniteSet(I)
      BY DEF Weighs
    <2> HIDE DEF G
    <2>2. G \in SUBSET SUBSET I
      BY DEF G
    <2> QED BY <1>1, <2>1, <2>2, SubsetsInductive
  <1>3. I \in SUBSET I /\ I \cap J = J
    OBVIOUS
  <1> QED BY <1>2, <1>3

\* The more each element weighs, the more do all.
LEMMA SumGrow ==
    ASSUME NEW w, NEW I, Weighs(w, I), NEW v, Weighs(v, I), \A x \in I : w[x] <= v[x]
    PROVE SumOf(w, I) \in Int /\ SumOf(v, I) \in Int /\ SumOf(w, I) <= SumOf(v, I)
  <1>n. \A t \in SUBSET I : SumOf(w, t) \in Int /\ SumOf(v, t) \in Int
    BY WeighsSubset, SumType
  <1> DEFINE G == {t \in SUBSET I : SumOf(w, t) <= SumOf(v, t)}
  <1>1. ASSUME NEW t \in SUBSET I, \A x \in t : t \ {x} \in G PROVE t \in G
    <2>1. CASE t = {}
      BY <2>1, SumEmpty
    <2>2. CASE t # {}
      <3>1. PICK x \in t : TRUE
        BY <2>2
      <3>2. /\ SumOf(w, t) = w[x] + SumOf(w, t \ {x})
            /\ SumOf(v, t) = v[x] + SumOf(v, t \ {x})
        BY <3>1, WeighsSubset, SumTake
      <3>3. SumOf(w, t \ {x}) <= SumOf(v, t \ {x})
        BY <1>1, <3>1
      <3>4. w[x] <= v[x] /\ w[x] \in Int /\ v[x] \in Int
        BY <3>1 DEF Weighs
      <3>5. SumOf(w, t \ {x}) \in Int /\ SumOf(v, t \ {x}) \in Int
        BY <1>n
      <3> QED BY <3>2, <3>3, <3>4, <3>5
    <2> QED BY <2>1, <2>2
  <1>2. G = SUBSET I
    <2>1. IsFiniteSet(I)
      BY DEF Weighs
    <2> HIDE DEF G
    <2>2. G \in SUBSET SUBSET I
      BY DEF G
    <2> QED BY <1>1, <2>1, <2>2, SubsetsInductive
  <1>3. I \in SUBSET I
    OBVIOUS
  <1> QED BY <1>n, <1>2, <1>3

\* A sum of multiples of two weights.
LEMMA SumLinear ==
    ASSUME NEW w, NEW I, Weighs(w, I), NEW v, Weighs(v, I), NEW a \in Int, NEW b \in Int,
           NEW u, \A x \in I : u[x] = a * w[x] + b * v[x]
    PROVE Weighs(u, I) /\ SumOf(u, I) = a * SumOf(w, I) + b * SumOf(v, I)
  <1>0. Weighs(u, I)
    BY DEF Weighs
  <1>n. \A t \in SUBSET I : SumOf(w, t) \in Int /\ SumOf(v, t) \in Int /\ SumOf(u, t) \in Int
    BY <1>0, WeighsSubset, SumType
  <1> DEFINE G == {t \in SUBSET I : SumOf(u, t) = a * SumOf(w, t) + b * SumOf(v, t)}
  <1>1. ASSUME NEW t \in SUBSET I, \A x \in t : t \ {x} \in G PROVE t \in G
    <2>1. CASE t = {}
      BY <2>1, SumEmpty
    <2>2. CASE t # {}
      <3>1. PICK x \in t : TRUE
        BY <2>2
      <3>2. /\ SumOf(w, t) = w[x] + SumOf(w, t \ {x})
            /\ SumOf(v, t) = v[x] + SumOf(v, t \ {x})
            /\ SumOf(u, t) = u[x] + SumOf(u, t \ {x})
        BY <1>0, <3>1, WeighsSubset, SumTake
      <3>3. SumOf(u, t \ {x}) = a * SumOf(w, t \ {x}) + b * SumOf(v, t \ {x})
        BY <1>1, <3>1
      <3>4. u[x] = a * w[x] + b * v[x] /\ w[x] \in Int /\ v[x] \in Int
        BY <3>1 DEF Weighs
      <3>5. PICK p \in Int, q \in Int : p = SumOf(w, t \ {x}) /\ q = SumOf(v, t \ {x})
        BY <1>n
      <3>6. PICK y \in Int, z \in Int : y = w[x] /\ z = v[x]
        BY <3>4
      <3>7. a * y + b * z + (a * p + b * q) = a * (y + p) + b * (z + q)
        OBVIOUS
      <3> QED BY <3>2, <3>3, <3>4, <3>5, <3>6, <3>7
    <2> QED BY <2>1, <2>2
  <1>2. G = SUBSET I
    <2>1. IsFiniteSet(I)
      BY DEF Weighs
    <2> HIDE DEF G
    <2>2. G \in SUBSET SUBSET I
      BY DEF G
    <2> QED BY <1>1, <2>1, <2>2, SubsetsInductive
  <1>3. I \in SUBSET I
    OBVIOUS
  <1> QED BY <1>0, <1>2, <1>3

\* As many as there are elements.
LEMMA SumConstant ==
    ASSUME NEW I, IsFiniteSet(I), NEW k \in Int, NEW w, \A x \in I : w[x] = k
    PROVE Weighs(w, I) /\ SumOf(w, I) = k * Cardinality(I)
  <1>0. Weighs(w, I)
    BY DEF Weighs
  <1>n. \A t \in SUBSET I : IsFiniteSet(t) /\ Cardinality(t) \in Nat
    BY FS_Subset, FS_CardinalityType
  <1> DEFINE G == {t \in SUBSET I : SumOf(w, t) = k * Cardinality(t)}
  <1>1. ASSUME NEW t \in SUBSET I, \A x \in t : t \ {x} \in G PROVE t \in G
    <2>1. CASE t = {}
      BY <2>1, SumEmpty, FS_EmptySet
    <2>2. CASE t # {}
      <3>1. PICK x \in t : TRUE
        BY <2>2
      <3>2. SumOf(w, t) = k + SumOf(w, t \ {x})
        BY <1>0, <3>1, WeighsSubset, SumTake
      <3>3. SumOf(w, t \ {x}) = k * Cardinality(t \ {x})
        BY <1>1, <3>1
      <3>4. Cardinality(t) - 1 = Cardinality(t \ {x})
        BY <1>n, <3>1, FS_RemoveElement
      <3>5. PICK n \in Nat : n = Cardinality(t)
        BY <1>n
      <3>6. k * n = k + k * (n - 1)
        OBVIOUS
      <3> QED BY <3>2, <3>3, <3>4, <3>5, <3>6
    <2> QED BY <2>1, <2>2
  <1>2. G = SUBSET I
    <2> HIDE DEF G
    <2>2. G \in SUBSET SUBSET I
      BY DEF G
    <2> QED BY <1>1, <2>2, SubsetsInductive
  <1>3. I \in SUBSET I
    OBVIOUS
  <1> QED BY <1>0, <1>2, <1>3

-----------------------------------------------------------------------------
(* Extremes of finite sets.                                                *)

LEMMA ImageFinite == ASSUME NEW S, IsFiniteSet(S), NEW f PROVE IsFiniteSet({f[x] : x \in S})
  <1> DEFINE g == [x \in S |-> f[x]]
             T == {f[x] : x \in S}
  <1>1. g \in Surjection(S, T)
    BY DEF Surjection
  <1> QED BY <1>1, FS_Surjection

LEMMA ExtremesExist ==
    ASSUME NEW S \in SUBSET Int, IsFiniteSet(S), S # {}
    PROVE /\ \E m \in S : \A y \in S : m >= y
          /\ \E m \in S : \A y \in S : m <= y
  <1> DEFINE Top(t) == \E m \in t : \A y \in t : m >= y
             Bottom(t) == \E m \in t : \A y \in t : m <= y
             G == {t \in SUBSET S : t # {} => Top(t) /\ Bottom(t)}
  <1>1. ASSUME NEW t \in SUBSET S, \A x \in t : t \ {x} \in G PROVE t \in G
    <2> SUFFICES ASSUME t # {} PROVE Top(t) /\ Bottom(t)
      OBVIOUS
    <2>1. PICK x \in t : TRUE
      OBVIOUS
    <2>2. CASE t \ {x} = {}
      <3>1. t = {x} /\ x \in Int
        BY <2>1, <2>2
      <3> QED BY <3>1
    <2>3. CASE t \ {x} # {}
      <3>1. Top(t \ {x}) /\ Bottom(t \ {x})
        BY <1>1, <2>1, <2>3
      <3>2. PICK m \in t \ {x} : \A y \in t \ {x} : m >= y
        BY <3>1
      <3>3. PICK n \in t \ {x} : \A y \in t \ {x} : n <= y
        BY <3>1
      <3>4. x \in Int /\ m \in Int /\ n \in Int /\ \A y \in t : y \in Int
        OBVIOUS
      <3>5. Top(t)
        <4>1. CASE m >= x
          BY <3>2, <4>1
        <4>2. CASE x > m
          BY <2>1, <3>2, <3>4, <4>2
        <4> QED BY <3>4, <4>1, <4>2
      <3>6. Bottom(t)
        <4>1. CASE n <= x
          BY <3>3, <4>1
        <4>2. CASE x < n
          BY <2>1, <3>3, <3>4, <4>2
        <4> QED BY <3>4, <4>1, <4>2
      <3> QED BY <3>5, <3>6
    <2> QED BY <2>2, <2>3
  <1>2. G = SUBSET S
    <2> HIDE DEF G
    <2>2. G \in SUBSET SUBSET S
      BY DEF G
    <2> QED BY <1>1, <2>2, SubsetsInductive
  <1>3. S \in G
    BY <1>2
  <1> QED BY <1>3

LEMMA MaxOf ==
    ASSUME NEW S \in SUBSET Int, IsFiniteSet(S), S # {}
    PROVE Max(S) \in S /\ \A y \in S : Max(S) >= y
  BY ExtremesExist DEF Max

LEMMA MinOf ==
    ASSUME NEW S \in SUBSET Int, IsFiniteSet(S), S # {}
    PROVE Min(S) \in S /\ \A y \in S : Min(S) <= y
  BY ExtremesExist DEF Min

LEMMA PairFinite == ASSUME NEW a, NEW b PROVE IsFiniteSet({a, b})
  <1>1. IsFiniteSet({a})
    BY FS_Singleton
  <1>2. IsFiniteSet({a} \cup {b})
    BY <1>1, FS_AddElement
  <1>3. {a, b} = {a} \cup {b}
    OBVIOUS
  <1> QED BY <1>2, <1>3

LEMMA MaxPair == ASSUME NEW a \in Int, NEW b \in Int PROVE Max({a, b}) = IF a >= b THEN a ELSE b
  <1>1. {a, b} \in SUBSET Int /\ IsFiniteSet({a, b}) /\ {a, b} # {}
    BY PairFinite
  <1>2. Max({a, b}) \in {a, b} /\ \A y \in {a, b} : Max({a, b}) >= y
    BY <1>1, MaxOf
  <1> QED BY <1>2

LEMMA MinPair == ASSUME NEW a \in Int, NEW b \in Int PROVE Min({a, b}) = IF a <= b THEN a ELSE b
  <1>1. {a, b} \in SUBSET Int /\ IsFiniteSet({a, b}) /\ {a, b} # {}
    BY PairFinite
  <1>2. Min({a, b}) \in {a, b} /\ \A y \in {a, b} : Min({a, b}) <= y
    BY <1>1, MinOf
  <1> QED BY <1>2

-----------------------------------------------------------------------------
(* Finite sets laid out in an order.                                       *)

\* R orders I strictly.
Orders(R, I) ==
    /\ \A i \in I : <<i, i>> \notin R
    /\ \A i, j \in I : i # j => <<i, j>> \in R \/ <<j, i>> \in R
    /\ \A i, j, k \in I : <<i, j>> \in R /\ <<j, k>> \in R => <<i, k>> \in R

Least(i, t, R) == i \in t /\ \A j \in t \ {i} : <<i, j>> \in R

LEMMA LeastExists ==
    ASSUME NEW I, IsFiniteSet(I), NEW R, Orders(R, I), NEW s \in SUBSET I, s # {}
    PROVE \E i \in s : Least(i, s, R)
  <1> DEFINE G == {t \in SUBSET I : t # {} => \E i \in t : Least(i, t, R)}
  <1>1. ASSUME NEW t \in SUBSET I, \A x \in t : t \ {x} \in G PROVE t \in G
    <2> SUFFICES ASSUME t # {} PROVE \E i \in t : Least(i, t, R)
      OBVIOUS
    <2>1. PICK x \in t : TRUE
      OBVIOUS
    <2>2. CASE t \ {x} = {}
      BY <2>1, <2>2 DEF Least
    <2>3. CASE t \ {x} # {}
      <3>1. PICK m \in t \ {x} : Least(m, t \ {x}, R)
        BY <1>1, <2>1, <2>3
      <3>2. CASE <<m, x>> \in R
        BY <3>1, <3>2 DEF Least
      <3>3. CASE <<x, m>> \in R
        <4>1. \A j \in t \ {x} : <<x, j>> \in R
          BY <2>1, <3>1, <3>3 DEF Least, Orders
        <4> QED BY <2>1, <4>1 DEF Least
      <3> QED BY <2>1, <3>2, <3>3 DEF Orders
    <2> QED BY <2>2, <2>3
  <1>2. G = SUBSET I
    <2> HIDE DEF G
    <2>2. G \in SUBSET SUBSET I
      BY DEF G
    <2> QED BY <1>1, <2>2, SubsetsInductive
  <1> QED BY <1>2

\* c takes the least of the elements first.
LeastFirst(c, R, I) == \A t \in SUBSET I : t # {} => Least(c[t], t, R)

\* h lists the items at the indices, as c takes them.
Lists(h, items, c, I) ==
    h = [t \in SUBSET I |-> IF t = {} THEN <<>> ELSE <<items[c[t]]>> \o h[t \ {c[t]}]]

LEMMA ListsExist ==
    ASSUME NEW I, IsFiniteSet(I), NEW c, Choosing(c, I), NEW V, NEW items, \A i \in I : items[i] \in V
    PROVE \E h \in [SUBSET I -> Seq(V)] : Lists(h, items, c, I)
  <1> DEFINE step == [p \in I \X Seq(V) |-> <<items[p[1]]>> \o p[2]]
  <1>1. step \in [I \X Seq(V) -> Seq(V)] /\ <<>> \in Seq(V)
    <2>1. ASSUME NEW p \in I \X Seq(V) PROVE <<items[p[1]]>> \o p[2] \in Seq(V)
      <3>1. items[p[1]] \in V /\ p[2] \in Seq(V)
        OBVIOUS
      <3> HIDE <2>1
      <3> QED BY <3>1
    <2> QED BY <2>1
  <1>2. PICK h \in [SUBSET I -> Seq(V)] : Folds(h, <<>>, step, c, I)
    <2> HIDE DEF step
    <2> QED BY <1>1, FoldsExist
  <1>3. ASSUME NEW t \in SUBSET I, t # {}
        PROVE step[<<c[t], h[t \ {c[t]}]>>] = <<items[c[t]]>> \o h[t \ {c[t]}]
    <2>1. c[t] \in I /\ h[t \ {c[t]}] \in Seq(V)
      BY <1>3 DEF Choosing
    <2> QED BY <2>1
  <1>4. h = [t \in SUBSET I |-> IF t = {} THEN <<>> ELSE step[<<c[t], h[t \ {c[t]}]>>]]
    BY <1>2 DEF Folds
  <1>5. h = [t \in SUBSET I |-> IF t = {} THEN <<>> ELSE <<items[c[t]]>> \o h[t \ {c[t]}]]
    <2> HIDE DEF step
    <2> QED BY <1>3, <1>4
  <1> QED BY <1>5 DEF Lists

\* at names the elements of t in their order.
Enumerates(at, t, R) ==
    /\ at \in [1 .. Cardinality(t) -> t]
    /\ \A k, l \in 1 .. Cardinality(t) : k < l => <<at[k], at[l]>> \in R
    /\ \A i \in t : \E k \in 1 .. Cardinality(t) : at[k] = i

\* l is the items as at names them.
Listing(l, items, at, I) == l = [k \in 1 .. Cardinality(I) |-> items[at[k]]]

LEMMA ListsEnumerate ==
    ASSUME NEW I, IsFiniteSet(I), NEW R, Orders(R, I), NEW c, LeastFirst(c, R, I), NEW V,
           NEW items, \A i \in I : items[i] \in V, NEW h, Lists(h, items, c, I)
    PROVE \E at : Enumerates(at, I, R) /\ Listing(h[I], items, at, I)
  <1> DEFINE Of(t) == \E at : Enumerates(at, t, R) /\ h[t] = [k \in 1 .. Cardinality(t) |-> items[at[k]]]
             G == {t \in SUBSET I : Of(t)}
  <1>n. \A t \in SUBSET I : IsFiniteSet(t) /\ Cardinality(t) \in Nat
    BY FS_Subset, FS_CardinalityType
  <1>1. ASSUME NEW t \in SUBSET I, \A x \in t : t \ {x} \in G PROVE t \in G
    <2>1. CASE t = {}
      <3>1. Cardinality(t) = 0 /\ h[t] = <<>>
        BY <2>1, FS_EmptySet DEF Lists
      <3>2. Enumerates(<<>>, t, R)
        BY <2>1, <3>1 DEF Enumerates
      <3> QED BY <3>1, <3>2
    <2>2. CASE t # {}
      <3> DEFINE x == c[t]
                 r == t \ {x}
                 n == Cardinality(r)
      <3>1. x \in t /\ \A j \in r : <<x, j>> \in R
        BY <2>2 DEF LeastFirst, Least
      <3>2. h[t] = <<items[x]>> \o h[r]
        BY <2>2 DEF Lists
      <3> HIDE DEF x
      <3>3. PICK a : Enumerates(a, r, R) /\ h[r] = [k \in 1 .. n |-> items[a[k]]]
        BY <1>1, <3>1
      <3>4. n \in Nat /\ Cardinality(t) = n + 1
        BY <1>n, <3>1, FS_RemoveElement
      <3> HIDE DEF n, r
      <3> DEFINE at == [k \in 1 .. n + 1 |-> IF k = 1 THEN x ELSE a[k - 1]]
      <3>5. r \subseteq t /\ t = r \cup {x} /\ Cardinality(r) = n
        BY <3>1 DEF r, n
      <3>6. a \in [1 .. n -> r]
        BY <3>3, <3>5 DEF Enumerates
      <3>7. at \in [1 .. n + 1 -> t]
        BY <3>1, <3>4, <3>5, <3>6
      <3>8. ASSUME NEW k \in 1 .. n + 1, NEW l \in 1 .. n + 1, k < l PROVE <<at[k], at[l]>> \in R
        <4>1. l - 1 \in 1 .. n /\ at[l] = a[l - 1] /\ a[l - 1] \in r
          BY <3>4, <3>6, <3>8
        <4>2. CASE k = 1
          BY <3>1, <4>1, <4>2
        <4>3. CASE k # 1
          <5>1. k - 1 \in 1 .. n /\ k - 1 < l - 1 /\ at[k] = a[k - 1]
            BY <3>4, <3>8, <4>3
          <5>2. <<a[k - 1], a[l - 1]>> \in R
            BY <3>3, <3>5, <4>1, <5>1 DEF Enumerates
          <5> QED BY <4>1, <5>1, <5>2
        <4> QED BY <4>2, <4>3
      <3>9. ASSUME NEW i \in t PROVE \E k \in 1 .. n + 1 : at[k] = i
        <4>1. CASE i = x
          BY <3>4, <4>1
        <4>2. CASE i # x
          <5>1. PICK k \in 1 .. n : a[k] = i
            BY <3>3, <3>5, <4>2 DEF Enumerates
          <5>2. k + 1 \in 1 .. n + 1 /\ k + 1 # 1 /\ (k + 1) - 1 = k
            BY <3>4
          <5>3. at[k + 1] = i
            BY <5>1, <5>2
          <5> QED BY <5>2, <5>3
        <4> QED BY <4>1, <4>2
      <3>10. h[t] = [k \in 1 .. n + 1 |-> items[at[k]]]
        <4> DEFINE y == [k \in 1 .. n |-> items[a[k]]]
                   z == [k \in 1 .. n + 1 |-> items[at[k]]]
        <4>1. y \in Seq(V) /\ Len(y) = n
          <5>1. y \in [1 .. n -> V]
            BY <3>5, <3>6
          <5> HIDE DEF y
          <5>2. y \in Seq(V)
            BY <3>4, <5>1
          <5> QED BY <3>4, <5>1, <5>2, LenProperties
        <4>2. items[x] \in V
          BY <3>1
        <4>3. <<items[x]>> \o y = z
          <5>1. Len(<<items[x]>> \o y) = n + 1 /\ <<items[x]>> \o y \in Seq(V)
            <6> HIDE DEF y
            <6> QED BY <3>4, <4>1, <4>2
          <5>2. ASSUME NEW k \in 1 .. n + 1 PROVE (<<items[x]>> \o y)[k] = z[k]
            <6>1. CASE k = 1
              <7>1. (<<items[x]>> \o y)[1] = items[x]
                <8> HIDE DEF y
                <8> QED BY <4>1, <4>2
              <7> QED BY <6>1, <7>1
            <6>2. CASE k # 1
              <7>1. k - 1 \in 1 .. n
                BY <3>4, <6>2
              <7>2. (<<items[x]>> \o y)[k] = y[k - 1]
                <8> HIDE DEF y
                <8> QED BY <3>4, <4>1, <4>2, <6>2
              <7> QED BY <6>2, <7>1, <7>2
            <6> QED BY <6>1, <6>2
          <5>3. DOMAIN (<<items[x]>> \o y) = 1 .. n + 1
            <6> HIDE DEF y
            <6> QED BY <5>1, LenProperties
          <5>4. <<items[x]>> \o y = [k \in 1 .. n + 1 |-> (<<items[x]>> \o y)[k]]
            <6> HIDE DEF y
            <6> QED BY <5>1, <5>3
          <5>5. z = [k \in 1 .. n + 1 |-> z[k]]
            OBVIOUS
          <5> HIDE DEF y, z
          <5> QED BY <5>2, <5>4, <5>5
        <4>4. h[r] = y
          BY <3>3
        <4> HIDE DEF y, z
        <4>5. h[t] = z
          BY <3>2, <4>3, <4>4 DEF r
        <4> QED BY <4>5 DEF z
      <3>11. Enumerates(at, t, R)
        <4> HIDE DEF at
        <4> QED BY <3>4, <3>7, <3>8, <3>9 DEF Enumerates
      <3> HIDE DEF at
      <3> QED BY <3>4, <3>10, <3>11
    <2> QED BY <2>1, <2>2
  <1>2. G = SUBSET I
    <2> HIDE DEF G
    <2>2. G \in SUBSET SUBSET I
      BY DEF G
    <2> QED BY <1>1, <2>2, SubsetsInductive
  <1>3. I \in G
    BY <1>2
  <1> QED BY <1>3 DEF Listing

Less == {p \in Int \X Int : p[1] < p[2]}

LEMMA LessOrders == ASSUME NEW I \in SUBSET Int PROVE Orders(Less, I)
  BY DEF Orders, Less

\* Items are listed in the order of their indices.
LEMMA InOrder ==
    ASSUME NEW I \in SUBSET Int, IsFiniteSet(I), NEW V, NEW items, \A i \in I : items[i] \in V
    PROVE \E at : Enumerates(at, I, Less) /\ Listing(Sifted(items, I), items, at, I)
  <1> DEFINE First(t) == CHOOSE i \in t : \A j \in t \ {i} : i < j
             c == [t \in SUBSET I |-> First(t)]
             g == CHOOSE h : h = [t \in SUBSET I |-> IF t = {} THEN <<>> ELSE <<items[First(t)]>> \o h[t \ {First(t)}]]
  <1>1. Sifted(items, I) = g[I]
    BY DEF Sifted, Listed, MapThenFoldSet
  <1>2. ASSUME NEW t \in SUBSET I, t # {} PROVE Least(First(t), t, Less)
    <2>1. PICK m \in t : Least(m, t, Less)
      BY <1>2, LeastExists, LessOrders
    <2>2. \A j \in t \ {m} : m < j
      BY <2>1 DEF Least, Less
    <2>3. First(t) \in t /\ \A j \in t \ {First(t)} : First(t) < j
      BY <2>2
    <2> HIDE DEF First
    <2> QED BY <2>3 DEF Least, Less
  <1> HIDE DEF First
  <1>3. LeastFirst(c, Less, I) /\ Choosing(c, I)
    BY <1>2 DEF LeastFirst, Choosing, Least
  <1>4. \A t \in SUBSET I : c[t] = First(t)
    OBVIOUS
  <1> HIDE DEF c
  <1>5. PICK h \in [SUBSET I -> Seq(V)] : Lists(h, items, c, I)
    BY <1>3, ListsExist
  <1>6. h = [t \in SUBSET I |-> IF t = {} THEN <<>> ELSE <<items[First(t)]>> \o h[t \ {First(t)}]]
    BY <1>4, <1>5 DEF Lists
  <1>7. g = [t \in SUBSET I |-> IF t = {} THEN <<>> ELSE <<items[First(t)]>> \o g[t \ {First(t)}]]
    BY <1>6
  <1> HIDE DEF g
  <1>8. Lists(g, items, c, I)
    BY <1>4, <1>7 DEF Lists
  <1>9. \E at : Enumerates(at, I, Less) /\ Listing(g[I], items, at, I)
    BY <1>3, <1>8, LessOrders, ListsEnumerate
  <1> QED BY <1>1, <1>9, Zenon

\* The order of falling keys, and of rising indices among equal ones.
Falling(keys, n) == {p \in (1 .. n) \X (1 .. n) :
                        keys[p[1]] > keys[p[2]] \/ (keys[p[1]] = keys[p[2]] /\ p[1] < p[2])}

LEMMA FallingPairs ==
    ASSUME NEW n \in Nat, NEW keys \in [1 .. n -> Int], NEW i \in 1 .. n, NEW j \in 1 .. n
    PROVE <<i, j>> \in Falling(keys, n) <=> keys[i] > keys[j] \/ (keys[i] = keys[j] /\ i < j)
  BY DEF Falling

LEMMA FallingOrders ==
    ASSUME NEW n \in Nat, NEW keys \in [1 .. n -> Int] PROVE Orders(Falling(keys, n), 1 .. n)
  <1>1. \A i \in 1 .. n : keys[i] \in Int /\ i \in Int
    OBVIOUS
  <1>2. \A i, j \in 1 .. n : <<i, j>> \in Falling(keys, n)
            <=> keys[i] > keys[j] \/ (keys[i] = keys[j] /\ i < j)
    BY FallingPairs
  <1>3. \A i \in 1 .. n : <<i, i>> \notin Falling(keys, n)
    BY <1>1, <1>2
  <1>4. \A i, j \in 1 .. n : i # j => <<i, j>> \in Falling(keys, n) \/ <<j, i>> \in Falling(keys, n)
    BY <1>1, <1>2
  <1>5. \A i, j, k \in 1 .. n :
            <<i, j>> \in Falling(keys, n) /\ <<j, k>> \in Falling(keys, n) => <<i, k>> \in Falling(keys, n)
    BY <1>1, <1>2
  <1> QED BY <1>3, <1>4, <1>5 DEF Orders

LEMMA RankedOrder ==
    ASSUME NEW n \in Nat, NEW keys \in [1 .. n -> Int], NEW V, NEW items \in [1 .. n -> V]
    PROVE \E at : Enumerates(at, 1 .. n, Falling(keys, n)) /\ Listing(Ranked(items, keys), items, at, 1 .. n)
  <1> DEFINE I == 1 .. n
             First(t) == CHOOSE i \in t : \A j \in t \ {i} :
                            keys[i] > keys[j] \/ (keys[i] = keys[j] /\ i < j)
             c == [t \in SUBSET I |-> First(t)]
             g == CHOOSE h : h = [t \in SUBSET I |-> IF t = {} THEN <<>> ELSE <<items[First(t)]>> \o h[t \ {First(t)}]]
  <1>0. IsFiniteSet(I) /\ Cardinality(I) = n /\ DOMAIN items = I
    BY FS_Interval
  <1>1. Ranked(items, keys) = g[I]
    BY DEF Ranked, Listed, MapThenFoldSet
  <1>2. ASSUME NEW t \in SUBSET I, t # {} PROVE Least(First(t), t, Falling(keys, n))
    <2>0. \A i, j \in t : <<i, j>> \in Falling(keys, n)
            <=> keys[i] > keys[j] \/ (keys[i] = keys[j] /\ i < j)
      BY FallingPairs
    <2>1. PICK m \in t : Least(m, t, Falling(keys, n))
      BY <1>0, <1>2, LeastExists, FallingOrders
    <2>2. \A j \in t \ {m} : keys[m] > keys[j] \/ (keys[m] = keys[j] /\ m < j)
      BY <2>0, <2>1 DEF Least
    <2>3. First(t) \in t /\ \A j \in t \ {First(t)} :
             keys[First(t)] > keys[j] \/ (keys[First(t)] = keys[j] /\ First(t) < j)
      BY <2>2
    <2> HIDE DEF First
    <2> QED BY <2>0, <2>3 DEF Least
  <1> HIDE DEF First
  <1>3. LeastFirst(c, Falling(keys, n), I) /\ Choosing(c, I)
    BY <1>2 DEF LeastFirst, Choosing, Least
  <1>4. \A t \in SUBSET I : c[t] = First(t)
    OBVIOUS
  <1> HIDE DEF c
  <1>9. \A i \in I : items[i] \in V
    OBVIOUS
  <1> HIDE DEF I
  <1>5. PICK h \in [SUBSET I -> Seq(V)] : Lists(h, items, c, I)
    BY <1>0, <1>3, <1>9, ListsExist
  <1>6. h = [t \in SUBSET I |-> IF t = {} THEN <<>> ELSE <<items[First(t)]>> \o h[t \ {First(t)}]]
    BY <1>4, <1>5 DEF Lists
  <1>7. g = [t \in SUBSET I |-> IF t = {} THEN <<>> ELSE <<items[First(t)]>> \o g[t \ {First(t)}]]
    BY <1>6
  <1> HIDE DEF g
  <1>8. Lists(g, items, c, I)
    BY <1>4, <1>7 DEF Lists
  <1>10. Orders(Falling(keys, n), I)
    BY FallingOrders DEF I
  <1>11. \E at : Enumerates(at, I, Falling(keys, n)) /\ Listing(g[I], items, at, I)
    BY <1>0, <1>3, <1>8, <1>9, <1>10, ListsEnumerate
  <1> QED BY <1>1, <1>11, Zenon DEF I

-----------------------------------------------------------------------------
(* What a finalize leaves behind, stage by stage.                          *)

\* The stages after the named one, in the order of Stages.
Rest(name) ==
    CASE name = "summary" -> {"health", "events", "bridge", "budget", "render", "manifest", "index", "idle"}
      [] name = "health" -> {"events", "bridge", "budget", "render", "manifest", "index", "idle"}
      [] name = "events" -> {"bridge", "budget", "render", "manifest", "index", "idle"}
      [] name = "budget" -> {"render", "manifest", "index", "idle"}

\* The last finalize has been at the stage, and it did not raise.
Ran(name) == runs > 0 /\ stage \in Rest(name) /\ name \notin failed

\* No artifact arrived since the last finalize began.
Current == runs > 0 /\ asOf = ev.files

States == {"collected", "unavailable", "skipped"}

\* A collected layer has a score in the range, another one none.
Scores(f) ==
    /\ f \in [Layers -> [state : States, score : Percent \cup {None}]]
    /\ \A l \in Layers : IF f[l].state = "collected" THEN f[l].score \in Percent ELSE f[l].score = None

\* The layers of a summary of this evidence.
OfEvidence(f, evidence) == \A l \in Layers : (f[l].state = "collected") <=> HasEvidence(l, evidence)

MachineType ==
    /\ WellFormed(ev)
    /\ docs \in [summary : {docs.summary}, health : {docs.health}, events : {docs.events},
                 bridge : {docs.bridge}, budget : {docs.budget}]
    /\ stage \in {"jitsym", "summary"} \cup Rest("summary")
    /\ runs \in Nat

\* Evidence only grows, and not while a finalize runs.
EvidenceGrows ==
    /\ asOf \subseteq ev.files
    /\ stage # "idle" => Current

SummaryKept ==
    /\ docs.summary # None => Scores(docs.summary.layers)
    /\ (Current /\ Ran("summary") /\ docs.summary # None) => OfEvidence(docs.summary.layers, ev)

HealthKept ==
    /\ docs.health # None => docs.health.health \in Hundredths \cup {None}
    /\ Ran("health") => docs.summary # None /\ docs.health = HealthOf(CollectedScores(docs.summary))

EventsKept == (Current /\ Ran("events")) => docs.events = TimelineOf(ev)

BridgeKept == docs.bridge # None => \A h \in docs.bridge.hits : h.confidence \in Percent

BudgetKept ==
    Ran("budget") =>
        /\ docs.summary # None
        /\ \E budget \in Budgets \cup {DefaultBudget}, baseline \in {None, Theirs.summary} :
              docs.budget = BudgetDoc(docs.summary, Heats, budget, baseline)

\* Before the first finalize there is no document.
NothingYet == runs = 0 => stage = "idle" /\ docs = NoDocs

DocsInv ==
    MachineType /\ NothingYet /\ EvidenceGrows /\ SummaryKept /\ HealthKept /\ EventsKept /\ BridgeKept /\ BudgetKept

-----------------------------------------------------------------------------
(* The scores.                                                             *)

\* A ladder of the scorers: bounds, and the points they earn.
Rungs(ladder) == IsFiniteSet(ladder) /\ \A r \in ladder : r[2] \in Percent

LEMMA TierRange == ASSUME NEW value, NEW ladder, Rungs(ladder) PROVE Tier(value, ladder) \in Percent
  <1> DEFINE earned == {s \in ladder : value >= s[1]}
             points == {r[2] : r \in earned}
             two == [r \in earned |-> r[2]]
  <1>1. IsFiniteSet(earned) /\ \A r \in earned : r[2] \in Percent
    BY FS_Subset DEF Rungs
  <1>2. Tier(value, ladder) = Max({0} \cup points)
    BY DEF Tier
  <1> HIDE DEF earned
  <1>3. IsFiniteSet({two[r] : r \in earned})
    BY <1>1, ImageFinite
  <1>4. {two[r] : r \in earned} = points
    OBVIOUS
  <1>5. points \in SUBSET Percent
    BY <1>1
  <1> HIDE DEF points, two
  <1>6. IsFiniteSet({0} \cup points)
    BY <1>3, <1>4, FS_Singleton, FS_Union
  <1>7. {0} \cup points \in SUBSET Int /\ {0} \cup points # {} /\ {0} \cup points \in SUBSET Percent
    BY <1>5 DEF Percent
  <1>8. Max({0} \cup points) \in {0} \cup points
    BY <1>6, <1>7, MaxOf
  <1> QED BY <1>2, <1>7, <1>8

LEMMA OneRung == ASSUME NEW a, NEW p \in Percent PROVE Rungs({<<a, p>>})
  <1>1. IsFiniteSet({<<a, p>>})
    BY FS_Singleton
  <1>2. \A r \in {<<a, p>>} : r[2] \in Percent
    OBVIOUS
  <1> QED BY <1>1, <1>2 DEF Rungs

LEMMA MoreRungs ==
    ASSUME NEW s, Rungs(s), NEW a, NEW p \in Percent PROVE Rungs(s \cup {<<a, p>>})
  <1>1. Rungs({<<a, p>>})
    BY OneRung
  <1> QED BY <1>1, FS_Union DEF Rungs

LEMMA TwoRungs == ASSUME NEW a, NEW p \in Percent, NEW b, NEW q \in Percent PROVE Rungs({<<a, p>>, <<b, q>>})
  <1>1. Rungs({<<a, p>>} \cup {<<b, q>>})
    BY OneRung, MoreRungs, Zenon
  <1>2. {<<a, p>>, <<b, q>>} = {<<a, p>>} \cup {<<b, q>>}
    OBVIOUS
  <1> QED BY <1>1, <1>2, Zenon

LEMMA ThreeRungs ==
    ASSUME NEW a, NEW p \in Percent, NEW b, NEW q \in Percent, NEW c, NEW r \in Percent
    PROVE Rungs({<<a, p>>, <<b, q>>, <<c, r>>})
  <1>1. Rungs({<<a, p>>, <<b, q>>} \cup {<<c, r>>})
    BY TwoRungs, MoreRungs, Zenon
  <1>2. {<<a, p>>, <<b, q>>, <<c, r>>} = {<<a, p>>, <<b, q>>} \cup {<<c, r>>}
    OBVIOUS
  <1> QED BY <1>1, <1>2, Zenon

LEMMA FourRungs ==
    ASSUME NEW a, NEW p \in Percent, NEW b, NEW q \in Percent, NEW c, NEW r \in Percent, NEW d, NEW s \in Percent
    PROVE Rungs({<<a, p>>, <<b, q>>, <<c, r>>, <<d, s>>})
  <1>1. Rungs({<<a, p>>, <<b, q>>, <<c, r>>} \cup {<<d, s>>})
    BY ThreeRungs, MoreRungs, Zenon
  <1>2. {<<a, p>>, <<b, q>>, <<c, r>>, <<d, s>>} = {<<a, p>>, <<b, q>>, <<c, r>>} \cup {<<d, s>>}
    OBVIOUS
  <1> QED BY <1>1, <1>2, Zenon

LEMMA PairRange == ASSUME NEW a \in Percent, NEW b \in Percent PROVE Max({a, b}) \in Percent
  BY MaxPair DEF Percent

LEMMA TripleRange == ASSUME NEW a \in Percent, NEW b \in Percent, NEW c \in Percent PROVE Max({a, b, c}) \in Percent
  <1>1. {a, b, c} = {a, b} \cup {c}
    OBVIOUS
  <1>2. IsFiniteSet({a, b, c})
    <2>1. IsFiniteSet({a, b}) /\ IsFiniteSet({c})
      BY PairFinite, FS_Singleton, Zenon
    <2>2. IsFiniteSet({a, b} \cup {c})
      BY <2>1, FS_Union, Zenon
    <2> QED BY <1>1, <2>2, Zenon
  <1>3. {a, b, c} \in SUBSET Int /\ {a, b, c} # {}
    BY DEF Percent
  <1>4. Max({a, b, c}) \in {a, b, c}
    BY <1>2, <1>3, MaxOf
  <1> QED BY <1>4

LEMMA CapRange == ASSUME NEW n \in Nat PROVE Cap(n) \in Percent
  <1>1. Min({100, n}) = IF 100 <= n THEN 100 ELSE n
    <2>1. 100 \in Int /\ n \in Int
      OBVIOUS
    <2> QED BY <2>1, MinPair, Zenon
  <1> QED BY <1>1 DEF Cap, Percent

LEMMA PointsRange == ASSUME NEW condition, NEW n \in Percent PROVE Points(condition, n) \in {0, n}
  BY DEF Points

\* What is known of the evidence the scores are drawn from.
Numbers(evidence) ==
    /\ evidence.io.slowBlock \in Nat /\ evidence.io.mainIo \in Nat
    /\ evidence.gc.little \in Nat \cup {None}
    /\ DOMAIN evidence.gc.lines = 1 .. Len(evidence.gc.lines) /\ Len(evidence.gc.lines) \in Nat

LEMMA CpuRange == ASSUME NEW evidence PROVE CpuScore(evidence) \in Percent
  <1>1. Points(Hw(evidence).ipc \in 1 .. 49, 40) \in {0, 40}
    BY DEF Points
  <1>2. Points(Hw(evidence).ipc \in 50 .. 99, 20) \in {0, 20}
    BY DEF Points
  <1>3. Points("oncpu" \in evidence.files /\ evidence.stacks, 15) \in {0, 15}
    BY DEF Points
  <1> QED BY <1>1, <1>2, <1>3, CapRange DEF CpuScore

LEMMA CacheRange == ASSUME NEW evidence PROVE CacheScore(evidence) \in Percent
  <1>1. Tier(Hw(evidence).missRate, {<<151, 70>>, <<81, 40>>, <<31, 20>>}) \in Percent
    <2>1. 70 \in Percent /\ 40 \in Percent /\ 20 \in Percent
      BY DEF Percent
    <2>2. Rungs({<<151, 70>>, <<81, 40>>, <<31, 20>>})
      BY <2>1, ThreeRungs, Zenon
    <2> QED BY <2>2, TierRange
  <1>2. Tier(Hw(evidence).llc, {<<201, 50>>}) \in Percent
    <2>1. 50 \in Percent
      BY DEF Percent
    <2>2. Rungs({<<201, 50>>})
      BY <2>1, OneRung, Zenon
    <2> QED BY <2>2, TierRange
  <1> QED BY <1>1, <1>2, PairRange DEF CacheScore

LEMMA SyncRange == ASSUME NEW evidence PROVE SyncScore(evidence) \in Percent
  <1> DEFINE s == Window(evidence)
  <1>1. Tier(10 * Futex(evidence).slow, {<<20 * s, 90>>, <<5 * s, 65>>, <<s, 35>>, <<1, 15>>}) \in Percent
    <2>1. 90 \in Percent /\ 65 \in Percent /\ 35 \in Percent /\ 15 \in Percent
      BY DEF Percent
    <2>2. Rungs({<<20 * s, 90>>, <<5 * s, 65>>, <<s, 35>>, <<1, 15>>})
      BY <2>1, FourRungs, Zenon
    <2> QED BY <2>2, TierRange
  <1>2. Tier(Futex(evidence).waitMs, {<<100 * s, 80>>, <<30 * s, 50>>}) \in Percent
    <2>1. 80 \in Percent /\ 50 \in Percent
      BY DEF Percent
    <2>2. Rungs({<<100 * s, 80>>, <<30 * s, 50>>})
      BY <2>1, TwoRungs, Zenon
    <2> QED BY <2>2, TierRange
  <1> QED BY <1>1, <1>2, PairRange DEF SyncScore

LEMMA SchedulerRange == ASSUME NEW evidence PROVE SchedulerScore(evidence) \in Percent
  <1> DEFINE s == Window(evidence)
  <1>1. Points(Sched(evidence).slowBucket, 30) + Points(Sched(evidence).preempted, 20) \in Percent
    BY DEF Points, Percent
  <1>2. Tier(Sched(evidence).diskMs, {<<50 * s, 80>>, <<10 * s, 50>>, <<1, 25>>}) \in Percent
    <2>1. 80 \in Percent /\ 50 \in Percent /\ 25 \in Percent
      BY DEF Percent
    <2>2. Rungs({<<50 * s, 80>>, <<10 * s, 50>>, <<1, 25>>})
      BY <2>1, ThreeRungs, Zenon
    <2> QED BY <2>2, TierRange
  <1>3. Tier(Sched(evidence).runqMs, {<<50 * s, 75>>, <<21, 45>>}) \in Percent
    <2>1. 75 \in Percent /\ 45 \in Percent
      BY DEF Percent
    <2>2. Rungs({<<50 * s, 75>>, <<21, 45>>})
      BY <2>1, TwoRungs, Zenon
    <2> QED BY <2>2, TierRange
  <1> QED BY <1>1, <1>2, <1>3, TripleRange DEF SchedulerScore

LEMMA IoRange == ASSUME NEW evidence, Numbers(evidence) PROVE IoScore(evidence) \in Percent
  <1>1. Io(evidence).slowBlock \in Nat /\ Io(evidence).mainIo \in Nat
    BY DEF Io, Found, Numbers
  <1>2. Points(Io(evidence).slowRead, 20) \in {0, 20}
    BY DEF Points
  <1>3. Io(evidence).slowBlock * 15 + Points(Io(evidence).slowRead, 20) \in Nat
    BY <1>1, <1>2
  <1>4. 40 + Io(evidence).mainIo * 5 \in Nat
    BY <1>1
  <1>5. Cap(Io(evidence).slowBlock * 15 + Points(Io(evidence).slowRead, 20)) \in Percent
    BY <1>3, CapRange
  <1>6. Cap(40 + Io(evidence).mainIo * 5) \in Percent
    BY <1>4, CapRange
  <1>7. Points(Io(evidence).mainIo > 0, Cap(40 + Io(evidence).mainIo * 5)) \in Percent
    BY <1>6 DEF Points, Percent
  <1>8. Points(Io(evidence).fsync, 10) \in Percent
    BY DEF Points, Percent
  <1> QED BY <1>5, <1>7, <1>8, TripleRange DEF IoScore

LEMMA AppRange == ASSUME NEW evidence PROVE AppScore(evidence) \in Percent
  <1> DEFINE spike == \E r \in ToSet(evidence.app.replies) : r.spike
  <1>1. Points(evidence.app.tick, 10) \in {0, 10} /\ Points(spike, 30) \in {0, 30}
    BY DEF Points
  <1>2. AppScore(evidence) = Found(evidence, "app", Points(evidence.app.tick, 10) + Points(spike, 30), 0)
    BY DEF AppScore
  <1> HIDE DEF spike
  <1> QED BY <1>1, <1>2 DEF Found, Percent

LEMMA SlowLines ==
    ASSUME NEW lines, Len(lines) \in Nat, DOMAIN lines = 1 .. Len(lines)
    PROVE Len(Those(lines, LAMBDA l : l.kind = "slow")) \in Nat
  <1> DEFINE I == {i \in DOMAIN lines : lines[i].kind = "slow"}
             V == {lines[i] : i \in I}
  <1>1. I \in SUBSET Int /\ IsFiniteSet(I) /\ \A i \in I : lines[i] \in V
    <2>1. IsFiniteSet(DOMAIN lines) /\ I \in SUBSET DOMAIN lines /\ DOMAIN lines \in SUBSET Int
      BY FS_Interval
    <2>2. \A i \in I : lines[i] \in V
      OBVIOUS
    <2> HIDE DEF I
    <2> QED BY <2>1, <2>2, FS_Subset
  <1>2. Those(lines, LAMBDA l : l.kind = "slow") = Sifted(lines, I)
    BY DEF Those
  <1> HIDE DEF I, V
  <1>3. PICK at : Enumerates(at, I, Less) /\ Listing(Sifted(lines, I), lines, at, I)
    BY <1>1, InOrder
  <1>4. Cardinality(I) \in Nat
    BY <1>1, FS_CardinalityType
  <1> QED BY <1>2, <1>3, <1>4 DEF Listing

LEMMA GcRange == ASSUME NEW evidence, Numbers(evidence) PROVE GcScore(evidence) \in Percent
  <1>1. Gc(evidence).slow \in Nat
    <2>1. Gc(evidence).slow = Len(Found(evidence, "mono_gc",
                                        Those(evidence.gc.lines, LAMBDA l : l.kind = "slow"), <<>>))
      BY DEF Gc
    <2>2. CASE "mono_gc" \in evidence.files
      BY <2>1, <2>2, SlowLines DEF Found, Numbers
    <2>3. CASE "mono_gc" \notin evidence.files
      BY <2>1, <2>3 DEF Found
    <2> QED BY <2>2, <2>3
  <1>2. Gc(evidence).little \in Nat
    BY DEF Gc, Found, Numbers, Known
  <1>3. Min({40, Gc(evidence).little \div 50}) \in Nat
    <2>1. 40 \in Int /\ Gc(evidence).little \div 50 \in Int /\ Gc(evidence).little \div 50 >= 0
      BY <1>2
    <2>2. Min({40, Gc(evidence).little \div 50})
            = IF 40 <= Gc(evidence).little \div 50 THEN 40 ELSE Gc(evidence).little \div 50
      BY <2>1, MinPair, Zenon
    <2> QED BY <2>1, <2>2
  <1>4. Cap(Gc(evidence).slow * 25 + Min({40, Gc(evidence).little \div 50})) \in Percent
    BY <1>1, <1>3, CapRange
  <1>5. Tier(Gc(evidence).worstMs, {<<100, 85>>, <<50, 60>>}) \in Percent
    <2>1. 85 \in Percent /\ 60 \in Percent
      BY DEF Percent
    <2>2. Rungs({<<100, 85>>, <<50, 60>>})
      BY <2>1, TwoRungs, Zenon
    <2> QED BY <2>2, TierRange
  <1> QED BY <1>4, <1>5, PairRange DEF GcScore

LEMMA ScoreRange == ASSUME NEW evidence, Numbers(evidence), NEW l \in Layers PROVE Score(l, evidence) \in Percent
  BY CpuRange, CacheRange, SyncRange, SchedulerRange, IoRange, GcRange, AppRange DEF Score, Layers

\* Scoring: a layer is collected if and only if there is evidence for it, and has a score then.
LEMMA ScoredLayers ==
    ASSUME NEW evidence, Numbers(evidence) PROVE Scores(Scored(evidence)) /\ OfEvidence(Scored(evidence), evidence)
  <1> DEFINE f == Scored(evidence)
  <1>1. ASSUME NEW l \in Layers
        PROVE /\ f[l] \in [state : States, score : Percent \cup {None}]
              /\ IF f[l].state = "collected" THEN f[l].score \in Percent ELSE f[l].score = None
              /\ (f[l].state = "collected") <=> HasEvidence(l, evidence)
    <2>1. CASE HasEvidence(l, evidence)
      <3>1. f[l] = [state |-> "collected", score |-> Score(l, evidence)]
        BY <2>1 DEF Scored
      <3>2. Score(l, evidence) \in Percent
        BY ScoreRange
      <3> HIDE DEF f
      <3>3. f[l].state = "collected" /\ f[l].score = Score(l, evidence)
        BY <3>1
      <3>4. f[l] \in [state : States, score : Percent \cup {None}]
        BY <3>1, <3>2 DEF States
      <3> QED BY <2>1, <3>2, <3>3, <3>4, Zenon
    <2>2. CASE ~HasEvidence(l, evidence)
      <3>1. PICK state \in {"unavailable", "skipped"} : f[l] = [state |-> state, score |-> None]
        BY <2>2 DEF Scored
      <3> HIDE DEF f
      <3>2. f[l].state # "collected" /\ f[l].score = None
        BY <3>1
      <3>3. f[l] \in [state : States, score : Percent \cup {None}]
        BY <3>1 DEF States
      <3> QED BY <2>2, <3>2, <3>3, Zenon
    <2> QED BY <2>1, <2>2
  <1>2. f = [l \in Layers |-> f[l]]
    BY DEF Scored
  <1> HIDE DEF f
  <1>3. f \in [Layers -> [state : States, score : Percent \cup {None}]]
    BY <1>1, <1>2
  <1>4. Scores(f) /\ OfEvidence(f, evidence)
    BY <1>1, <1>3 DEF Scores, OfEvidence
  <1> QED BY <1>4 DEF f

\* What an adjustment never does.
Adjusts(f, g) == Scores(g) /\ \A l \in Layers : g[l].state = f[l].state

LEMMA RaisedAdjusts ==
    ASSUME NEW f, Scores(f), NEW layer \in Layers, NEW points \in Percent
    PROVE Adjusts(f, Raised(f, layer, points))
  <1> DEFINE g == Raised(f, layer, points)
  <1>1. PICK value : /\ g = [f EXCEPT ![layer].score = value]
                     /\ value = IF f[layer].state = "collected" THEN Max({f[layer].score, points}) ELSE f[layer].score
    BY DEF Raised
  <1>2. IF f[layer].state = "collected" THEN value \in Percent ELSE value = None
    BY <1>1, PairRange DEF Scores
  <1>3. value \in Percent \cup {None}
    BY <1>2
  <1> HIDE DEF g
  <1>4. /\ g[layer].state = f[layer].state /\ g[layer].score = value
        /\ \A l \in Layers \ {layer} : g[l] = f[l]
        /\ g \in [Layers -> [state : States, score : Percent \cup {None}]]
    BY <1>1, <1>3 DEF Scores
  <1>5. Adjusts(f, g)
    BY <1>2, <1>4 DEF Scores, Adjusts
  <1> QED BY <1>5 DEF g

LEMMA AdjustsMore == ASSUME NEW f, NEW g, Adjusts(f, g), NEW h, Adjusts(g, h) PROVE Adjusts(f, h)
  BY DEF Adjusts

LEMMA AdjustsNothing == ASSUME NEW f, Scores(f) PROVE Adjusts(f, f)
  BY DEF Adjusts

LEMMA MainThreadAdjusts == ASSUME NEW f, Scores(f), NEW ts PROVE Adjusts(f, MainThreadPressure(f, ts))
  <1>1. CASE ts = None
    BY <1>1, AdjustsNothing DEF MainThreadPressure
  <1>2. CASE ts # None
    <2> DEFINE points == Points(ts.share >= 500, IF ts.cpu >= 80 THEN 85 ELSE 55)
    <2>1. points \in Percent
      BY DEF Points, Percent
    <2>2. MainThreadPressure(f, ts) = Raised(f, "cpu", points)
      BY <1>2 DEF MainThreadPressure
    <2>3. "cpu" \in Layers
      BY DEF Layers
    <2> HIDE DEF points
    <2> QED BY <2>1, <2>2, <2>3, RaisedAdjusts
  <1> QED BY <1>1, <1>2

LEMMA GcAdjusts == ASSUME NEW f, Scores(f), NEW gc PROVE Adjusts(f, GcPressure(f, gc))
  <1> DEFINE churn == IF gc.gross # None THEN gc.gross ELSE gc.net
             points == Max({Tier(churn, {<<100, 80>>, <<40, 50>>}), Tier(gc.full, {<<3, 80>>, <<1, 50>>})})
  <1>1. 80 \in Percent /\ 50 \in Percent
    BY DEF Percent
  <1>2. Rungs({<<100, 80>>, <<40, 50>>}) /\ Rungs({<<3, 80>>, <<1, 50>>})
    BY <1>1, TwoRungs, Zenon
  <1> HIDE DEF churn
  <1>3. points \in Percent
    <2>1. Tier(churn, {<<100, 80>>, <<40, 50>>}) \in Percent /\ Tier(gc.full, {<<3, 80>>, <<1, 50>>}) \in Percent
      BY <1>2, TierRange
    <2> QED BY <2>1, PairRange
  <1>4. GcPressure(f, gc) = Raised(f, "runtime_gc", points)
    BY DEF GcPressure, churn
  <1>5. "runtime_gc" \in Layers
    BY DEF Layers
  <1> HIDE DEF points
  <1> QED BY <1>3, <1>4, <1>5, RaisedAdjusts

LEMMA LateTickAdjusts == ASSUME NEW f, Scores(f), NEW snap PROVE Adjusts(f, LateTickPressure(f, snap))
  <1>1. CASE snap.updates = 0
    BY <1>1, AdjustsNothing DEF LateTickPressure
  <1>2. CASE snap.updates # 0
    <2> DEFINE points == Tier(20 * snap.late, {<<5 * snap.updates, 90>>, <<snap.updates, 60>>})
    <2>1. 90 \in Percent /\ 60 \in Percent
      BY DEF Percent
    <2>2. Rungs({<<5 * snap.updates, 90>>, <<snap.updates, 60>>})
      BY <2>1, TwoRungs, Zenon
    <2>3. points \in Percent
      BY <2>2, TierRange
    <2>4. LateTickPressure(f, snap) = Raised(f, "app_sim", points)
      BY <1>2 DEF LateTickPressure
    <2>5. "app_sim" \in Layers
      BY DEF Layers
    <2> HIDE DEF points
    <2> QED BY <2>3, <2>4, <2>5, RaisedAdjusts
  <1> QED BY <1>1, <1>2

LEMMA TrendAdjusts == ASSUME NEW f, Scores(f), NEW mem PROVE Adjusts(f, TrendPressure(f, mem))
  <1>1. CASE mem = None
    BY <1>1, AdjustsNothing DEF TrendPressure
  <1>2. CASE mem # None
    <2> DEFINE points == Points(mem.slope >= 50 \/ (mem.fds # None /\ mem.fds >= 100), 70)
    <2>1. points \in Percent
      BY DEF Points, Percent
    <2>2. TrendPressure(f, mem) = Raised(f, "memory_cache", points)
      BY <1>2 DEF TrendPressure
    <2>3. "memory_cache" \in Layers
      BY DEF Layers
    <2> HIDE DEF points
    <2> QED BY <2>1, <2>2, <2>3, RaisedAdjusts
  <1> QED BY <1>1, <1>2

LEMMA SnapshotAdjusts == ASSUME NEW f, Scores(f), NEW evidence PROVE Adjusts(f, SnapshotPressure(f, evidence))
  <1>1. CASE ~Readable(evidence)
    BY <1>1, AdjustsNothing DEF SnapshotPressure
  <1>2. CASE Readable(evidence)
    <2> DEFINE g == GcPressure(f, GcMeta(evidence))
    <2>1. Adjusts(f, g)
      BY GcAdjusts
    <2>2. Scores(g)
      BY <2>1 DEF Adjusts
    <2>3. SnapshotPressure(f, evidence) = LateTickPressure(g, evidence.snap)
      BY <1>2 DEF SnapshotPressure
    <2> HIDE DEF g
    <2>4. Adjusts(g, LateTickPressure(g, evidence.snap))
      BY <2>2, LateTickAdjusts
    <2> QED BY <2>1, <2>3, <2>4, AdjustsMore
  <1> QED BY <1>1, <1>2

\* The layers of a summary have the state the evidence gives them and scores to match.
LEMMA SummaryLayers ==
    ASSUME NEW evidence, Numbers(evidence), NEW prior
    PROVE /\ Scores(SummaryOf(evidence, prior).layers)
          /\ OfEvidence(SummaryOf(evidence, prior).layers, evidence)
  <1> DEFINE f == Scored(evidence)
             g == MainThreadPressure(f, ThreadSummary(evidence))
             h == SnapshotPressure(g, evidence)
             k == TrendPressure(h, MemoryTrend(evidence))
  <1>1. SummaryOf(evidence, prior).layers = k
    BY DEF SummaryOf
  <1>2. Scores(f) /\ OfEvidence(f, evidence)
    BY ScoredLayers
  <1> HIDE DEF f
  <1>3. Adjusts(f, g)
    BY <1>2, MainThreadAdjusts
  <1> HIDE DEF g
  <1>4. Adjusts(g, h)
    BY <1>3, SnapshotAdjusts DEF Adjusts
  <1> HIDE DEF h
  <1>5. Adjusts(h, k)
    BY <1>4, TrendAdjusts DEF Adjusts
  <1> HIDE DEF k
  <1>6. Adjusts(f, k)
    BY <1>3, <1>4, <1>5, AdjustsMore
  <1>7. Scores(k) /\ OfEvidence(k, evidence)
    BY <1>2, <1>6 DEF Adjusts, OfEvidence
  <1> QED BY <1>1, <1>7

-----------------------------------------------------------------------------
(* The verdicts.                                                           *)

LEMMA CollectedType ==
    ASSUME NEW summary, Scores(summary.layers)
    PROVE /\ DOMAIN CollectedScores(summary) = {l \in Layers : summary.layers[l].state = "collected"}
          /\ \A l \in DOMAIN CollectedScores(summary) :
                CollectedScores(summary)[l] = summary.layers[l].score /\ CollectedScores(summary)[l] \in Percent
  BY DEF CollectedScores, Scores

LEMMA LayersFinite == IsFiniteSet(Layers)
  <1>1. Layers = {"cpu", "memory_cache"} \cup {"sync_locks", "scheduler"} \cup {"io", "runtime_gc"} \cup {"app_sim"}
    BY DEF Layers
  <1>2. /\ IsFiniteSet({"cpu", "memory_cache"}) /\ IsFiniteSet({"sync_locks", "scheduler"})
        /\ IsFiniteSet({"io", "runtime_gc"}) /\ IsFiniteSet({"app_sim"})
    BY PairFinite, FS_Singleton, Zenon
  <1>3. IsFiniteSet({"cpu", "memory_cache"} \cup {"sync_locks", "scheduler"})
    BY <1>2, FS_Union, Zenon
  <1>4. IsFiniteSet({"cpu", "memory_cache"} \cup {"sync_locks", "scheduler"} \cup {"io", "runtime_gc"})
    BY <1>2, <1>3, FS_Union, Zenon
  <1>5. IsFiniteSet({"cpu", "memory_cache"} \cup {"sync_locks", "scheduler"} \cup {"io", "runtime_gc"} \cup {"app_sim"})
    BY <1>2, <1>4, FS_Union, Zenon
  <1> QED BY <1>1, <1>5, Zenon

LEMMA WeightType == \A l \in Layers : Weight(l) \in 12 .. 18
  BY DEF Layers, Weight

\* A share of a whole, in hundredths of a point of a hundred.
LEMMA ShareRange ==
    ASSUME NEW s \in Nat, NEW c \in Nat, c > 0, s <= 100 * c
    PROVE RoundDiv(100 * s, c) \in Hundredths
  <1> DEFINE a == 200 * s + c
             b == 2 * c
             q == a \div b
  <1>1. a \in Nat /\ b \in Nat /\ b > 0 /\ a < 10001 * b
    OBVIOUS
  <1>2. RoundDiv(100 * s, c) = q
    BY DEF RoundDiv
  <1> HIDE DEF a, b
  <1>3. q \in Int /\ b * q <= a /\ q >= 0
    BY <1>1
  <1>4. b * q < 10001 * b
    BY <1>1, <1>3
  <1>5. q < 10001
    <2>1. SUFFICES ASSUME q >= 10001 PROVE FALSE
      BY <1>3
    <2> HIDE DEF q
    <2>2. PICK d \in Nat : q = 10001 + d
      <3>1. q - 10001 \in Nat /\ q = 10001 + (q - 10001)
        BY <1>3, <2>1
      <3> QED BY <3>1
    <2>3. b * q = 10001 * b + b * d
      BY <1>1, <2>2
    <2>4. b * d \in Nat
      BY <1>1, <2>2
    <2> QED BY <1>1, <1>4, <2>3, <2>4
  <1> HIDE DEF q
  <1>6. q \in Hundredths
    BY <1>3, <1>5 DEF Hundredths
  <1> QED BY <1>2, <1>6, Zenon

LEMMA CoverageType ==
    ASSUME NEW summary, Scores(summary.layers)
    PROVE LET scores == CollectedScores(summary)
              I == DOMAIN scores
              v == [l \in I |-> Weight(l)]
              w == [l \in I |-> Weight(l) * scores[l]]
          IN /\ Weighs(v, I) /\ Weighs(w, I)
             /\ Coverage(scores) = SumOf(v, I) /\ SumFunction(w) = SumOf(w, I)
             /\ Coverage(scores) \in Nat /\ SumOf(w, I) \in Nat /\ SumOf(w, I) <= 100 * Coverage(scores)
  <1> DEFINE scores == CollectedScores(summary)
             I == DOMAIN scores
             v == [l \in I |-> Weight(l)]
             w == [l \in I |-> Weight(l) * scores[l]]
             u == [l \in I |-> 100 * Weight(l)]
             o == [l \in I |-> 0]
  <1>1. I \in SUBSET Layers /\ \A l \in I : scores[l] \in Percent
    BY CollectedType
  <1>2. IsFiniteSet(I)
    BY <1>1, LayersFinite, FS_Subset
  <1>3. DOMAIN v = I /\ DOMAIN w = I
    OBVIOUS
  <1>4. Coverage(scores) = SumFunction(v)
    BY DEF Coverage
  <1> HIDE DEF scores
  <1> HIDE DEF I
  <1>5. \A l \in I : /\ v[l] \in 12 .. 18 /\ w[l] \in Nat /\ u[l] = 100 * v[l] + 0 * v[l]
                     /\ w[l] <= u[l] /\ o[l] = 0 /\ u[l] \in Nat
    <2> SUFFICES ASSUME NEW l \in I
                 PROVE /\ v[l] \in 12 .. 18 /\ w[l] \in Nat /\ u[l] = 100 * v[l] + 0 * v[l]
                       /\ w[l] <= u[l] /\ o[l] = 0 /\ u[l] \in Nat
      OBVIOUS
    <2>1. PICK a \in 12 .. 18 : a = Weight(l)
      BY <1>1, WeightType
    <2>2. PICK b \in 0 .. 100 : b = scores[l]
      BY <1>1 DEF Percent
    <2>3. v[l] = a /\ w[l] = a * b /\ u[l] = 100 * a /\ o[l] = 0
      BY <2>1, <2>2
    <2>4. a * b \in Nat /\ a * b <= 100 * a
      BY <2>1, <2>2
    <2> QED BY <2>3, <2>4
  <1> HIDE DEF v, w, u, o
  <1>6. Weighs(v, I) /\ Weighs(w, I) /\ Weighs(u, I) /\ Weighs(o, I)
    BY <1>2, <1>5 DEF Weighs
  <1>7. SumFunction(v) = SumOf(v, I) /\ SumFunction(w) = SumOf(w, I)
    BY <1>3, <1>6, FunctionSum
  <1>8. SumOf(u, I) = 100 * SumOf(v, I) + 0 * SumOf(v, I)
    BY <1>5, <1>6, SumLinear
  <1>9. SumOf(w, I) \in Int /\ SumOf(w, I) <= SumOf(u, I)
    BY <1>5, <1>6, SumGrow
  <1>10. SumOf(o, I) = 0 * Cardinality(I)
    BY <1>2, <1>5, SumConstant
  <1>11. SumOf(o, I) = 0
    BY <1>2, <1>10, FS_CardinalityType
  <1>12. SumOf(o, I) <= SumOf(v, I) /\ SumOf(o, I) <= SumOf(w, I) /\ SumOf(v, I) \in Int
    <2>1. (\A l \in I : o[l] <= v[l]) /\ \A l \in I : o[l] <= w[l]
      BY <1>5
    <2> QED BY <1>6, <2>1, SumGrow
  <1>13. SumOf(v, I) \in Nat /\ SumOf(w, I) \in Nat /\ SumOf(w, I) <= 100 * SumOf(v, I)
    BY <1>8, <1>9, <1>11, <1>12
  <1> QED BY <1>4, <1>6, <1>7, <1>13 DEF scores, I, v, w

LEMMA HealthRange ==
    ASSUME NEW summary, Scores(summary.layers)
    PROVE HealthOf(CollectedScores(summary)).health \in Hundredths \cup {None}
  <1> DEFINE scores == CollectedScores(summary)
             c == Coverage(scores)
             w == [l \in DOMAIN scores |-> Weight(l) * scores[l]]
             s == SumFunction(w)
  <1>1. c \in Nat /\ s \in Nat /\ s <= 100 * c
    BY CoverageType
  <1> HIDE DEF scores
  <1>2. CASE c < 80
    <2>1. HealthOf(scores).health = None
      BY <1>2 DEF HealthOf
    <2> QED BY <2>1 DEF scores
  <1>3. CASE ~(c < 80)
    <2>1. HealthOf(scores).health = 10000 - RoundDiv(100 * s, c)
      BY <1>3 DEF HealthOf
    <2> HIDE DEF c, s
    <2>2. c > 0
      BY <1>1, <1>3
    <2>3. RoundDiv(100 * s, c) \in Hundredths
      BY <1>1, <2>2, ShareRange, Zenon
    <2> DEFINE p == RoundDiv(100 * s, c)
    <2>4. p \in Hundredths
      BY <2>3
    <2>5. HealthOf(scores).health = 10000 - p
      BY <2>1
    <2> HIDE DEF p
    <2>6. HealthOf(scores).health \in Hundredths
      BY <2>4, <2>5 DEF Hundredths
    <2> QED BY <2>6 DEF scores
  <1> QED BY <1>2, <1>3, Zenon

LEMMA GradedCoverage ==
    ASSUME NEW summary, Scores(summary.layers), HealthOf(CollectedScores(summary)).grade # None
    PROVE Coverage(CollectedScores(summary)) >= 80
  <1> DEFINE scores == CollectedScores(summary)
  <1>1. Coverage(scores) \in Nat
    BY CoverageType
  <1> HIDE DEF scores
  <1>2. CASE Coverage(scores) < 80
    <2>1. HealthOf(scores).grade = None
      BY <1>2 DEF HealthOf
    <2> QED BY <2>1 DEF scores
  <1>3. CASE ~(Coverage(scores) < 80)
    BY <1>1, <1>3 DEF scores
  <1> QED BY <1>2, <1>3

\* A rule that fires is as confident as a percentage can be.
LEMMA HitRange ==
    ASSUME NEW native, NEW heats, NEW collected, NEW summary, \A r \in Rules : native[r.id] \in Nat,
           NEW h \in MatchRules(native, heats, collected, summary)
    PROVE h.confidence \in Percent
  <1> DEFINE sampled(r) == native[r.id] >= 5
             hot(r) == {n \in r.sections \cap DOMAIN heats : heats[n] >= 1}
             first(r) == Points(sampled(r), 45 + Min({20, native[r.id] \div 5}))
             second(r) == Points(SignalHit(r, summary), 30)
             third(r) == Points(hot(r) # {}, 35)
             sum(r) == first(r) + second(r) + third(r)
             open(r) == r.layer = None \/ r.layer \in collected
             fires(r) == open(r) /\ (sampled(r) \/ SignalHit(r, summary) \/ hot(r) # {})
             hit(r) == [id |-> r.id, layer |-> r.layer, confidence |-> Cap(sum(r))]
  <1>0. MatchRules(native, heats, collected, summary) = {hit(r) : r \in {q \in Rules : fires(q)}}
    BY DEF MatchRules
  <1>1. PICK r \in Rules : h.confidence = Cap(sum(r))
    <2> HIDE DEF sum, fires
    <2>1. PICK r \in {q \in Rules : fires(q)} : h = hit(r)
      BY <1>0
    <2> QED BY <2>1
  <1>2. second(r) \in Nat /\ third(r) \in Nat
    BY DEF Points
  <1>3. first(r) \in Nat
    <2>1. 20 \in Int /\ native[r.id] \div 5 \in Int /\ native[r.id] \div 5 >= 0
      OBVIOUS
    <2>2. Min({20, native[r.id] \div 5}) = IF 20 <= native[r.id] \div 5 THEN 20 ELSE native[r.id] \div 5
      BY <2>1, MinPair, Zenon
    <2>3. Min({20, native[r.id] \div 5}) \in Nat
      BY <2>1, <2>2
    <2> QED BY <2>3 DEF Points
  <1> HIDE DEF first, second, third
  <1>4. sum(r) \in Nat
    BY <1>2, <1>3
  <1> HIDE DEF sum
  <1> QED BY <1>1, <1>4, CapRange

LEMMA SumNatural ==
    ASSUME NEW w, NEW I, IsFiniteSet(I), \A x \in I : w[x] \in Nat
    PROVE Weighs(w, I) /\ SumOf(w, I) \in Nat
  <1> DEFINE o == [x \in I |-> 0]
  <1>1. Weighs(w, I) /\ Weighs(o, I)
    BY DEF Weighs
  <1>2. \A x \in I : o[x] = 0 /\ o[x] <= w[x]
    OBVIOUS
  <1> HIDE DEF o
  <1>3. SumOf(o, I) = 0 * Cardinality(I)
    BY <1>2, SumConstant
  <1>4. SumOf(o, I) = 0
    BY <1>3, FS_CardinalityType
  <1>5. SumOf(o, I) <= SumOf(w, I) /\ SumOf(w, I) \in Int
    BY <1>1, <1>2, SumGrow
  <1> QED BY <1>1, <1>4, <1>5

LEMMA RulesFinite == IsFiniteSet(Rules)
  <1> DEFINE a == Rule("gc_mono", "runtime_gc", {"GmUpdate", "World.TickEntities"})
             b == Rule("futex_lock", "sync_locks", {"GmUpdate", "World.TickEntities", "ConnectionManager.Update"})
             c == Rule("blocking_io", "io", {"GmUpdate", "GameManager.SaveWorld"})
             d == Rule("tick_entities", None, {"World.TickEntities"})
             e == Rule("network", None, {"ConnectionManager.Update"})
             f == Rule("main_loop", None, {"GmUpdate"})
  <1>1. Rules = {a, b, c, d, e, f}
    BY DEF Rules
  <1> HIDE DEF a, b, c, d, e, f
  <1>2. {a, b, c, d, e, f} = {a, b} \cup {c, d} \cup {e, f}
    OBVIOUS
  <1>3. IsFiniteSet({a, b}) /\ IsFiniteSet({c, d}) /\ IsFiniteSet({e, f})
    BY PairFinite, Zenon
  <1>4. IsFiniteSet({a, b} \cup {c, d})
    BY <1>3, FS_Union, Zenon
  <1>5. IsFiniteSet({a, b} \cup {c, d} \cup {e, f})
    BY <1>3, <1>4, FS_Union, Zenon
  <1> QED BY <1>1, <1>2, <1>5, Zenon

LEMMA WellFormedNumbers == ASSUME NEW evidence, WellFormed(evidence) PROVE Numbers(evidence)
  <1>1. PICK ids : evidence \in EvidenceRecords(ids)
    BY DEF WellFormed
  <1>2. evidence.io \in [slowBlock : Nat, mainIo : Nat, slowRead : BOOLEAN, fsync : BOOLEAN]
    BY <1>1, Zenon DEF EvidenceRecords
  <1>3. evidence.gc \in [lines : Seq([kind : {"slow", "stw"}, ms : Nat]), little : Nat \cup {None},
                       collect : Nat \cup {None}]
    BY <1>1, Zenon DEF EvidenceRecords
  <1>4. evidence.io.slowBlock \in Nat /\ evidence.io.mainIo \in Nat
    BY <1>2, Zenon
  <1>5. evidence.gc.lines \in Seq([kind : {"slow", "stw"}, ms : Nat]) /\ evidence.gc.little \in Nat \cup {None}
    BY <1>3, Zenon
  <1>6. DOMAIN evidence.gc.lines = 1 .. Len(evidence.gc.lines) /\ Len(evidence.gc.lines) \in Nat
    BY <1>5
  <1> QED BY <1>4, <1>5, <1>6 DEF Numbers

LEMMA WellFormedFrames ==
    ASSUME NEW evidence, WellFormed(evidence)
    PROVE /\ IsFiniteSet(DOMAIN evidence.frames)
          /\ \A id \in DOMAIN evidence.frames : evidence.frames[id] \in Nat
  <1> DEFINE known == {r.id : r \in Rules}
  <1>1. PICK ids \in SUBSET (known \cup {"other"}) : evidence \in EvidenceRecords(ids)
    BY DEF WellFormed
  <1>2. evidence.frames \in [ids -> Nat]
    BY <1>1, Zenon DEF EvidenceRecords
  <1>3. IsFiniteSet(known)
    <2> DEFINE name == [r \in Rules |-> r.id]
    <2>1. IsFiniteSet({name[r] : r \in Rules})
      BY RulesFinite, ImageFinite
    <2>2. {name[r] : r \in Rules} = known
      OBVIOUS
    <2> QED BY <2>1, <2>2
  <1> HIDE DEF known
  <1>4. IsFiniteSet(known \cup {"other"})
    BY <1>3, FS_AddElement
  <1>5. IsFiniteSet(ids)
    BY <1>4, FS_Subset
  <1> QED BY <1>2, <1>5

LEMMA NativeType ==
    ASSUME NEW evidence, WellFormed(evidence), NEW r \in Rules PROVE NativeShare(evidence)[r.id] \in Nat
  <1> DEFINE weights == FrameWeights(evidence)
             total == SumFunction(weights)
             id == r.id
  <1>1. NativeShare(evidence)[id] =
          IF weights = None THEN 0
          ELSE IF total = 0 \/ id \notin DOMAIN weights THEN 0 ELSE (1000 * weights[id]) \div total
    BY DEF NativeShare
  <1>2. weights = None \/ weights = evidence.frames
    BY DEF FrameWeights, Found
  <1> HIDE DEF weights
  <1>3. CASE weights = None
    BY <1>1, <1>3
  <1>4. CASE weights # None
    <2>1. IsFiniteSet(DOMAIN weights) /\ \A x \in DOMAIN weights : weights[x] \in Nat
      BY <1>2, <1>4, WellFormedFrames
    <2>2. Weighs(weights, DOMAIN weights) /\ SumOf(weights, DOMAIN weights) \in Nat
      BY <2>1, SumNatural
    <2>3. total \in Nat
      BY <2>2, FunctionSum
    <2> HIDE DEF total, id
    <2>4. ASSUME total = 0 \/ id \notin DOMAIN weights PROVE NativeShare(evidence)[id] \in Nat
      BY <1>1, <1>4, <2>4
    <2>5. ASSUME total # 0 /\ id \in DOMAIN weights PROVE NativeShare(evidence)[id] \in Nat
      <3>1. PICK n \in Nat : n = weights[id]
        BY <2>1, <2>5
      <3>2. NativeShare(evidence)[id] = (1000 * n) \div total
        BY <1>1, <1>4, <2>5, <3>1
      <3>3. (1000 * n) \div total \in Nat
        BY <2>3, <2>5
      <3> QED BY <3>2, <3>3
    <2> QED BY <2>4, <2>5 DEF id
  <1> QED BY <1>3, <1>4

LEMMA HitsRange ==
    ASSUME NEW evidence, WellFormed(evidence), NEW summary, NEW events,
           NEW h \in BridgeOf(evidence, summary, events).hits
    PROVE h.confidence \in Percent
  <1> DEFINE collected == IF summary = None THEN {} ELSE DOMAIN CollectedScores(summary)
             signals == IF summary = None THEN [gcs |-> [slow |-> 0, little |-> 0], locks |-> 0, blocks |-> 0]
                        ELSE summary
  <1>1. h \in MatchRules(NativeShare(evidence), SectionHeats(evidence), collected, signals)
    BY DEF BridgeOf
  <1>2. \A r \in Rules : NativeShare(evidence)[r.id] \in Nat
    BY NativeType
  <1> HIDE DEF collected, signals
  <1> QED BY <1>1, <1>2, HitRange

\* An artifact more leaves the evidence well formed.
LEMMA MoreEvidence ==
    ASSUME NEW evidence, WellFormed(evidence), NEW a \in Artifacts
    PROVE /\ WellFormed([evidence EXCEPT !.files = @ \cup {a}])
          /\ [evidence EXCEPT !.files = @ \cup {a}].files = evidence.files \cup {a}
  <1> DEFINE more == [evidence EXCEPT !.files = @ \cup {a}]
  <1>1. PICK ids \in SUBSET ({r.id : r \in Rules} \cup {"other"}) : evidence \in EvidenceRecords(ids)
    BY DEF WellFormed
  <1>2. evidence.files \in SUBSET Artifacts
    BY <1>1, Zenon DEF EvidenceRecords
  <1>3. more \in EvidenceRecords(ids) /\ more.snap = evidence.snap /\ more.files = evidence.files \cup {a}
    BY <1>1, <1>2 DEF EvidenceRecords
  <1> HIDE DEF more
  <1>4. WellFormed(more)
    BY <1>1, <1>3 DEF WellFormed, Readable
  <1> QED BY <1>3, <1>4 DEF more

\* The sections that are read are those of the snapshot.
LEMMA LoadStays ==
    ASSUME NEW a, NEW b, a.snap = b.snap, NEW ranked PROVE LoadSections(a, ranked) = LoadSections(b, ranked)
  <1>1. RawHeats(a) = RawHeats(b)
    BY DEF RawHeats, Readable
  <1> QED BY <1>1 DEF LoadSections

-----------------------------------------------------------------------------
(* The stages.                                                             *)

\* The stages follow each other; without the bridge stage, budget follows events.
LEMMA FollowingStages ==
    /\ Following("jitsym") = "summary" /\ Following("summary") = "health" /\ Following("health") = "events"
    /\ Following("events") \in {"bridge", "budget"} /\ Following("bridge") = "budget"
    /\ Following("budget") = "render" /\ Following("render") = "manifest"
    /\ Following("manifest") = "index" /\ Following("index") = "idle"
  <1>1. DOMAIN Stages = 1 .. 9 /\ Len(Stages) = 9
    BY DEF Stages
  <1>2. /\ Stages[1] = "jitsym" /\ Stages[2] = "summary" /\ Stages[3] = "health" /\ Stages[4] = "events"
        /\ Stages[5] = "bridge" /\ Stages[6] = "budget" /\ Stages[7] = "render" /\ Stages[8] = "manifest"
        /\ Stages[9] = "index"
    BY DEF Stages
  <1>3. \A i, j \in 1 .. 9 : Stages[i] = Stages[j] => i = j
    BY <1>2
  <1>4. ASSUME NEW i \in 1 .. 9
        PROVE Following(Stages[i]) =
                LET next == IF skipped /\ Stages[i] = "events" THEN i + 2 ELSE i + 1
                IN IF next > 9 THEN "idle" ELSE Stages[next]
    <2> DEFINE at == CHOOSE k \in DOMAIN Stages : Stages[k] = Stages[i]
    <2>1. at = i
      BY <1>1, <1>3
    <2> HIDE DEF at
    <2> QED BY <1>1, <2>1 DEF Following, at
  <1>5. ASSUME NEW i \in 1 .. 9, Stages[i] # "events"
        PROVE Following(Stages[i]) = IF i = 9 THEN "idle" ELSE Stages[i + 1]
    BY <1>4, <1>5
  <1>6. Following(Stages[4]) \in {Stages[5], Stages[6]}
    BY <1>4
  <1> QED BY <1>2, <1>5, <1>6

\* Where a step leaves the stages that ran.
LEMMA StageStep ==
    ASSUME MachineType, stage # "idle", stage' = Following(stage)
    PROVE /\ stage' \in Rest("summary") \cup {"summary"}
          /\ \A name \in {"summary", "health", "events", "budget"} :
                stage' \in Rest(name) => stage = name \/ stage \in Rest(name)
          /\ \A name \in {"summary", "health", "events", "budget"} : stage \in Rest(name) => stage # name
  BY FollowingStages DEF MachineType, Rest

\* The documents once the stage has written its own, one by one.
LEMMA AfterDocs ==
    ASSUME MachineType, NEW name
    PROVE LET d == After(name) IN
          /\ d.summary = IF name = "summary" THEN SummaryOf(ev, docs.bridge) ELSE docs.summary
          /\ d.health = IF name = "health" THEN HealthOf(CollectedScores(docs.summary)) ELSE docs.health
          /\ d.events = IF name = "events" THEN TimelineOf(ev) ELSE docs.events
          /\ d.bridge = IF name = "bridge" THEN BridgeOf(ev, docs.summary, docs.events) ELSE docs.bridge
          /\ d.budget = IF name = "budget" THEN BudgetDoc(docs.summary, Heats, DefaultBudget, None) ELSE docs.budget
          /\ d \in [summary : {d.summary}, health : {d.health}, events : {d.events},
                    bridge : {d.bridge}, budget : {d.budget}]
  <1> DEFINE s == SummaryOf(ev, docs.bridge)
             h == HealthOf(CollectedScores(docs.summary))
             e == TimelineOf(ev)
             b == BridgeOf(ev, docs.summary, docs.events)
             g == BudgetDoc(docs.summary, Heats, DefaultBudget, None)
             d == After(name)
  <1>1. d = CASE name = "summary" -> [docs EXCEPT !.summary = s]
              [] name = "health" -> [docs EXCEPT !.health = h]
              [] name = "events" -> [docs EXCEPT !.events = e]
              [] name = "bridge" -> [docs EXCEPT !.bridge = b]
              [] name = "budget" -> [docs EXCEPT !.budget = g]
              [] OTHER -> docs
    BY DEF After
  <1>2. docs \in [summary : {docs.summary}, health : {docs.health}, events : {docs.events},
                  bridge : {docs.bridge}, budget : {docs.budget}]
    BY DEF MachineType
  <1> HIDE DEF s, h, e, b, g, d
  <1>3. /\ d.summary = IF name = "summary" THEN s ELSE docs.summary
        /\ d.health = IF name = "health" THEN h ELSE docs.health
        /\ d.events = IF name = "events" THEN e ELSE docs.events
        /\ d.bridge = IF name = "bridge" THEN b ELSE docs.bridge
        /\ d.budget = IF name = "budget" THEN g ELSE docs.budget
        /\ d \in [summary : {d.summary}, health : {d.health}, events : {d.events},
                  bridge : {d.bridge}, budget : {d.budget}]
    <2>1. CASE name = "summary"
      <3>1. d = [docs EXCEPT !.summary = s]
        BY <1>1, <2>1
      <3> QED BY <1>2, <2>1, <3>1
    <2>2. CASE name = "health"
      <3>1. d = [docs EXCEPT !.health = h]
        BY <1>1, <2>2
      <3> QED BY <1>2, <2>2, <3>1
    <2>3. CASE name = "events"
      <3>1. d = [docs EXCEPT !.events = e]
        BY <1>1, <2>3
      <3> QED BY <1>2, <2>3, <3>1
    <2>4. CASE name = "bridge"
      <3>1. d = [docs EXCEPT !.bridge = b]
        BY <1>1, <2>4
      <3> QED BY <1>2, <2>4, <3>1
    <2>5. CASE name = "budget"
      <3>1. d = [docs EXCEPT !.budget = g]
        BY <1>1, <2>5
      <3> QED BY <1>2, <2>5, <3>1
    <2>6. CASE name \notin {"summary", "health", "events", "bridge", "budget"}
      <3>1. d = docs
        BY <1>1, <2>6
      <3> QED BY <1>2, <2>6, <3>1
    <2> QED BY <2>1, <2>2, <2>3, <2>4, <2>5, <2>6
  <1> QED BY <1>3 DEF s, h, e, b, g, d

\* A stage that ran, or raised: its document is written unless it raised.
Work ==
    /\ stage # "idle" /\ stage' = Following(stage)
    /\ ev' = ev /\ asOf' = asOf /\ runs' = runs
    /\ failed' \in {failed, failed \cup {stage}}
    /\ docs' = docs \/ (docs' = After(stage) /\ ~Impossible(stage))
    /\ stage \notin failed' => docs' = After(stage) /\ ~Impossible(stage)

LEMMA StagesWork == ASSUME RunStage \/ StageRaises PROVE Work
  <1>1. CASE RunStage
    BY <1>1 DEF RunStage, Work
  <1>2. CASE StageRaises
    <2>1. stage \in failed'
      BY <1>2 DEF StageRaises
    <2>2. docs' = docs \/ (docs' = After(stage) /\ ~Impossible(stage))
      BY <1>2 DEF StageRaises
    <2> QED BY <1>2, <2>1, <2>2 DEF StageRaises, Work
  <1> QED BY <1>1, <1>2

\* What the documents become by the work of a stage.
Wrote ==
    /\ docs'.summary = docs.summary \/ (stage = "summary" /\ docs'.summary = SummaryOf(ev, docs.bridge))
    /\ docs'.health = docs.health
         \/ (stage = "health" /\ docs.summary # None /\ docs'.health = HealthOf(CollectedScores(docs.summary)))
    /\ docs'.events = docs.events \/ (stage = "events" /\ docs'.events = TimelineOf(ev))
    /\ docs'.bridge = docs.bridge
         \/ (stage = "bridge" /\ docs'.bridge = BridgeOf(ev, docs.summary, docs.events))
    /\ docs'.budget = docs.budget
         \/ (stage = "budget" /\ docs.summary # None
               /\ docs'.budget = BudgetDoc(docs.summary, Heats, DefaultBudget, None))

\* And what they are if it did not raise.
Succeeded ==
    stage \notin failed' =>
        /\ stage = "summary" => docs'.summary = SummaryOf(ev, docs.bridge)
        /\ stage = "health" => docs.summary # None /\ docs'.health = HealthOf(CollectedScores(docs.summary))
        /\ stage = "events" => docs'.events = TimelineOf(ev)
        /\ stage = "budget" => /\ docs.summary # None
                               /\ docs'.budget = BudgetDoc(docs.summary, Heats, DefaultBudget, None)

LEMMA WorkWrites ==
    ASSUME MachineType, Work
    PROVE /\ Wrote /\ Succeeded
          /\ docs' \in [summary : {docs'.summary}, health : {docs'.health}, events : {docs'.events},
                        bridge : {docs'.bridge}, budget : {docs'.budget}]
  <1>1. ASSUME docs' = After(stage), ~Impossible(stage)
        PROVE /\ Wrote /\ Succeeded
              /\ docs' \in [summary : {docs'.summary}, health : {docs'.health}, events : {docs'.events},
                            bridge : {docs'.bridge}, budget : {docs'.budget}]
    <2>1. /\ docs'.summary = IF stage = "summary" THEN SummaryOf(ev, docs.bridge) ELSE docs.summary
          /\ docs'.health = IF stage = "health" THEN HealthOf(CollectedScores(docs.summary)) ELSE docs.health
          /\ docs'.events = IF stage = "events" THEN TimelineOf(ev) ELSE docs.events
          /\ docs'.bridge = IF stage = "bridge" THEN BridgeOf(ev, docs.summary, docs.events) ELSE docs.bridge
          /\ docs'.budget = IF stage = "budget" THEN BudgetDoc(docs.summary, Heats, DefaultBudget, None)
                            ELSE docs.budget
          /\ docs' \in [summary : {docs'.summary}, health : {docs'.health}, events : {docs'.events},
                        bridge : {docs'.bridge}, budget : {docs'.budget}]
      BY <1>1, AfterDocs
    <2>2. stage \in {"health", "budget"} => docs.summary # None
      BY <1>1 DEF Impossible
    <2> QED BY <2>1, <2>2, Zenon DEF Wrote, Succeeded
  <1>2. ASSUME docs' = docs, stage \in failed'
        PROVE /\ Wrote /\ Succeeded
              /\ docs' \in [summary : {docs'.summary}, health : {docs'.health}, events : {docs'.events},
                            bridge : {docs'.bridge}, budget : {docs'.budget}]
    BY <1>2, Zenon DEF Wrote, Succeeded, MachineType
  <1> QED BY <1>1, <1>2 DEF Work

Judgements == {"summary", "health", "events", "budget"}

LEMMA RanStep ==
    ASSUME MachineType, Work, NEW name \in Judgements, Ran(name)'
    PROVE (stage = name /\ stage \notin failed') \/ (Ran(name) /\ stage \in Rest(name) /\ stage # name)
  <1>1. stage' \in Rest(name) /\ name \notin failed' /\ runs > 0
    BY DEF Ran, Work
  <1>2. stage = name \/ stage \in Rest(name)
    BY <1>1, StageStep DEF Judgements, Work
  <1>3. stage \in Rest(name) => stage # name
    BY StageStep DEF Judgements, Work
  <1>4. name \notin failed
    BY <1>1 DEF Work
  <1> QED BY <1>1, <1>2, <1>3, <1>4 DEF Ran

LEMMA WorkType == ASSUME MachineType, Work PROVE MachineType'
  <1>1. ev' = ev /\ runs' = runs /\ stage' \in {"jitsym", "summary"} \cup Rest("summary")
    BY StageStep DEF Work
  <1>2. WellFormed(ev)' /\ runs' \in Nat
    BY <1>1 DEF MachineType
  <1> QED BY <1>1, <1>2, WorkWrites DEF MachineType

LEMMA WorkEvidence == ASSUME EvidenceGrows, Work PROVE EvidenceGrows'
  BY DEF EvidenceGrows, Work, Current

LEMMA WorkSummary == ASSUME MachineType, SummaryKept, Work PROVE SummaryKept'
  <1>1. Numbers(ev)
    BY WellFormedNumbers DEF MachineType
  <1>2. Wrote /\ Succeeded
    BY WorkWrites
  <1>3. ASSUME docs'.summary # None PROVE Scores(docs'.summary.layers)
    BY <1>1, <1>2, <1>3, SummaryLayers DEF Wrote, SummaryKept
  <1>4. ASSUME Current', Ran("summary")', docs'.summary # None PROVE OfEvidence(docs'.summary.layers, ev')
    <2>1. ev' = ev /\ Current
      BY <1>4 DEF Work, Current
    <2>2. CASE stage = "summary" /\ stage \notin failed'
      BY <1>1, <1>2, <2>1, <2>2, SummaryLayers DEF Succeeded
    <2>3. CASE Ran("summary") /\ stage # "summary"
      BY <1>2, <1>4, <2>1, <2>3 DEF Wrote, SummaryKept
    <2> QED BY <1>4, <2>2, <2>3, RanStep DEF Judgements
  <1> QED BY <1>3, <1>4 DEF SummaryKept

LEMMA WorkHealth == ASSUME MachineType, SummaryKept, HealthKept, Work PROVE HealthKept'
  <1>1. Wrote /\ Succeeded
    BY WorkWrites
  <1>2. ASSUME docs'.health # None PROVE docs'.health.health \in Hundredths \cup {None}
    <2>1. CASE docs'.health = docs.health
      BY <1>2, <2>1 DEF HealthKept
    <2>2. CASE docs.summary # None /\ docs'.health = HealthOf(CollectedScores(docs.summary))
      BY <2>2, HealthRange DEF SummaryKept
    <2> QED BY <1>1, <2>1, <2>2 DEF Wrote
  <1>3. ASSUME Ran("health")'
        PROVE docs'.summary # None /\ docs'.health = HealthOf(CollectedScores(docs'.summary))
    <2>1. CASE stage = "health" /\ stage \notin failed'
      <3>1. docs'.summary = docs.summary
        BY <1>1, <2>1 DEF Wrote
      <3> QED BY <1>1, <2>1, <3>1 DEF Succeeded
    <2>2. CASE Ran("health") /\ stage \in Rest("health") /\ stage # "health"
      <3>1. docs'.summary = docs.summary /\ docs'.health = docs.health
        BY <1>1, <2>2 DEF Wrote, Rest
      <3> QED BY <2>2, <3>1 DEF HealthKept
    <2> QED BY <1>3, <2>1, <2>2, RanStep DEF Judgements
  <1> QED BY <1>2, <1>3 DEF HealthKept

LEMMA WorkEvents == ASSUME MachineType, EventsKept, Work PROVE EventsKept'
  <1>1. Wrote /\ Succeeded
    BY WorkWrites
  <1>2. ASSUME Current', Ran("events")' PROVE docs'.events = TimelineOf(ev')
    <2>1. ev' = ev /\ Current
      BY <1>2 DEF Work, Current
    <2>2. CASE stage = "events" /\ stage \notin failed'
      BY <1>1, <2>1, <2>2 DEF Succeeded
    <2>3. CASE Ran("events") /\ stage # "events"
      BY <1>1, <2>1, <2>3 DEF Wrote, EventsKept
    <2> QED BY <1>2, <2>2, <2>3, RanStep DEF Judgements
  <1> QED BY <1>2 DEF EventsKept

LEMMA WorkBridge == ASSUME MachineType, BridgeKept, Work PROVE BridgeKept'
  <1>1. Wrote /\ WellFormed(ev)
    BY WorkWrites DEF MachineType
  <1>2. ASSUME docs'.bridge # None, NEW h \in docs'.bridge.hits PROVE h.confidence \in Percent
    <2>1. CASE docs'.bridge = docs.bridge
      BY <1>2, <2>1 DEF BridgeKept
    <2>2. CASE docs'.bridge = BridgeOf(ev, docs.summary, docs.events)
      <3>1. h \in BridgeOf(ev, docs.summary, docs.events).hits
        BY <1>2, <2>2
      <3> QED BY <1>1, <3>1, HitsRange
    <2> QED BY <1>1, <2>1, <2>2 DEF Wrote
  <1> QED BY <1>2 DEF BridgeKept

LEMMA WorkBudget == ASSUME MachineType, BudgetKept, Work PROVE BudgetKept'
  <1>1. Wrote /\ Succeeded
    BY WorkWrites
  <1>2. ASSUME Ran("budget")'
        PROVE /\ docs'.summary # None
              /\ \E budget \in Budgets \cup {DefaultBudget}, baseline \in {None, Theirs.summary} :
                    docs'.budget = BudgetDoc(docs'.summary, Heats', budget, baseline)
    <2>1. CASE stage = "budget" /\ stage \notin failed'
      <3>1. docs'.summary = docs.summary /\ docs'.bridge = docs.bridge
        BY <1>1, <2>1 DEF Wrote
      <3>2. Heats' = Heats
        BY <3>1 DEF Heats, RankedHeats
      <3> QED BY <1>1, <2>1, <3>1, <3>2 DEF Succeeded
    <2>2. CASE Ran("budget") /\ stage \in Rest("budget") /\ stage # "budget"
      <3>1. docs'.summary = docs.summary /\ docs'.bridge = docs.bridge /\ docs'.budget = docs.budget
        BY <1>1, <2>2 DEF Wrote, Rest
      <3>2. Heats' = Heats
        BY <3>1 DEF Heats, RankedHeats
      <3> QED BY <2>2, <3>1, <3>2 DEF BudgetKept
    <2> QED BY <1>2, <2>1, <2>2, RanStep DEF Judgements
  <1> QED BY <1>2 DEF BudgetKept

LEMMA DocsInit == ASSUME Init PROVE DocsInv
  <1>1. WellFormed(ev)
    BY EvidenceAssumption DEF Init
  <1>2. docs = NoDocs /\ stage = "idle" /\ runs = 0 /\ asOf = {}
    BY DEF Init
  <1>3. docs.summary = None /\ docs.health = None /\ docs.bridge = None
    BY <1>2 DEF NoDocs
  <1>4. MachineType
    BY <1>1, <1>2 DEF MachineType, NoDocs, Rest
  <1>5. runs > 0 <=> FALSE
    BY <1>2
  <1>6. EvidenceGrows
    BY <1>2 DEF EvidenceGrows
  <1>7. SummaryKept /\ HealthKept /\ EventsKept /\ BridgeKept /\ BudgetKept
    BY <1>3, <1>5 DEF SummaryKept, HealthKept, EventsKept, BridgeKept, BudgetKept, Ran
  <1>8. NothingYet
    BY <1>2 DEF NothingYet
  <1> QED BY <1>4, <1>6, <1>7, <1>8 DEF DocsInv

\* A step that leaves the documents and the evidence alone and no stage ran after.
LEMMA DocsBegin == ASSUME DocsInv, Begin PROVE DocsInv'
  <1>1. /\ ev' = ev /\ docs' = docs /\ stage' = "jitsym" /\ asOf' = ev.files /\ runs' = runs + 1
    BY DEF Begin, Stages
  <1>2. MachineType'
    BY <1>1 DEF DocsInv, MachineType
  <1>3. EvidenceGrows'
    BY <1>1 DEF DocsInv, MachineType, EvidenceGrows, Current
  <1>4. \A name \in Judgements : ~Ran(name)'
    BY <1>1 DEF Judgements, Ran, Rest
  <1>5. SummaryKept' /\ HealthKept' /\ EventsKept' /\ BridgeKept' /\ BudgetKept'
    BY <1>1, <1>4 DEF DocsInv, SummaryKept, HealthKept, EventsKept, BridgeKept, BudgetKept, Judgements
  <1>6. NothingYet'
    BY <1>1 DEF DocsInv, MachineType, NothingYet
  <1> QED BY <1>2, <1>3, <1>5, <1>6 DEF DocsInv

LEMMA DocsWork == ASSUME DocsInv, RunStage \/ StageRaises PROVE DocsInv'
  <1>1. Work
    BY StagesWork
  <1>2. NothingYet'
    BY <1>1 DEF DocsInv, NothingYet, Work
  <1> QED BY <1>1, <1>2, WorkType, WorkEvidence, WorkSummary, WorkHealth, WorkEvents, WorkBridge, WorkBudget DEF DocsInv

LEMMA DocsArrive == ASSUME DocsInv, Arrive PROVE DocsInv'
  <1>1. PICK a \in Arrivals \ ev.files : ev' = [ev EXCEPT !.files = @ \cup {a}]
    BY DEF Arrive
  <1>2. a \in Artifacts
    BY EvidenceAssumption
  <1>3. WellFormed(ev') /\ ev'.files = ev.files \cup {a}
    BY <1>1, <1>2, MoreEvidence DEF DocsInv, MachineType
  <1>4. docs' = docs /\ stage' = stage /\ asOf' = asOf /\ runs' = runs /\ failed' = failed /\ stage = "idle"
    BY DEF Arrive
  <1>5. ~Current'
    BY <1>1, <1>3, <1>4 DEF DocsInv, EvidenceGrows, Current
  <1>6. MachineType'
    BY <1>3, <1>4 DEF DocsInv, MachineType
  <1>7. EvidenceGrows'
    BY <1>3, <1>4 DEF DocsInv, EvidenceGrows
  <1>8. \A name \in Judgements : Ran(name)' = Ran(name)
    BY <1>4 DEF Ran
  <1>9. Heats' = Heats
    BY <1>4 DEF Heats, RankedHeats
  <1>10. SummaryKept' /\ EventsKept'
    BY <1>4, <1>5 DEF DocsInv, SummaryKept, EventsKept
  <1>11. HealthKept' /\ BridgeKept' /\ BudgetKept'
    BY <1>4, <1>8, <1>9 DEF DocsInv, HealthKept, BridgeKept, BudgetKept, Judgements
  <1>12. NothingYet'
    BY <1>4 DEF Arrive, NothingYet
  <1> QED BY <1>6, <1>7, <1>10, <1>11, <1>12 DEF DocsInv

\* Nothing but the answer changes.
LEMMA DocsAnswer ==
    ASSUME DocsInv, UNCHANGED <<ev, docs, stage, failed, asOf, runs>> PROVE DocsInv'
  <1>1. Heats' = Heats
    BY DEF Heats, RankedHeats
  <1>2. \A name \in Judgements : Ran(name)' = Ran(name)
    BY DEF Ran
  <1>3. Current' = Current
    BY DEF Current
  <1> QED BY <1>1, <1>2, <1>3 DEF DocsInv, MachineType, NothingYet, EvidenceGrows, SummaryKept, HealthKept, EventsKept,
                                  BridgeKept, BudgetKept, Judgements

LEMMA DocsBudget == ASSUME DocsInv, BudgetCommand PROVE DocsInv'
  <1>1. docs.summary # None /\ stage = "idle" /\ runs > 0
    BY DEF BudgetCommand, Idle
  <1>2. PICK budget \in Budgets, baseline \in {None, Theirs.summary} :
            docs' = [docs EXCEPT !.budget = BudgetDoc(docs.summary, Heats, budget, baseline)]
    BY DEF BudgetCommand
  <1> DEFINE doc == BudgetDoc(docs.summary, Heats, budget, baseline)
  <1>3. docs \in [summary : {docs.summary}, health : {docs.health}, events : {docs.events},
                  bridge : {docs.bridge}, budget : {docs.budget}]
    BY DEF DocsInv, MachineType
  <1> HIDE DEF doc
  <1>4. docs' = [docs EXCEPT !.budget = doc]
    BY <1>2 DEF doc
  <1>5. /\ docs'.summary = docs.summary /\ docs'.health = docs.health /\ docs'.events = docs.events
        /\ docs'.bridge = docs.bridge /\ docs'.budget = doc
        /\ docs' \in [summary : {docs'.summary}, health : {docs'.health}, events : {docs'.events},
                      bridge : {docs'.bridge}, budget : {docs'.budget}]
    BY <1>3, <1>4
  <1>6. ev' = ev /\ stage' = stage /\ failed' = failed /\ asOf' = asOf /\ runs' = runs
    BY DEF BudgetCommand
  <1>7. Heats' = Heats
    BY <1>5 DEF Heats, RankedHeats
  <1>8. \A name \in Judgements : Ran(name)' = Ran(name)
    BY <1>6 DEF Ran
  <1>9. Current' = Current
    BY <1>6 DEF Current
  <1>10. MachineType' /\ EvidenceGrows'
    BY <1>5, <1>6, <1>9 DEF DocsInv, MachineType, EvidenceGrows
  <1>11. SummaryKept' /\ HealthKept' /\ EventsKept' /\ BridgeKept'
    BY <1>5, <1>6, <1>8, <1>9 DEF DocsInv, SummaryKept, HealthKept, EventsKept, BridgeKept, Judgements
  <1>12. BudgetKept'
    <2>1. docs'.budget = BudgetDoc(docs'.summary, Heats', budget, baseline)
      BY <1>5, <1>7 DEF doc
    <2> QED BY <1>1, <1>5, <2>1 DEF BudgetKept
  <1>13. NothingYet'
    BY <1>1, <1>6 DEF NothingYet
  <1> QED BY <1>10, <1>11, <1>12, <1>13 DEF DocsInv

LEMMA DocsStep == ASSUME DocsInv, [Next]_vars PROVE DocsInv'
  <1>1. CASE Compare \/ Scaling \/ Done \/ UNCHANGED vars
    BY <1>1, DocsAnswer DEF Compare, Scaling, Done, vars
  <1> QED BY <1>1, DocsBegin, DocsWork, DocsArrive, DocsBudget DEF Next

\* The documents are those of the stages that wrote them.
THEOREM DocumentsKept == Spec => []DocsInv
  <1>1. Init => DocsInv
    BY DocsInit
  <1>2. DocsInv /\ [Next]_vars => DocsInv'
    BY DocsStep
  <1> QED BY <1>1, <1>2, PTL DEF Spec

LEMMA CleanState == ASSUME DocsInv PROVE CleanFinalizeIsCurrent
  <1> SUFFICES ASSUME stage = "idle", runs > 0, failed \cap Required = {}, asOf = ev.files
               PROVE /\ docs.summary # None /\ docs.health = HealthOf(CollectedScores(docs.summary))
                     /\ \A l \in Layers : (docs.summary.layers[l].state = "collected") <=> HasEvidence(l, ev)
                     /\ docs.events = TimelineOf(ev)
    BY DEF CleanFinalizeIsCurrent
  <1>1. "summary" \notin failed /\ "health" \notin failed /\ "events" \notin failed
    BY DEF Required
  <1>2. Ran("summary") /\ Ran("health") /\ Ran("events") /\ Current
    BY <1>1 DEF Ran, Rest, Current
  <1>3. docs.summary # None /\ docs.health = HealthOf(CollectedScores(docs.summary))
    BY <1>2 DEF DocsInv, HealthKept
  <1>4. OfEvidence(docs.summary.layers, ev)
    BY <1>2, <1>3 DEF DocsInv, SummaryKept
  <1>5. docs.events = TimelineOf(ev)
    BY <1>2 DEF DocsInv, EventsKept
  <1> QED BY <1>3, <1>4, <1>5 DEF OfEvidence

\* A finalize whose required stages did not raise leaves the health of the summary it
\* leaves, the layers the evidence gives and the timeline of the evidence, whatever
\* an earlier one left and whichever of the other stages raised (finalize.py).
THEOREM CleanIsCurrent == Spec => []CleanFinalizeIsCurrent
  BY DocumentsKept, CleanState, PTL

LEMMA ScoresState == ASSUME DocsInv PROVE ScoresFollowEvidence
  BY DEF DocsInv, SummaryKept, Scores, HealthKept, BridgeKept, ScoresFollowEvidence

\* Whatever evidence is there and whatever an earlier finalize left: a layer has a
\* score, between 0 and 100, if and only if it was collected, and the health and the
\* confidences drawn from the scores are in their range (report.py, health.py, bridge.py).
THEOREM ScoresFollow == Spec => []ScoresFollowEvidence
  BY DocumentsKept, ScoresState, PTL

LEMMA HealthState == ASSUME DocsInv PROVE HealthNeedsEvidence
  <1> SUFFICES ASSUME docs.health # None, docs.health.grade # None, asOf = ev.files, stage = "idle",
                      failed \cap {"summary", "health"} = {}
               PROVE SumFunction([l \in {m \in Layers : HasEvidence(m, ev)} |-> Weight(l)]) >= 80
    BY DEF HealthNeedsEvidence
  <1>1. runs > 0
    BY DEF DocsInv, NothingYet, NoDocs, MachineType
  <1>2. Ran("summary") /\ Ran("health") /\ Current
    BY <1>1 DEF Ran, Rest, Current
  <1>3. docs.summary # None /\ docs.health = HealthOf(CollectedScores(docs.summary))
    BY <1>2 DEF DocsInv, HealthKept
  <1>4. Scores(docs.summary.layers) /\ OfEvidence(docs.summary.layers, ev)
    BY <1>2, <1>3 DEF DocsInv, SummaryKept
  <1> DEFINE scores == CollectedScores(docs.summary)
  <1>5. Coverage(scores) >= 80
    BY <1>3, <1>4, GradedCoverage
  <1>6. DOMAIN scores = {m \in Layers : HasEvidence(m, ev)}
    BY <1>4, CollectedType DEF OfEvidence
  <1>7. Coverage(scores) = SumFunction([l \in DOMAIN scores |-> Weight(l)])
    BY DEF Coverage
  <1> HIDE DEF scores
  <1> QED BY <1>5, <1>6, <1>7

\* A limit the budget names compares with a score, or is Junk or null.
LEMMA BudgetLimits ==
    ASSUME NEW budget \in Budgets \cup {DefaultBudget}, NEW l \in DOMAIN budget.layers
    PROVE budget.layers[l] \in Int \cup {Junk, None}
  <1>1. CASE budget \in Budgets
    BY <1>1, BudgetAssumption
  <1>2. CASE budget = DefaultBudget
    <2>1. budget.layers = [k \in Layers |-> CASE k = "sync_locks" -> 70
                                              [] k \in {"runtime_gc", "app_sim"} -> 60
                                              [] OTHER -> 50]
      BY <1>2 DEF DefaultBudget
    <2>2. budget.layers[l] \in {70, 60, 50}
      BY <2>1
    <2> QED BY <2>2
  <1> QED BY <1>1, <1>2

\* A budget that passes found every layer it names within the limit.
LEMMA PassedLayers ==
    ASSUME NEW summary, Scores(summary.layers), NEW heats, NEW baseline, NEW budget \in Budgets \cup {DefaultBudget},
           Passes(Checks(summary, heats, budget, baseline, 15)), NEW l \in DOMAIN budget.layers
    PROVE /\ l \in Layers /\ summary.layers[l].state = "collected"
          /\ budget.layers[l] \notin {Junk, None} /\ summary.layers[l].score <= budget.layers[l]
  <1> DEFINE scores == CollectedScores(summary)
             limit == budget.layers[l]
  <1>1. LayerGate(scores, l, limit) \in Checks(summary, heats, budget, baseline, 15)
    BY DEF Checks
  <1>2. LayerGate(scores, l, limit) \notin {"FAIL", "UNKNOWN"}
    BY <1>1 DEF Passes
  <1>3. limit \in Int \cup {Junk, None}
    BY BudgetLimits
  <1>4. /\ DOMAIN scores = {k \in Layers : summary.layers[k].state = "collected"}
        /\ \A k \in DOMAIN scores : scores[k] = summary.layers[k].score /\ scores[k] \in Percent
    BY CollectedType
  <1> HIDE DEF scores, limit
  <1>5. l \in DOMAIN scores
    BY <1>2 DEF LayerGate
  <1>6. Gate(scores[l], limit) \notin {"FAIL", "UNKNOWN"}
    BY <1>2, <1>5 DEF LayerGate
  <1>7. limit \notin {Junk, None}
    BY <1>6 DEF Gate
  <1>8. ~(scores[l] > limit)
    BY <1>6, <1>7 DEF Gate
  <1>9. scores[l] <= limit
    BY <1>3, <1>4, <1>5, <1>7, <1>8 DEF Percent
  <1> QED BY <1>4, <1>5, <1>7, <1>9 DEF limit

LEMMA BudgetState == ASSUME DocsInv PROVE BudgetFailsClosed
  <1> SUFFICES ASSUME docs.budget # None, docs.budget.passed, asOf = ev.files, stage = "idle",
                      failed \cap {"summary", "budget"} = {}, NEW l \in DOMAIN docs.budget.budget.layers
               PROVE /\ HasEvidence(l, ev)
                     /\ docs.budget.budget.layers[l] \notin {Junk, None}
                     /\ docs.summary.layers[l].score <= docs.budget.budget.layers[l]
    BY DEF BudgetFailsClosed
  <1>1. runs > 0
    BY DEF DocsInv, NothingYet, NoDocs, MachineType
  <1>2. Ran("summary") /\ Ran("budget") /\ Current
    BY <1>1 DEF Ran, Rest, Current
  <1>3. PICK budget \in Budgets \cup {DefaultBudget}, baseline \in {None, Theirs.summary} :
            docs.budget = BudgetDoc(docs.summary, Heats, budget, baseline)
    BY <1>2 DEF DocsInv, BudgetKept
  <1>4. docs.summary # None
    BY <1>2 DEF DocsInv, BudgetKept
  <1>5. Scores(docs.summary.layers) /\ OfEvidence(docs.summary.layers, ev)
    BY <1>2, <1>4 DEF DocsInv, SummaryKept
  <1>6. docs.budget.budget = budget /\ Passes(Checks(docs.summary, Heats, budget, baseline, 15))
    BY <1>3 DEF BudgetDoc
  <1>7. /\ l \in Layers /\ docs.summary.layers[l].state = "collected"
        /\ budget.layers[l] \notin {Junk, None} /\ docs.summary.layers[l].score <= budget.layers[l]
    BY <1>5, <1>6, PassedLayers
  <1> QED BY <1>5, <1>6, <1>7 DEF OfEvidence

LEMMA GatesState == ASSUME DocsInv PROVE GatesNeedEvidence
  BY HealthState, BudgetState DEF GatesNeedEvidence

\* No budget passes a layer without evidence or over its limit, whichever budget and
\* baseline the command was given and whatever was left by earlier finalizes, and no
\* session is graded on evidence for less than four fifths of the weight
\* (budget.py, health.py).
THEOREM GatesStand == Spec => []GatesNeedEvidence
  BY DocumentsKept, GatesState, PTL

-----------------------------------------------------------------------------
(* Managed time.                                                           *)

\* What is known of a snapshot that parsed.
Parses(snap) ==
    /\ IsFiniteSet(snap.sections) /\ snap.rate \in Nat
    /\ \A s \in snap.sections : s.total \in Nat /\ s.avg \in Nat /\ s.p95 \in Nat

LEMMA ReadableSnapshot ==
    ASSUME NEW evidence, WellFormed(evidence), Readable(evidence)
    PROVE evidence.snap \in SnapshotRecords /\ Parses(evidence.snap)
  <1>1. PICK ids : evidence \in EvidenceRecords(ids)
    BY DEF WellFormed
  <1>2. evidence.snap \in SnapshotRecords \cup {None, Malformed}
    BY <1>1, Zenon DEF EvidenceRecords
  <1>3. evidence.snap \in SnapshotRecords
    BY <1>2 DEF Readable
  <1>4. evidence.snap.rate \in Nat /\ evidence.snap.sections \in SUBSET SectionRecords
    BY <1>3, Zenon DEF SnapshotRecords
  <1>5. \A s \in SectionRecords : s.total \in Nat /\ s.avg \in Nat /\ s.p95 \in Nat
    BY Zenon DEF SectionRecords
  <1>6. IsFiniteSet(evidence.snap.sections)
    BY DEF WellFormed
  <1> QED BY <1>3, <1>4, <1>5, <1>6 DEF Parses

LEMMA TotalType == ASSUME NEW snap, Parses(snap), NEW bucket PROVE Total(bucket, snap) \in Nat
  <1> DEFINE mine == {t \in snap.sections : t.bucket = bucket /\ t.avg < 5000}
             scale(s) == IF s.deep THEN Max({1, snap.rate}) ELSE 1
             w == [s \in mine |-> s.total * scale(s)]
  <1>1. Total(bucket, snap) = SumFunction(w)
    BY DEF Total
  <1>2. Max({1, snap.rate}) \in Nat
    <2>1. 1 \in Int /\ snap.rate \in Int /\ snap.rate >= 0
      BY DEF Parses
    <2>2. Max({1, snap.rate}) = IF 1 >= snap.rate THEN 1 ELSE snap.rate
      BY <2>1, MaxPair, Zenon
    <2> QED BY <2>1, <2>2
  <1>3. mine \in SUBSET snap.sections
    OBVIOUS
  <1>4. IsFiniteSet(mine)
    BY <1>3, FS_Subset DEF Parses
  <1>5. ASSUME NEW s \in mine PROVE w[s] \in Nat
    <2>1. PICK n \in Nat : n = s.total
      BY <1>3 DEF Parses
    <2>2. PICK k \in Nat : k = scale(s)
      BY <1>2
    <2> HIDE DEF mine, scale
    <2>3. w[s] = n * k
      BY <2>1, <2>2
    <2> QED BY <2>3
  <1>6. DOMAIN w = mine
    OBVIOUS
  <1> HIDE DEF w, mine
  <1>7. Weighs(w, mine) /\ SumOf(w, mine) \in Nat
    BY <1>4, <1>5, SumNatural
  <1>8. SumFunction(w) = SumOf(w, mine)
    BY <1>6, <1>7, FunctionSum
  <1> QED BY <1>1, <1>7, <1>8

LEMMA NestedFinite == IsFiniteSet(Nested) /\ IsFiniteSet(Subsystems)
  <1>1. Nested = {"entity_tick", "spawn_director"} \cup {"deco_world", "falling_blocks"} \cup {"explosions", "io_saves"}
    BY DEF Nested
  <1>2. Subsystems = Nested \cup {"mesh", "network"} \cup {"managers", "frame_core"}
    BY DEF Subsystems
  <1>3. /\ IsFiniteSet({"entity_tick", "spawn_director"}) /\ IsFiniteSet({"deco_world", "falling_blocks"})
        /\ IsFiniteSet({"explosions", "io_saves"}) /\ IsFiniteSet({"mesh", "network"})
        /\ IsFiniteSet({"managers", "frame_core"})
    BY PairFinite, Zenon
  <1>4. IsFiniteSet({"entity_tick", "spawn_director"} \cup {"deco_world", "falling_blocks"})
    BY <1>3, FS_Union, Zenon
  <1>5. IsFiniteSet(Nested)
    BY <1>1, <1>3, <1>4, FS_Union, Zenon
  <1>6. IsFiniteSet(Nested \cup {"mesh", "network"})
    BY <1>3, <1>5, FS_Union, Zenon
  <1>7. IsFiniteSet(Subsystems)
    BY <1>2, <1>3, <1>6, FS_Union, Zenon
  <1> QED BY <1>5, <1>7

LEMMA NestedType ==
    ASSUME NEW snap, Parses(snap)
    PROVE LET w == [b \in Nested |-> Total(b, snap)]
          IN Weighs(w, Nested) /\ SumFunction(w) = SumOf(w, Nested) /\ SumFunction(w) \in Nat
  <1> DEFINE w == [b \in Nested |-> Total(b, snap)]
  <1>1. DOMAIN w = Nested /\ \A b \in Nested : w[b] \in Nat
    BY TotalType
  <1> HIDE DEF w
  <1>2. Weighs(w, Nested) /\ SumOf(w, Nested) \in Nat
    BY <1>1, NestedFinite, SumNatural
  <1>3. SumFunction(w) = SumOf(w, Nested)
    BY <1>1, <1>2, FunctionSum
  <1> QED BY <1>2, <1>3 DEF w

LEMMA ExclusiveType == ASSUME NEW snap, Parses(snap), NEW bucket PROVE Exclusive(bucket, snap) \in Nat
  <1> DEFINE n == SumFunction([b \in Nested |-> Total(b, snap)])
             t == Total(bucket, snap)
  <1>1. n \in Nat /\ t \in Nat
    BY NestedType, TotalType
  <1>2. Exclusive(bucket, snap) = IF bucket # "frame_core" THEN t ELSE Max({0, t - n})
    BY DEF Exclusive
  <1> HIDE DEF n, t
  <1>3. 0 \in Int /\ t - n \in Int
    BY <1>1
  <1>4. Max({0, t - n}) = IF 0 >= t - n THEN 0 ELSE t - n
    BY <1>3, MaxPair, Zenon
  <1>5. Max({0, t - n}) \in Nat
    BY <1>1, <1>4
  <1> QED BY <1>1, <1>2, <1>5

LEMMA WarmType ==
    ASSUME NEW sections, IsFiniteSet(sections), NEW heat \in [sections -> Int],
           NEW n \in {s.name : s \in sections}
    PROVE Max({heat[s] : s \in {t \in sections : t.name = n}}) \in Int
  <1> DEFINE mine == {t \in sections : t.name = n}
             warm == {heat[s] : s \in mine}
  <1>1. mine # {} /\ mine \in SUBSET sections
    OBVIOUS
  <1>2. IsFiniteSet(mine)
    BY <1>1, FS_Subset
  <1> HIDE DEF mine
  <1>3. IsFiniteSet(warm)
    BY <1>2, ImageFinite
  <1>4. warm \in SUBSET Int /\ warm # {}
    BY <1>1
  <1> HIDE DEF warm
  <1>5. Max(warm) \in Int
    BY <1>3, <1>4, MaxOf
  <1> QED BY <1>5 DEF warm, mine

LEMMA HeatsType ==
    ASSUME NEW evidence, WellFormed(evidence)
    PROVE \A n \in DOMAIN SectionHeats(evidence) : SectionHeats(evidence)[n] \in Int
  <1>1. CASE ~Readable(evidence)
    BY <1>1 DEF SectionHeats
  <1>2. CASE Readable(evidence)
    <2> DEFINE sections == evidence.snap.sections
               warm(n) == {Heat(s) : s \in {t \in sections : t.name = n}}
    <2>1. Parses(evidence.snap)
      BY <1>2, ReadableSnapshot
    <2>2. SectionHeats(evidence) = [n \in {s.name : s \in sections} |-> Max(warm(n))]
      BY <1>2 DEF SectionHeats
    <2>3. ASSUME NEW n \in {s.name : s \in sections} PROVE Max(warm(n)) \in Int
      <3> DEFINE heat == [s \in sections |-> Heat(s)]
      <3>1. \A s \in sections : heat[s] \in Int
        BY <2>1 DEF Heat, Parses
      <3>2. warm(n) = {heat[s] : s \in {t \in sections : t.name = n}}
        OBVIOUS
      <3>3. heat \in [sections -> Int] /\ IsFiniteSet(sections)
        BY <2>1, <3>1 DEF Parses
      <3> HIDE DEF heat, warm, sections
      <3> QED BY <3>2, <3>3, WarmType
    <2> HIDE DEF warm
    <2> QED BY <2>2, <2>3
  <1> QED BY <1>1, <1>2

LEMMA RawType ==
    ASSUME NEW evidence, WellFormed(evidence)
    PROVE \A n \in DOMAIN RawHeats(evidence) : RawHeats(evidence)[n] \in Int
  <1>1. CASE ~Readable(evidence)
    BY <1>1 DEF RawHeats
  <1>2. CASE Readable(evidence)
    <2> DEFINE sections == evidence.snap.sections
               warm(n) == {s.p95 : s \in {t \in sections : t.name = n}}
    <2>1. Parses(evidence.snap)
      BY <1>2, ReadableSnapshot
    <2>2. RawHeats(evidence) = [n \in {s.name : s \in sections} |-> Max(warm(n))]
      BY <1>2 DEF RawHeats
    <2>3. ASSUME NEW n \in {s.name : s \in sections} PROVE Max(warm(n)) \in Int
      <3> DEFINE heat == [s \in sections |-> s.p95]
      <3>1. \A s \in sections : heat[s] \in Int
        BY <2>1 DEF Parses
      <3>2. warm(n) = {heat[s] : s \in {t \in sections : t.name = n}}
        OBVIOUS
      <3>3. heat \in [sections -> Int] /\ IsFiniteSet(sections)
        BY <2>1, <3>1 DEF Parses
      <3> HIDE DEF heat, warm, sections
      <3> QED BY <3>2, <3>3, WarmType
    <2> HIDE DEF warm
    <2> QED BY <2>2, <2>3
  <1> QED BY <1>1, <1>2

LEMMA LoadType ==
    ASSUME NEW evidence, WellFormed(evidence), NEW ranked, \A n \in DOMAIN ranked : ranked[n] \in Int
    PROVE \A n \in DOMAIN LoadSections(evidence, ranked) : LoadSections(evidence, ranked)[n] \in Int
  <1> DEFINE raw == RawHeats(evidence)
             hotter == {n \in DOMAIN raw : raw[n] > IF n \in DOMAIN ranked THEN ranked[n] ELSE 0}
  <1>1. LoadSections(evidence, ranked)
          = [n \in DOMAIN ranked \cup hotter |-> IF n \in hotter THEN raw[n] ELSE ranked[n]]
    BY DEF LoadSections
  <1>2. \A n \in hotter : raw[n] \in Int
    BY RawType
  <1> HIDE DEF raw, hotter
  <1> QED BY <1>1, <1>2

LEMMA TotalsType ==
    ASSUME NEW evidence, WellFormed(evidence), NEW summary, NEW events
    PROVE LET bridge == BridgeOf(evidence, summary, events)
          IN /\ \A n \in DOMAIN bridge.heats : bridge.heats[n] \in Int
             /\ \A n \in DOMAIN bridge.totals : bridge.totals[n] \in Int
  <1> DEFINE bridge == BridgeOf(evidence, summary, events)
  <1>1. bridge.heats = SectionHeats(evidence)
    BY DEF BridgeOf
  <1>2. bridge.totals = IF Readable(evidence)
                        THEN [b \in DOMAIN Attribution(evidence.snap) |-> Exclusive(b, evidence.snap)] ELSE <<>>
    BY DEF BridgeOf
  <1> HIDE DEF bridge
  <1>3. \A n \in DOMAIN bridge.heats : bridge.heats[n] \in Int
    BY <1>1, HeatsType
  <1>4. \A n \in DOMAIN bridge.totals : bridge.totals[n] \in Int
    <2>1. CASE Readable(evidence)
      BY <1>2, <2>1, ReadableSnapshot, ExclusiveType
    <2>2. CASE ~Readable(evidence)
      BY <1>2, <2>2
    <2> QED BY <2>1, <2>2
  <1> QED BY <1>3, <1>4 DEF bridge

-----------------------------------------------------------------------------
(* Comparing.                                                              *)

Mirrored(f, g) == DOMAIN f = DOMAIN g /\ \A n \in DOMAIN f : f[n] = Mirror(g[n])

\* A judged session whose documents hold numbers.
Comparable(d) ==
    /\ Scores(d.summary.layers)
    /\ \A n \in DOMAIN d.heats : d.heats[n] \in Int
    /\ \A n \in DOMAIN d.totals : d.totals[n] \in Int

LEMMA WinnerMirrors == ASSUME NEW x \in Int, NEW y \in Int PROVE Winner(x - y) = Mirror(Winner(y - x))
  <1>1. CASE x < y
    <2>1. Winner(x - y) = "B" /\ Winner(y - x) = "A"
      BY <1>1 DEF Winner
    <2> QED BY <2>1 DEF Mirror
  <1>2. CASE y < x
    <2>1. Winner(x - y) = "A" /\ Winner(y - x) = "B"
      BY <1>2 DEF Winner
    <2> QED BY <2>1 DEF Mirror
  <1>3. CASE x = y
    <2>1. Winner(x - y) = "tie" /\ Winner(y - x) = "tie"
      BY <1>3 DEF Winner
    <2> QED BY <2>1 DEF Mirror
  <1> QED BY <1>1, <1>2, <1>3

LEMMA DeltasMirror ==
    ASSUME NEW f, \A n \in DOMAIN f : f[n] \in Int, NEW g, \A n \in DOMAIN g : g[n] \in Int
    PROVE Mirrored(PairedDeltas(f, g), PairedDeltas(g, f))
  <1> DEFINE F == DOMAIN f
             G == DOMAIN g
             d == PairedDeltas(f, g)
             e == PairedDeltas(g, f)
  <1>1. d = [n \in F \cup G |-> IF n \in F \cap G THEN Winner(g[n] - f[n]) ELSE "not_comparable"]
    BY DEF PairedDeltas
  <1>2. e = [n \in G \cup F |-> IF n \in G \cap F THEN Winner(f[n] - g[n]) ELSE "not_comparable"]
    BY DEF PairedDeltas
  <1> HIDE DEF d, e
  <1>3. F \cup G = G \cup F /\ F \cap G = G \cap F /\ (\A n \in F : f[n] \in Int) /\ (\A n \in G : g[n] \in Int)
    OBVIOUS
  <1> HIDE DEF F, G
  <1>4. DOMAIN d = F \cup G /\ DOMAIN e = F \cup G
    BY <1>1, <1>2, <1>3
  <1>5. ASSUME NEW n \in F \cup G PROVE d[n] = Mirror(e[n])
    <2>1. CASE n \in F \cap G
      <3>1. f[n] \in Int /\ g[n] \in Int
        BY <1>3, <2>1
      <3>2. Winner(g[n] - f[n]) = Mirror(Winner(f[n] - g[n]))
        BY <3>1, WinnerMirrors, Zenon
      <3>3. d[n] = Winner(g[n] - f[n]) /\ e[n] = Winner(f[n] - g[n])
        BY <1>1, <1>2, <2>1, Zenon
      <3> QED BY <3>2, <3>3, Zenon
    <2>2. CASE n \notin F \cap G
      <3>1. d[n] = "not_comparable" /\ e[n] = "not_comparable"
        BY <1>1, <1>2, <2>2
      <3> QED BY <3>1 DEF Mirror
    <2> QED BY <2>1, <2>2
  <1>6. Mirrored(d, e)
    BY <1>4, <1>5 DEF Mirrored
  <1> QED BY <1>6 DEF d, e

LEMMA WithinTenthSymmetric == ASSUME NEW a, NEW b PROVE WithinTenth(a, b) <=> WithinTenth(b, a)
  <1>1. {a - b, b - a} = {b - a, a - b} /\ {a, b} = {b, a}
    OBVIOUS
  <1> QED BY <1>1, Zenon DEF WithinTenth

LEMMA RejectionSymmetric == ASSUME NEW a, NEW b PROVE Rejection(a, b) = Rejection(b, a)
  <1>1. WithinTenth(a.summary.seconds, b.summary.seconds) <=> WithinTenth(b.summary.seconds, a.summary.seconds)
    BY WithinTenthSymmetric
  <1> DEFINE within == WithinTenth(a.summary.seconds, b.summary.seconds)
             niwith == WithinTenth(b.summary.seconds, a.summary.seconds)
             short == a.summary.seconds < 5
             brief == b.summary.seconds < 5
             A == DOMAIN CollectedScores(a.summary)
             B == DOMAIN CollectedScores(b.summary)
  <1>2. Rejection(a, b) =
          IF A # B THEN "layer coverage"
          ELSE IF a.version # b.version THEN "analyzer version"
          ELSE IF a.summary.only # b.summary.only THEN "collector selection"
          ELSE IF short \/ brief THEN "too short"
          ELSE IF ~within THEN "durations"
          ELSE IF ~((a.workload = None) <=> (b.workload = None)) THEN "one workload"
          ELSE IF a.workload = Malformed \/ b.workload = Malformed THEN "torn workload"
          ELSE IF a.workload # b.workload THEN "workloads" ELSE None
    BY DEF Rejection
  <1>3. Rejection(b, a) =
          IF B # A THEN "layer coverage"
          ELSE IF b.version # a.version THEN "analyzer version"
          ELSE IF b.summary.only # a.summary.only THEN "collector selection"
          ELSE IF brief \/ short THEN "too short"
          ELSE IF ~niwith THEN "durations"
          ELSE IF ~((b.workload = None) <=> (a.workload = None)) THEN "one workload"
          ELSE IF b.workload = Malformed \/ a.workload = Malformed THEN "torn workload"
          ELSE IF b.workload # a.workload THEN "workloads" ELSE None
    BY DEF Rejection
  <1> HIDE DEF within, niwith, short, brief, A, B
  <1>4. within <=> niwith
    BY <1>1 DEF within, niwith
  <1> DEFINE equal == A = B /\ a.version = b.version /\ a.summary.only = b.summary.only
             one == (a.workload = None) <=> (b.workload = None)
             torn == a.workload = Malformed \/ b.workload = Malformed
  <1>5. ASSUME A # B
        PROVE Rejection(a, b) = Rejection(b, a)
    BY <1>2, <1>3, <1>4, <1>5
  <1>6. ASSUME A = B, a.version # b.version
        PROVE Rejection(a, b) = Rejection(b, a)
    BY <1>2, <1>3, <1>4, <1>6
  <1>7. ASSUME A = B, a.version = b.version, a.summary.only # b.summary.only
        PROVE Rejection(a, b) = Rejection(b, a)
    BY <1>2, <1>3, <1>4, <1>7
  <1>8. ASSUME equal, short \/ brief
        PROVE Rejection(a, b) = Rejection(b, a)
    BY <1>2, <1>3, <1>4, <1>8
  <1>9. ASSUME equal, ~short, ~brief, ~within
        PROVE Rejection(a, b) = Rejection(b, a)
    BY <1>2, <1>3, <1>4, <1>9
  <1>10. ASSUME equal, ~short, ~brief, within, ~one
        PROVE Rejection(a, b) = Rejection(b, a)
    BY <1>2, <1>3, <1>4, <1>10
  <1>11. ASSUME equal, ~short, ~brief, within, one, torn
        PROVE Rejection(a, b) = Rejection(b, a)
    BY <1>2, <1>3, <1>4, <1>11
  <1>12. ASSUME equal, ~short, ~brief, within, one, ~torn, a.workload # b.workload
        PROVE Rejection(a, b) = Rejection(b, a)
    BY <1>2, <1>3, <1>4, <1>12
  <1>13. ASSUME equal, ~short, ~brief, within, one, ~torn, a.workload = b.workload
        PROVE Rejection(a, b) = Rejection(b, a)
    BY <1>2, <1>3, <1>4, <1>13
  <1> QED BY <1>5, <1>6, <1>7, <1>8, <1>9, <1>10, <1>11, <1>12, <1>13

\* The numbers of a comparison, seen from either side.
Reflected(this, that) ==
    /\ this.rejected = that.rejected
    /\ that.rejected = None =>
          /\ this.overall = Mirror(that.overall)
          /\ Mirrored(this.layers, that.layers)
          /\ Mirrored(this.sections, that.sections)
          /\ Mirrored(this.subsystems, that.subsystems)

LEMMA SumScoresType ==
    ASSUME NEW summary, Scores(summary.layers) PROVE SumFunction(CollectedScores(summary)) \in Int
  <1> DEFINE w == CollectedScores(summary)
             I == DOMAIN w
  <1>0. I \in SUBSET Layers /\ \A l \in I : w[l] \in Percent
    BY CollectedType
  <1>1. I \in SUBSET Layers /\ \A l \in I : w[l] \in Nat
    BY <1>0 DEF Percent
  <1> HIDE DEF w
  <1>2. IsFiniteSet(I)
    BY <1>1, LayersFinite, FS_Subset
  <1>3. Weighs(w, I) /\ SumOf(w, I) \in Nat
    BY <1>1, <1>2, SumNatural
  <1>4. SumFunction(w) = SumOf(w, I)
    BY <1>3, FunctionSum
  <1> QED BY <1>3, <1>4 DEF w

\* What a comparison that was not refused says.
LEMMA ComparisonSays ==
    ASSUME NEW a, NEW b
    PROVE /\ Comparison(a, b).rejected = Rejection(a, b)
          /\ Rejection(a, b) = None =>
                /\ Comparison(a, b).overall =
                     Winner(SumFunction(CollectedScores(b.summary)) - SumFunction(CollectedScores(a.summary)))
                /\ Comparison(a, b).layers = PairedDeltas(CollectedScores(a.summary), CollectedScores(b.summary))
                /\ Comparison(a, b).sections = PairedDeltas(a.heats, b.heats)
                /\ Comparison(a, b).subsystems = PairedDeltas(a.totals, b.totals)
  <1>1. CASE Rejection(a, b) # None
    <2>1. Comparison(a, b) = [rejected |-> Rejection(a, b)]
      BY <1>1 DEF Comparison
    <2> QED BY <1>1, <2>1
  <1>2. CASE Rejection(a, b) = None
    <2> DEFINE w == Winner(SumFunction(CollectedScores(b.summary)) - SumFunction(CollectedScores(a.summary)))
               l == PairedDeltas(CollectedScores(a.summary), CollectedScores(b.summary))
               s == PairedDeltas(a.heats, b.heats)
               t == PairedDeltas(a.totals, b.totals)
               f == IF a.frames = None \/ b.frames = None THEN <<>> ELSE FrameDeltas(a.frames, b.frames)
    <2>1. Comparison(a, b) = [rejected |-> None, overall |-> w, layers |-> l, sections |-> s,
                              subsystems |-> t, frames |-> f]
      BY <1>2 DEF Comparison
    <2> HIDE DEF w, l, s, t, f
    <2>2. /\ Comparison(a, b).rejected = None /\ Comparison(a, b).overall = w /\ Comparison(a, b).layers = l
          /\ Comparison(a, b).sections = s /\ Comparison(a, b).subsystems = t
      BY <2>1
    <2> QED BY <1>2, <2>2 DEF w, l, s, t
  <1> QED BY <1>1, <1>2

\* The same session, but for its sampled frames.
Alike(b, c) ==
    /\ b.summary = c.summary /\ b.version = c.version /\ b.workload = c.workload
    /\ b.heats = c.heats /\ b.totals = c.totals

LEMMA RejectionAlike == ASSUME NEW a, NEW b, NEW c, Alike(b, c) PROVE Rejection(a, b) = Rejection(a, c)
  BY DEF Alike, Rejection

\* Which session is named first does not matter, nor what frames the other side has by now.
LEMMA ComparisonReflects ==
    ASSUME NEW a, Comparable(a), NEW b, Comparable(b), NEW c, Alike(b, c)
    PROVE Reflected(Comparison(a, b), Comparison(c, a))
  <1> DEFINE S(d) == SumFunction(CollectedScores(d.summary))
             this == Comparison(a, b)
             that == Comparison(c, a)
  <1>1. this.rejected = Rejection(a, b) /\ that.rejected = Rejection(a, b)
    BY ComparisonSays, RejectionAlike, RejectionSymmetric
  <1>2. ASSUME Rejection(a, b) = None
        PROVE /\ this.overall = Mirror(that.overall)
              /\ Mirrored(this.layers, that.layers)
              /\ Mirrored(this.sections, that.sections)
              /\ Mirrored(this.subsystems, that.subsystems)
    <2>0. Rejection(c, a) = None
      BY <1>2, RejectionAlike, RejectionSymmetric
    <2>1. /\ this.overall = Winner(S(b) - S(a))
          /\ this.layers = PairedDeltas(CollectedScores(a.summary), CollectedScores(b.summary))
          /\ this.sections = PairedDeltas(a.heats, b.heats)
          /\ this.subsystems = PairedDeltas(a.totals, b.totals)
      BY <1>2, ComparisonSays, Zenon
    <2>2. /\ that.overall = Winner(S(a) - S(c))
          /\ that.layers = PairedDeltas(CollectedScores(c.summary), CollectedScores(a.summary))
          /\ that.sections = PairedDeltas(c.heats, a.heats)
          /\ that.subsystems = PairedDeltas(c.totals, a.totals)
      BY <2>0, ComparisonSays, Zenon
    <2>3. c.summary = b.summary /\ c.heats = b.heats /\ c.totals = b.totals
      BY DEF Alike
    <2>4. S(a) \in Int /\ S(b) \in Int
      BY SumScoresType DEF Comparable
    <2>5. Winner(S(b) - S(a)) = Mirror(Winner(S(a) - S(b)))
      BY <2>4, WinnerMirrors, Zenon
    <2>6. this.overall = Mirror(that.overall)
      BY <2>1, <2>2, <2>3, <2>5, Zenon
    <2>7. /\ \A l \in DOMAIN CollectedScores(a.summary) : CollectedScores(a.summary)[l] \in Int
          /\ \A l \in DOMAIN CollectedScores(b.summary) : CollectedScores(b.summary)[l] \in Int
      <3>1. Percent \in SUBSET Int
        BY DEF Percent
      <3> QED BY <3>1, CollectedType DEF Comparable
    <2>8. Mirrored(this.layers, that.layers)
      BY <2>1, <2>2, <2>3, <2>7, DeltasMirror
    <2>9. Mirrored(this.sections, that.sections) /\ Mirrored(this.subsystems, that.subsystems)
      BY <2>1, <2>2, <2>3, DeltasMirror DEF Comparable
    <2> QED BY <2>6, <2>8, <2>9
  <1> HIDE DEF this, that
  <1>3. Reflected(this, that)
    BY <1>1, <1>2 DEF Reflected
  <1> QED BY <1>3 DEF this, that

-----------------------------------------------------------------------------
(* What the commands answered.                                             *)

\* The summary there is names the window the evidence has, whichever run wrote it.
SummaryTimed == docs.summary # None => docs.summary.seconds = EffectiveSeconds(ev)

BridgeMeasured ==
    docs.bridge # None =>
        /\ \A n \in DOMAIN docs.bridge.heats : docs.bridge.heats[n] \in Int
        /\ \A n \in DOMAIN docs.bridge.totals : docs.bridge.totals[n] \in Int

\* An answer stands only while no finalize runs, and is about the documents there
\* are, but for the frames, which may have been sampled since.
AnswerKept ==
    report # None =>
        /\ stage = "idle"
        /\ report.kind = "compare" =>
              /\ docs.summary # None
              /\ \E frames \in {None, ev.frames} :
                    report.result = Comparison(Theirs, [Mine EXCEPT !.frames = frames])
        /\ report.kind = "scaling" =>
              report.ladder \in Ladders /\ report.result = ScalingCommand(report.ladder)

AnswersInv == DocsInv /\ SummaryTimed /\ BridgeMeasured /\ AnswerKept

\* What does not change in a step, and what of the evidence does not.
LEMMA EvidenceStays ==
    ASSUME DocsInv, [Next]_vars
    PROVE /\ ev'.frames = ev.frames /\ EffectiveSeconds(ev)' = EffectiveSeconds(ev)
          /\ ev'.version = ev.version /\ ev'.workload = ev.workload /\ ev'.snap = ev.snap
  <1>1. CASE Arrive
    <2>1. PICK a \in Arrivals \ ev.files : ev' = [ev EXCEPT !.files = @ \cup {a}]
      BY <1>1 DEF Arrive
    <2>2. PICK ids : ev \in EvidenceRecords(ids)
      BY DEF DocsInv, MachineType, WellFormed
    <2>3. /\ ev'.frames = ev.frames /\ ev'.seconds = ev.seconds /\ ev'.observed = ev.observed
          /\ ev'.version = ev.version /\ ev'.workload = ev.workload /\ ev'.snap = ev.snap
      BY <2>1, <2>2, Zenon DEF EvidenceRecords
    <2> QED BY <2>3 DEF EffectiveSeconds
  <1>2. CASE ev' = ev
    BY <1>2
  <1> QED BY <1>1, <1>2 DEF Next, Begin, RunStage, StageRaises, Compare, BudgetCommand, Scaling, Done, vars

\* The evidence is judged the same as long as its documents are the same.
Judging(frames) == [Mine EXCEPT !.frames = frames]

LEMMA JudgingSays ==
    ASSUME NEW frames
    PROVE Judging(frames) =
            [summary |-> docs.summary, version |-> ev.version, workload |-> ev.workload,
             heats |-> LoadSections(ev, RankedHeats(docs)),
             totals |-> IF docs.bridge = None THEN <<>> ELSE docs.bridge.totals, frames |-> frames]
  BY DEF Judging, Mine, Judged

LEMMA AnswersInit == ASSUME Init PROVE AnswersInv
  <1>1. docs.summary = None /\ docs.bridge = None /\ report = None
    BY DEF Init, NoDocs
  <1> QED BY <1>1, DocsInit DEF AnswersInv, SummaryTimed, BridgeMeasured, AnswerKept

LEMMA SummarySeconds ==
    ASSUME NEW evidence, NEW prior PROVE SummaryOf(evidence, prior).seconds = EffectiveSeconds(evidence)
  BY DEF SummaryOf

LEMMA TimedStep == ASSUME AnswersInv, [Next]_vars PROVE SummaryTimed' /\ BridgeMeasured'
  <1>1. EffectiveSeconds(ev)' = EffectiveSeconds(ev)
    BY EvidenceStays DEF AnswersInv
  <1>2. CASE RunStage \/ StageRaises
    <2>1. Work
      BY <1>2, StagesWork
    <2>2. Wrote /\ ev' = ev
      BY <2>1, WorkWrites DEF AnswersInv, DocsInv, Work
    <2>3. SummaryTimed'
      BY <1>1, <2>2, SummarySeconds DEF Wrote, SummaryTimed, AnswersInv
    <2>4. WellFormed(ev)
      BY DEF AnswersInv, DocsInv, MachineType
    <2>5. BridgeMeasured'
      BY <2>2, <2>4, TotalsType DEF Wrote, BridgeMeasured, AnswersInv
    <2> QED BY <2>3, <2>5
  <1>3. CASE docs'.summary = docs.summary /\ docs'.bridge = docs.bridge
    BY <1>1, <1>3 DEF AnswersInv, SummaryTimed, BridgeMeasured
  <1>4. CASE BudgetCommand
    <2>1. PICK doc : docs' = [docs EXCEPT !.budget = doc]
      BY <1>4 DEF BudgetCommand
    <2>2. docs \in [summary : {docs.summary}, health : {docs.health}, events : {docs.events},
                    bridge : {docs.bridge}, budget : {docs.budget}]
      BY DEF AnswersInv, DocsInv, MachineType
    <2> QED BY <1>3, <2>1, <2>2
  <1> QED BY <1>2, <1>3, <1>4 DEF Next, Begin, Arrive, Compare, Scaling, Done, vars

LEMMA AnswerStep == ASSUME AnswersInv, [Next]_vars PROVE AnswerKept'
  <1>1. CASE Begin \/ RunStage \/ StageRaises
    <2>1. report' = None
      BY <1>1 DEF Begin, RunStage, StageRaises, AnswersInv, AnswerKept
    <2> QED BY <2>1 DEF AnswerKept
  <1>2. CASE Compare
    <2>1. /\ stage' = "idle" /\ docs' = docs /\ docs.summary # None /\ ev' = ev
          /\ report'.kind = "compare" /\ report'.result = Comparison(Theirs, Mine)
      BY <1>2 DEF Compare, Idle
    <2>2. Mine = [Mine EXCEPT !.frames = FrameWeights(ev)]
      BY DEF Mine, Judged
    <2>3. FrameWeights(ev) \in {None, ev.frames}
      BY DEF FrameWeights, Found
    <2>4. \E frames \in {None, ev.frames} : report'.result = Comparison(Theirs, Judging(frames))
      BY <2>1, <2>2, <2>3 DEF Judging
    <2>5. \A frames : Judging(frames)' = Judging(frames) /\ Theirs' = Theirs /\ ev'.frames = ev.frames
      BY <2>1 DEF Judging, Mine, Theirs
    <2> QED BY <2>1, <2>4, <2>5 DEF Judging, AnswerKept
  <1>3. CASE BudgetCommand
    <2>1. stage' = "idle" /\ report'.kind = "budget"
      BY <1>3 DEF BudgetCommand, Idle
    <2> QED BY <2>1 DEF AnswerKept
  <1>4. CASE Scaling
    <2>1. PICK ladder \in Ladders :
            report' = [kind |-> "scaling", result |-> ScalingCommand(ladder), ladder |-> ladder]
      BY <1>4 DEF Scaling
    <2>2. /\ stage' = "idle" /\ report'.kind = "scaling" /\ report'.ladder = ladder
          /\ report'.result = ScalingCommand(ladder)
      BY <1>4, <2>1 DEF Scaling
    <2> QED BY <2>2 DEF AnswerKept
  <1>5. CASE Arrive \/ Done \/ UNCHANGED vars
    <2>1. report' = report /\ docs' = docs /\ stage' = stage
      BY <1>5 DEF Arrive, Done, vars
    <2>2. /\ ev'.frames = ev.frames /\ ev'.version = ev.version /\ ev'.workload = ev.workload
          /\ ev'.snap = ev.snap
      BY <1>5, EvidenceStays DEF AnswersInv, Next
    <2>3. ASSUME NEW frames PROVE Judging(frames)' = Judging(frames)
      <3>1. Judging(frames)' =
              [summary |-> docs'.summary, version |-> ev'.version, workload |-> ev'.workload,
               heats |-> LoadSections(ev', RankedHeats(docs')),
               totals |-> IF docs'.bridge = None THEN <<>> ELSE docs'.bridge.totals, frames |-> frames]
        BY DEF Judging, Mine, Judged
      <3>2. LoadSections(ev', RankedHeats(docs')) = LoadSections(ev, RankedHeats(docs))
        BY <2>1, <2>2, LoadStays
      <3> QED BY <2>1, <2>2, <3>1, <3>2, JudgingSays
    <2>4. Theirs' = Theirs
      BY DEF Theirs
    <2>5. ASSUME report # None, report.kind = "compare"
          PROVE \E frames \in {None, ev'.frames} : report'.result = Comparison(Theirs', Judging(frames)')
      <3>1. \E frames \in {None, ev.frames} : report.result = Comparison(Theirs, Judging(frames))
        BY <2>5 DEF Judging, AnswersInv, AnswerKept
      <3> QED BY <2>1, <2>2, <2>3, <2>4, <3>1
    <2> QED BY <2>1, <2>5 DEF Judging, AnswersInv, AnswerKept
  <1> QED BY <1>1, <1>2, <1>3, <1>4, <1>5 DEF Next

LEMMA AnswersStep == ASSUME AnswersInv, [Next]_vars PROVE AnswersInv'
  BY DocsStep, TimedStep, AnswerStep DEF AnswersInv

\* The answers are about the documents and the ladders they were asked of.
THEOREM AnswersStand == Spec => []AnswersInv
  <1>1. Init => AnswersInv
    BY AnswersInit
  <1>2. AnswersInv /\ [Next]_vars => AnswersInv'
    BY AnswersStep
  <1> QED BY <1>1, <1>2, PTL DEF Spec

LEMMA TheirsComparable == Comparable(Theirs)
  <1> DEFINE summary == SummaryOf(Peer, None)
             bridge == BridgeOf(Peer, summary, TimelineOf(Peer))
  <1>1. WellFormed(Peer)
    BY EvidenceAssumption
  <1>2. /\ Theirs.summary = summary
        /\ Theirs.heats = LoadSections(Peer, IF bridge = None THEN <<>> ELSE bridge.heats)
        /\ Theirs.totals = IF bridge = None THEN <<>> ELSE bridge.totals
    BY DEF Theirs, Judged, RankedHeats
  <1>3. Scores(summary.layers)
    BY <1>1, WellFormedNumbers, SummaryLayers
  <1>4. /\ \A n \in DOMAIN bridge.heats : bridge.heats[n] \in Int
        /\ \A n \in DOMAIN bridge.totals : bridge.totals[n] \in Int
    BY <1>1, TotalsType
  <1> HIDE DEF summary, bridge
  <1> DEFINE ranked == IF bridge = None THEN <<>> ELSE bridge.heats
  <1>5. \A n \in DOMAIN ranked : ranked[n] \in Int
    BY <1>4
  <1> HIDE DEF ranked
  <1>6. \A n \in DOMAIN LoadSections(Peer, ranked) : LoadSections(Peer, ranked)[n] \in Int
    BY <1>1, <1>5, LoadType
  <1>7. \A n \in DOMAIN Theirs.heats : Theirs.heats[n] \in Int
    BY <1>2, <1>6 DEF ranked
  <1> QED BY <1>2, <1>3, <1>4, <1>7 DEF Comparable

LEMMA MineComparable == ASSUME AnswersInv, docs.summary # None, NEW frames PROVE Comparable(Judging(frames))
  <1>1. Scores(docs.summary.layers)
    BY DEF AnswersInv, DocsInv, SummaryKept
  <1>2. /\ Judging(frames).summary = docs.summary
        /\ Judging(frames).heats = LoadSections(ev, RankedHeats(docs))
        /\ Judging(frames).totals = IF docs.bridge = None THEN <<>> ELSE docs.bridge.totals
    BY JudgingSays
  <1>3. \A n \in DOMAIN RankedHeats(docs) : RankedHeats(docs)[n] \in Int
    BY DEF AnswersInv, BridgeMeasured, RankedHeats
  <1>4. WellFormed(ev)
    BY DEF AnswersInv, DocsInv, MachineType
  <1>5. \A n \in DOMAIN Judging(frames).heats : Judging(frames).heats[n] \in Int
    BY <1>2, <1>3, <1>4, LoadType
  <1> QED BY <1>1, <1>2, <1>5 DEF AnswersInv, BridgeMeasured, Comparable

LEMMA JudgingAlike == ASSUME NEW frames PROVE Alike(Judging(frames), Mine)
  <1>1. Mine = Judging(FrameWeights(ev))
    BY DEF Judging, Mine, Judged
  <1> QED BY <1>1, JudgingSays DEF Alike

LEMMA MirrorState == ASSUME AnswersInv PROVE CompareMirrors
  <1> SUFFICES ASSUME report # None, report.kind = "compare"
               PROVE Reflected(report.result, Comparison(Mine, Theirs))
    BY Zenon DEF CompareMirrors, Reflected, Mirrored
  <1>1. docs.summary # None
    BY DEF AnswersInv, AnswerKept
  <1>2. PICK frames \in {None, ev.frames} : report.result = Comparison(Theirs, Judging(frames))
    BY DEF AnswersInv, AnswerKept, Judging
  <1>3. Reflected(Comparison(Theirs, Judging(frames)), Comparison(Mine, Theirs))
    BY <1>1, TheirsComparable, MineComparable, JudgingAlike, ComparisonReflects
  <1> QED BY <1>2, <1>3

\* What a comparison that was not refused found.
LEMMA Accepted ==
    ASSUME NEW a, NEW b, Rejection(a, b) = None
    PROVE /\ ~(a.summary.seconds < 5) /\ ~(b.summary.seconds < 5)
          /\ WithinTenth(a.summary.seconds, b.summary.seconds)
  <1> DEFINE brief == a.summary.seconds < 5 \/ b.summary.seconds < 5
             within == WithinTenth(a.summary.seconds, b.summary.seconds)
             others == DOMAIN CollectedScores(a.summary) # DOMAIN CollectedScores(b.summary)
  <1>1. Rejection(a, b) =
          IF others THEN "layer coverage"
          ELSE IF a.version # b.version THEN "analyzer version"
          ELSE IF a.summary.only # b.summary.only THEN "collector selection"
          ELSE IF brief THEN "too short"
          ELSE IF ~within THEN "durations"
          ELSE IF ~((a.workload = None) <=> (b.workload = None)) THEN "one workload"
          ELSE IF a.workload = Malformed \/ b.workload = Malformed THEN "torn workload"
          ELSE IF a.workload # b.workload THEN "workloads" ELSE None
    BY DEF Rejection
  <1>2. /\ "layer coverage" # None /\ "analyzer version" # None /\ "collector selection" # None
        /\ "too short" # None /\ "durations" # None
    BY AbsenceAssumption DEF Refusals
  <1> DEFINE rest == IF ~((a.workload = None) <=> (b.workload = None)) THEN "one workload"
                     ELSE IF a.workload = Malformed \/ b.workload = Malformed THEN "torn workload"
                     ELSE IF a.workload # b.workload THEN "workloads" ELSE None
             versions == a.version # b.version
             selections == a.summary.only # b.summary.only
  <1> HIDE DEF brief, within, others, rest, versions, selections
  <1>3. Rejection(a, b) = IF others THEN "layer coverage" ELSE IF versions THEN "analyzer version"
                          ELSE IF selections THEN "collector selection" ELSE IF brief THEN "too short"
                          ELSE IF ~within THEN "durations" ELSE rest
    BY <1>1, Zenon DEF rest, versions, selections
  <1>4. ~others /\ ~versions /\ ~selections
    BY <1>2, <1>3
  <1>5. ~brief
    BY <1>2, <1>3, <1>4
  <1>6. within
    BY <1>2, <1>3, <1>4, <1>5
  <1> QED BY <1>5, <1>6 DEF brief, within

\* The window of a comparison is the recorded one, but for a record of 0.
LEMMA WindowCompared ==
    ASSUME NEW evidence, WellFormed(evidence)
    PROVE /\ EffectiveSeconds(evidence) \in Nat
          /\ EffectiveSeconds(evidence) = IF evidence.observed \notin {None, 0}
                                          THEN Min({evidence.observed, evidence.seconds}) ELSE evidence.seconds
  <1>1. PICK ids : evidence \in EvidenceRecords(ids)
    BY DEF WellFormed
  <1>2. evidence.seconds \in Nat /\ evidence.observed \in Nat \cup {None}
    BY <1>1, Zenon DEF EvidenceRecords
  <1>3. None \notin Int
    BY AbsenceAssumption
  <1> DEFINE o == evidence.observed
             s == evidence.seconds
  <1>4. EffectiveSeconds(evidence) = IF o # None /\ o > 0 /\ o < s THEN o ELSE s
    BY DEF EffectiveSeconds
  <1>5. CASE o \in {None, 0}
    BY <1>2, <1>3, <1>4, <1>5
  <1>6. CASE o \notin {None, 0}
    <2>1. o \in Int /\ s \in Int /\ o > 0
      BY <1>2, <1>6
    <2>2. Min({o, s}) = IF o <= s THEN o ELSE s
      BY <2>1, MinPair, Zenon
    <2> QED BY <1>2, <1>4, <1>6, <2>1, <2>2
  <1> QED BY <1>5, <1>6

LEMMA TruncatedState == ASSUME AnswersInv PROVE NoTruncatedCompare
  <1> DEFINE ran(e) == IF e.observed \notin {None, 0} THEN Min({e.observed, e.seconds}) ELSE e.seconds
  <1> SUFFICES ASSUME report # None, report.kind = "compare", report.result.rejected = None
               PROVE ran(Peer) >= 5 /\ ran(ev) >= 5 /\ WithinTenth(ran(Peer), ran(ev))
    BY DEF NoTruncatedCompare, WithinTenth
  <1>1. docs.summary # None
    BY DEF AnswersInv, AnswerKept
  <1>2. PICK frames \in {None, ev.frames} : report.result = Comparison(Theirs, Judging(frames))
    BY DEF AnswersInv, AnswerKept, Judging
  <1>3. Rejection(Theirs, Judging(frames)) = None
    BY <1>2, ComparisonSays
  <1>4. /\ ran(Peer) = EffectiveSeconds(Peer) /\ ran(ev) = EffectiveSeconds(ev)
        /\ EffectiveSeconds(Peer) \in Nat /\ EffectiveSeconds(ev) \in Nat
    BY EvidenceAssumption, WindowCompared DEF AnswersInv, DocsInv, MachineType
  <1>5. Theirs.summary.seconds = ran(Peer)
    BY <1>4, SummarySeconds DEF Theirs, Judged
  <1>6. Judging(frames).summary.seconds = ran(ev)
    BY <1>1, <1>4, JudgingSays DEF AnswersInv, SummaryTimed
  <1> HIDE DEF ran
  <1>7. ~(ran(Peer) < 5) /\ ~(ran(ev) < 5) /\ WithinTenth(ran(Peer), ran(ev))
    BY <1>3, <1>5, <1>6, Accepted
  <1> QED BY <1>4, <1>7

LEMMA CompareState == ASSUME AnswersInv PROVE CompareSound
  BY MirrorState, TruncatedState DEF CompareSound

\* A comparison that is answered is between windows of five seconds and more whose
\* recorded lengths differ by a tenth at most, and it would have been refused for the
\* same reason, or come to the mirrored verdicts, with the sessions the other way
\* round (compare.py).
THEOREM ComparisonsStand == Spec => []CompareSound
  BY AnswersStand, CompareState, PTL

-----------------------------------------------------------------------------
(* The scaling fit.                                                        *)

LEMMA Squared == ASSUME NEW z \in Int PROVE z * z \in Nat /\ (z # 0 => z * z > 0)
  OBVIOUS

LEMMA FactorPositive == ASSUME NEW n \in Nat, NEW d \in Int, n * d > 0 PROVE d > 0
  <1>1. ASSUME NEW e \in Nat PROVE n * e \in Nat
    OBVIOUS
  <1>2. ASSUME d <= 0 PROVE FALSE
    <2>1. PICK e \in Nat : d = -e
      BY <1>2
    <2>2. n * d = -(n * e)
      BY <2>1
    <2> QED BY <1>1, <2>2
  <1> QED BY <1>2

LEMMA Quotient == ASSUME NEW d \in Int, d > 0, NEW k \in Int PROVE (k * d) \div d = k
  OBVIOUS

Squares(x, I) == [i \in I |-> x[i] * x[i]]
Products(x, y, I) == [i \in I |-> x[i] * y[i]]
PointsOf(x, y, m) == [i \in 1 .. m |-> <<x[i], y[i]>>]

\* The denominator of a fit over points that are not all at one load is positive.
LEMMA LoadsApart ==
    ASSUME NEW I, NEW x, Weighs(x, I), NEW a \in I, NEW b \in I, x[a] # x[b]
    PROVE Cardinality(I) * SumOf(Squares(x, I), I) - SumOf(x, I) * SumOf(x, I) > 0
  <1> DEFINE n == Cardinality(I)
             s == SumOf(x, I)
             w == Squares(x, I)
             q == SumOf(w, I)
             one == [i \in I |-> 1]
             u == [i \in I |-> (n * n) * w[i] + (-(2 * (n * s))) * x[i]]
             v == [i \in I |-> 1 * u[i] + (s * s) * one[i]]
  <1>1. n \in Nat /\ n > 0
    BY FS_CardinalityType, FS_EmptySet DEF Weighs
  <1>2. \A i \in I : x[i] \in Int /\ w[i] \in Int /\ w[i] = x[i] * x[i]
    BY DEF Weighs, Squares
  <1>3. Weighs(w, I) /\ q \in Int /\ s \in Int
    BY <1>2, SumType DEF Weighs
  <1>4. Weighs(one, I) /\ SumOf(one, I) = n
    <2>1. \A i \in I : one[i] = 1
      OBVIOUS
    <2> HIDE DEF one
    <2>2. Weighs(one, I) /\ SumOf(one, I) = 1 * n
      BY <2>1, SumConstant DEF Weighs
    <2> QED BY <1>1, <2>2
  <1>5. \A i \in I : u[i] = (n * n) * w[i] + (-(2 * (n * s))) * x[i]
    OBVIOUS
  <1>6. \A i \in I : v[i] = 1 * u[i] + (s * s) * one[i] /\ one[i] = 1
    OBVIOUS
  <1>0. n * n \in Int /\ -(2 * (n * s)) \in Int /\ s * s \in Int
    BY <1>1, <1>3
  <1> HIDE DEF n, s, w, q, one, u, v
  <1>7. Weighs(u, I) /\ SumOf(u, I) = (n * n) * q + (-(2 * (n * s))) * s
    BY <1>0, <1>3, <1>5, SumLinear DEF q, s
  <1>8. Weighs(v, I) /\ SumOf(v, I) = 1 * SumOf(u, I) + (s * s) * n
    BY <1>0, <1>4, <1>6, <1>7, SumLinear
  <1>9. SumOf(v, I) = n * (n * q - s * s)
    <2>1. (n * n) * q + (-(2 * (n * s))) * s + (s * s) * n = n * (n * q - s * s)
      BY <1>1, <1>3
    <2> QED BY <1>1, <1>3, <1>7, <1>8, <2>1
  <1>10. ASSUME NEW i \in I PROVE v[i] = (n * x[i] - s) * (n * x[i] - s)
    <2>1. PICK y \in Int : y = x[i]
      BY <1>2
    <2>2. v[i] = 1 * ((n * n) * (y * y) + (-(2 * (n * s))) * y) + (s * s) * 1
      BY <1>2, <1>5, <1>6, <2>1
    <2>3. 1 * ((n * n) * (y * y) + (-(2 * (n * s))) * y) + (s * s) * 1 = (n * y - s) * (n * y - s)
      BY <1>1, <1>3
    <2> QED BY <2>1, <2>2, <2>3
  <1>11. \A i \in I : n * x[i] - s \in Int
    BY <1>1, <1>2, <1>3
  <1>12. \A i \in I : v[i] \in Nat
    BY <1>10, <1>11, Squared
  <1>13. \E i \in I : v[i] > 0
    <2>1. n * x[a] - s # 0 \/ n * x[b] - s # 0
      <3>1. PICK y \in Int, z \in Int : y = x[a] /\ z = x[b] /\ y # z
        BY <1>2
      <3>2. n * y # n * z
        BY <1>1, <3>1
      <3>3. n * y \in Int /\ n * z \in Int
        BY <1>1
      <3> QED BY <1>3, <3>1, <3>2, <3>3
    <2> QED BY <1>10, <1>11, <2>1, Squared
  <1>14. SumOf(v, I) > 0
    <2>1. PICK i \in I : v[i] > 0
      BY <1>13
    <2>2. SumOf(v, I) = v[i] + SumOf(v, I \ {i})
      BY <1>8, SumTake
    <2>3. SumOf(v, I \ {i}) \in Nat
      <3>1. IsFiniteSet(I \ {i})
        BY FS_Subset DEF Weighs
      <3> QED BY <1>12, <3>1, SumNatural
    <2> QED BY <1>12, <2>1, <2>2, <2>3
  <1>15. n * q - s * s \in Int
    BY <1>1, <1>3
  <1>16. n * q - s * s > 0
    BY <1>1, <1>9, <1>14, <1>15, FactorPositive
  <1> QED BY <1>16 DEF n, q, s, w

LEMMA SlopeSays ==
    ASSUME NEW m \in Nat, m >= 3, NEW x, Weighs(x, 1 .. m), NEW y, Weighs(y, 1 .. m)
    PROVE LET I == 1 .. m
              d == m * SumOf(Squares(x, I), I) - SumOf(x, I) * SumOf(x, I)
          IN Slope([i \in I |-> <<x[i], y[i]>>]) =
               IF d = 0 THEN None
               ELSE (100 * (m * SumOf(Products(x, y, I), I) - SumOf(x, I) * SumOf(y, I))) \div d
  <1> DEFINE I == 1 .. m
             points == [i \in I |-> <<x[i], y[i]>>]
             X == [i \in I |-> points[i][1]]
             Y == [i \in I |-> points[i][2]]
             XX == [i \in I |-> points[i][1] * points[i][1]]
             XY == [i \in I |-> points[i][1] * points[i][2]]
  <1>1. DOMAIN points = I /\ Len(points) = m
    OBVIOUS
  <1>2. \A i \in I : X[i] = x[i] /\ Y[i] = y[i] /\ XX[i] = x[i] * x[i] /\ XY[i] = x[i] * y[i]
    OBVIOUS
  <1>3. /\ DOMAIN X = I /\ DOMAIN Y = I /\ DOMAIN XX = I /\ DOMAIN XY = I
    OBVIOUS
  <1>4. XX = Squares(x, I) /\ XY = Products(x, y, I)
    BY DEF Squares, Products
  <1>5. Slope(points) =
          LET d == m * SumFunction(XX) - SumFunction(X) * SumFunction(X)
          IN IF m < 3 \/ d = 0 THEN None
             ELSE (100 * (m * SumFunction(XY) - SumFunction(X) * SumFunction(Y))) \div d
    BY <1>1 DEF Slope
  <1> HIDE DEF points, X, Y, XX, XY
  <1>6. Weighs(X, I) /\ Weighs(Y, I) /\ Weighs(XX, I) /\ Weighs(XY, I)
    <2>1. ASSUME NEW i \in I PROVE X[i] \in Int /\ Y[i] \in Int /\ XX[i] \in Int /\ XY[i] \in Int
      <3>1. PICK g \in Int, h \in Int : g = x[i] /\ h = y[i]
        BY DEF Weighs
      <3> QED BY <1>2, <3>1
    <2> QED BY <2>1 DEF Weighs
  <1>7. /\ SumFunction(X) = SumOf(X, I) /\ SumFunction(Y) = SumOf(Y, I)
        /\ SumFunction(XX) = SumOf(XX, I) /\ SumFunction(XY) = SumOf(XY, I)
    BY <1>3, <1>6, FunctionSum
  <1>8. SumOf(X, I) = SumOf(x, I) /\ SumOf(Y, I) = SumOf(y, I)
    BY <1>2, SumSame
  <1>9. ~(m < 3)
    OBVIOUS
  <1>10. Slope(points) =
          LET d == m * SumOf(Squares(x, I), I) - SumOf(x, I) * SumOf(x, I)
          IN IF d = 0 THEN None
             ELSE (100 * (m * SumOf(Products(x, y, I), I) - SumOf(x, I) * SumOf(y, I))) \div d
    BY <1>4, <1>5, <1>7, <1>8, <1>9
  <1> QED BY <1>10 DEF points

Lawful(x, y, c, k, I) == \A i \in I : y[i] = c + k * x[i]

\* A cost of c + k * load is fitted with exponent k.
LEMMA LawFitted ==
    ASSUME NEW m \in Nat, m >= 3, NEW x, Weighs(x, 1 .. m), NEW c \in Int, NEW k \in Int,
           NEW y, Lawful(x, y, c, k, 1 .. m), NEW a \in 1 .. m, NEW b \in 1 .. m, x[a] # x[b]
    PROVE Slope(PointsOf(x, y, m)) = 100 * k
  <1> DEFINE I == 1 .. m
             w == Squares(x, I)
             p == Products(x, y, I)
             one == [i \in I |-> 1]
             s == SumOf(x, I)
             q == SumOf(w, I)
             t == SumOf(y, I)
             r == SumOf(p, I)
             d == m * q - s * s
  <1>0. \A i \in I : y[i] = c + k * x[i]
    BY DEF Lawful
  <1>1. IsFiniteSet(I) /\ Cardinality(I) = m
    BY FS_Interval
  <1>2. \A i \in I : x[i] \in Int /\ y[i] \in Int
    BY <1>0 DEF Weighs
  <1>3. Weighs(y, I)
    BY <1>1, <1>2 DEF Weighs
  <1>4. \A i \in I : w[i] = x[i] * x[i] /\ p[i] = x[i] * y[i]
    BY DEF Squares, Products
  <1>5. \A i \in I : p[i] = c * x[i] + k * w[i]
    <2> SUFFICES ASSUME NEW i \in I PROVE p[i] = c * x[i] + k * w[i]
      OBVIOUS
    <2>1. PICK z \in Int : z = x[i]
      BY <1>2
    <2>2. z * (c + k * z) = c * z + k * (z * z)
      OBVIOUS
    <2> QED BY <1>0, <1>4, <2>1, <2>2
  <1>6. \A i \in I : one[i] = 1
    OBVIOUS
  <1>7. ASSUME NEW i \in I PROVE w[i] \in Int
    <2>1. PICK z \in Int : z = x[i]
      BY <1>2
    <2> QED BY <1>4, <2>1
  <1> HIDE DEF w, p, one
  <1>8. Weighs(w, I)
    BY <1>1, <1>7 DEF Weighs
  <1>9. Weighs(p, I) /\ r = c * s + k * q
    BY <1>5, <1>8, SumLinear
  <1>10. Weighs(one, I) /\ SumOf(one, I) = 1 * m
    <2> HIDE DEF I
    <2>1. Weighs(one, I) /\ SumOf(one, I) = 1 * Cardinality(I)
      BY <1>1, <1>6, SumConstant
    <2> QED BY <1>1, <2>1
  <1>11. \A i \in I : y[i] = c * one[i] + k * x[i]
    BY <1>0, <1>6
  <1>12. t = c * SumOf(one, I) + k * s
    BY <1>10, <1>11, SumLinear
  <1>13. s \in Int /\ q \in Int
    BY <1>8, SumType
  <1>14. d > 0
    BY <1>1, LoadsApart DEF w
  <1>15. Slope([i \in I |-> <<x[i], y[i]>>]) = IF d = 0 THEN None ELSE (100 * (m * r - s * t)) \div d
    BY <1>3, SlopeSays DEF w, p
  <1> HIDE DEF s, q, t, r
  <1>16. 100 * (m * r - s * t) = (100 * k) * d
    <2>1. t = c * m + k * s
      BY <1>10, <1>12
    <2>2. 100 * (m * (c * s + k * q) - s * (c * m + k * s)) = (100 * k) * (m * q - s * s)
      BY <1>13
    <2> QED BY <1>9, <2>1, <2>2
  <1>17. d \in Int /\ 100 * k \in Int
    BY <1>13
  <1> HIDE DEF d, I
  <1>18. ((100 * k) * d) \div d = 100 * k
    BY <1>14, <1>17, Quotient
  <1>19. d # 0
    BY <1>14, <1>17
  <1>20. Slope([i \in I |-> <<x[i], y[i]>>]) = 100 * k
    BY <1>15, <1>16, <1>18, <1>19
  <1> QED BY <1>20 DEF I, PointsOf

\* Sifting a sequence keeps the items at the indices, and no others.
LEMMA SiftedSays ==
    ASSUME NEW V, NEW s \in Seq(V), NEW I \in SUBSET DOMAIN s
    PROVE /\ Sifted(s, I) \in Seq(V) /\ Len(Sifted(s, I)) <= Len(s)
          /\ ToSet(Sifted(s, I)) = {s[i] : i \in I}
  <1> DEFINE l == Sifted(s, I)
             n == Cardinality(I)
  <1>1. DOMAIN s = 1 .. Len(s) /\ Len(s) \in Nat /\ \A i \in DOMAIN s : s[i] \in V
    OBVIOUS
  <1>2. IsFiniteSet(DOMAIN s) /\ Cardinality(DOMAIN s) = Len(s)
    <2>1. PICK k \in Nat : k = Len(s)
      BY <1>1
    <2>2. IsFiniteSet(1 .. k) /\ Cardinality(1 .. k) = k
      BY FS_Interval
    <2> QED BY <1>1, <2>1, <2>2
  <1>3. IsFiniteSet(I) /\ n \in Nat /\ n <= Len(s)
    BY <1>2, FS_Subset, FS_CardinalityType
  <1>4. I \in SUBSET Int /\ \A i \in I : s[i] \in V
    BY <1>1
  <1>5. PICK at : Enumerates(at, I, Less) /\ Listing(l, s, at, I)
    BY <1>3, <1>4, InOrder
  <1> HIDE DEF l, n
  <1>6. l = [k \in 1 .. n |-> s[at[k]]] /\ \A k \in 1 .. n : at[k] \in I
    BY <1>5 DEF Listing, Enumerates, n
  <1>7. l \in Seq(V) /\ Len(l) = n /\ DOMAIN l = 1 .. n
    BY <1>3, <1>4, <1>6
  <1>8. ToSet(l) = {s[i] : i \in I}
    <2>1. ToSet(l) = {l[k] : k \in 1 .. n}
      BY <1>7 DEF ToSet
    <2>2. \A i \in I : \E k \in 1 .. n : at[k] = i
      BY <1>5 DEF Enumerates, n
    <2> QED BY <1>6, <2>1, <2>2
  <1> QED BY <1>3, <1>7, <1>8 DEF l

\* What the sessions of a ladder are.
LadderRecords == [load : Int \cup {None}, call : Int \cup {None}, total : Int \cup {None}]

\* Several distinct values need as many items.
LEMMA ManyValues ==
    ASSUME NEW I, IsFiniteSet(I), NEW f
    PROVE LET T == {f[i] : i \in I} IN IsFiniteSet(T) /\ Cardinality(T) \in Nat /\ Cardinality(T) <= Cardinality(I)
  <1> DEFINE g == [i \in I |-> f[i]]
             T == {f[i] : i \in I}
  <1>1. g \in Surjection(I, T)
    BY DEF Surjection
  <1> HIDE DEF T, g
  <1>2. IsFiniteSet(T) /\ Cardinality(T) <= Cardinality(I)
    BY <1>1, FS_Surjection
  <1> QED BY <1>2, FS_CardinalityType DEF T

LEMMA SeveralApart ==
    ASSUME NEW T, IsFiniteSet(T), Cardinality(T) >= 3 PROVE \E a, b \in T : a # b
  <1> SUFFICES ASSUME \A a, b \in T : a = b PROVE FALSE
    OBVIOUS
  <1>1. T # {}
    BY FS_EmptySet
  <1>2. PICK a \in T : TRUE
    BY <1>1
  <1>3. T = {a}
    BY <1>2
  <1>4. Cardinality(T) = 1
    BY <1>3, FS_Singleton
  <1> QED BY <1>4

\* The sessions of the ladder that have a load.
LoadedOf(ladder) == Those(ladder, LAMBDA s : s.load # None)

\* What the command makes of a ladder.
Fits(ladder, c, k) ==
    IF Cardinality({s.load : s \in ToSet(LoadedOf(ladder))}) < 3 THEN ScalingCommand(ladder) = None
    ELSE (\A s \in ToSet(LoadedOf(ladder)) : s.call = c + k * s.load) => ScalingCommand(ladder).perCall = 100 * k

LEMMA LadderFits == ASSUME NEW ladder \in Seq(LadderRecords), NEW c \in Int, NEW k \in Int PROVE Fits(ladder, c, k)
  <1> DEFINE A == {i \in DOMAIN ladder : ladder[i].load # None}
             loaded == Sifted(ladder, A)
             B == {i \in DOMAIN loaded : loaded[i].call # None}
             having == Sifted(loaded, B)
             m == Len(having)
             x == [i \in 1 .. m |-> having[i].load]
             y == [i \in 1 .. m |-> having[i].call]
             z == [i \in 1 .. m |-> having[i].total]
             loads == {s.load : s \in ToSet(loaded)}
  <1>1. /\ LoadedOf(ladder) = loaded /\ Those(ladder, LAMBDA s : s.load # None) = loaded
        /\ Those(loaded, LAMBDA s : s.call # None) = having
    BY DEF LoadedOf, Those
  <1>2. /\ loaded \in Seq(LadderRecords) /\ Len(loaded) <= Len(ladder)
        /\ ToSet(loaded) = {ladder[i] : i \in A}
    BY SiftedSays
  <1>3. ScalingOf(ladder).loads = loads
    BY <1>1 DEF ScalingOf
  <1>4. loads \in SUBSET Int
    <2>1. \A i \in A : ladder[i] \in LadderRecords /\ ladder[i].load # None
      OBVIOUS
    <2>2. \A r \in LadderRecords : r.load \in Int \cup {None}
      BY DEF LadderRecords
    <2> HIDE DEF A
    <2> QED BY <1>2, <2>1, <2>2
  <1>5. Cardinality(loads) < 3 => ScalingCommand(ladder) = None
    BY <1>3 DEF ScalingCommand
  <1>6. ASSUME ~(Cardinality(loads) < 3), \A s \in ToSet(loaded) : s.call = c + k * s.load
        PROVE ScalingCommand(ladder).perCall = 100 * k
    <2> HIDE DEF A, B, m
    <2>1. /\ having \in Seq(LadderRecords) /\ Len(having) <= Len(loaded)
          /\ ToSet(having) = {loaded[i] : i \in B}
      <3>1. B \in SUBSET DOMAIN loaded
        BY DEF B
      <3> HIDE DEF loaded
      <3> QED BY <1>2, <3>1, SiftedSays
    <2>2. \A r \in LadderRecords : r.load \in Int \cup {None}
      BY DEF LadderRecords
    <2>3. None \notin Int
      BY AbsenceAssumption
    <2> HIDE DEF loaded, having
    <2>4. \A i \in DOMAIN loaded : loaded[i] \in ToSet(loaded)
      BY DEF ToSet
    <2>5. ASSUME NEW s \in ToSet(loaded) PROVE s.load \in Int /\ s.call \in Int
      <3>1. s.load \in Int
        BY <1>4
      <3>2. PICK v \in Int : v = s.load
        BY <3>1
      <3>3. s.call = c + k * v
        BY <1>6, <3>2
      <3> QED BY <3>1, <3>3
    <2>6. B = DOMAIN loaded
      BY <2>3, <2>4, <2>5 DEF B
    <2>7. ToSet(having) = ToSet(loaded)
      BY <2>1, <2>6 DEF ToSet
    <2>8. loads = {having[i].load : i \in 1 .. m} /\ m \in Nat
      <3>1. DOMAIN having = 1 .. m /\ m \in Nat
        BY <2>1 DEF m
      <3>2. ToSet(having) = {having[i] : i \in 1 .. m}
        BY <3>1 DEF ToSet
      <3>3. loads = {s.load : s \in ToSet(having)}
        BY <2>7
      <3>4. {s.load : s \in {having[i] : i \in 1 .. m}} = {having[i].load : i \in 1 .. m}
        OBVIOUS
      <3> QED BY <3>1, <3>2, <3>3, <3>4
    <2>9. \A i \in 1 .. m : x[i] \in Int /\ y[i] = c + k * x[i]
      <3>1. ASSUME NEW i \in 1 .. m PROVE having[i] \in ToSet(loaded)
        <4>1. DOMAIN having = 1 .. m
          BY <2>1 DEF m
        <4> QED BY <2>7, <4>1 DEF ToSet
      <3>2. \A i \in 1 .. m : x[i] = having[i].load /\ y[i] = having[i].call
        OBVIOUS
      <3> HIDE DEF x, y
      <3> QED BY <1>6, <2>5, <3>1, <3>2
    <2>10. \A i \in 1 .. m : x[i] = having[i].load
      OBVIOUS
    <2> HIDE DEF x, y, loads
    <2>11. loads = {x[i] : i \in 1 .. m}
      BY <2>8, <2>10
    <2>12. IsFiniteSet(1 .. m) /\ Cardinality(1 .. m) = m
      BY <2>8, FS_Interval
    <2>13. IsFiniteSet(loads) /\ Cardinality(loads) \in Nat /\ Cardinality(loads) <= m
      BY <2>11, <2>12, ManyValues
    <2>14. Cardinality(loads) >= 3 /\ m >= 3
      BY <1>6, <2>8, <2>13
    <2>15. \E a, b \in 1 .. m : x[a] # x[b]
      BY <2>11, <2>13, <2>14, SeveralApart
    <2>16. Weighs(x, 1 .. m)
      BY <2>9, <2>12 DEF Weighs
    <2>17. Slope(PointsOf(x, y, m)) = 100 * k
      <3>1. PICK a \in 1 .. m, b \in 1 .. m : x[a] # x[b]
        BY <2>15
      <3>2. Lawful(x, y, c, k, 1 .. m)
        BY <2>9 DEF Lawful
      <3>3. m \in Nat /\ m >= 3
        BY <2>8, <2>14
      <3> QED BY <2>16, <3>1, <3>2, <3>3, LawFitted
    <2>18. [i \in DOMAIN having |-> <<having[i].load, having[i].call>>] = PointsOf(x, y, m)
      <3>1. DOMAIN having = 1 .. m
        BY <2>1 DEF m
      <3> QED BY <3>1 DEF x, y, PointsOf
    <2>19. ScalingOf(ladder).perCall = Slope([i \in DOMAIN having |-> <<having[i].load, having[i].call>>])
      BY <1>1 DEF ScalingOf, having, loaded
    <2>20. Len(ladder) >= 3
      BY <1>2, <2>1, <2>14 DEF m
    <2>21. ScalingCommand(ladder) = ScalingOf(ladder)
      BY <1>3, <1>6, <2>14, <2>20 DEF ScalingCommand
    <2> QED BY <2>17, <2>18, <2>19, <2>21
  <1> HIDE DEF loaded
  <1> QED BY <1>1, <1>5, <1>6 DEF Fits

LEMMA PowerState == ASSUME AnswersInv PROVE PowerLawRecovered
  <1> SUFFICES ASSUME report # None, report.kind = "scaling" PROVE PowerLawRecovered
    BY DEF PowerLawRecovered
  <1>1. report.ladder \in Ladders /\ report.result = ScalingCommand(report.ladder)
    BY DEF AnswersInv, AnswerKept
  <1>2. report.ladder \in Seq(LadderRecords)
    BY <1>1, LadderAssumption DEF LadderRecords
  <1>3. 0 .. 3 \in SUBSET Int /\ -1 .. 2 \in SUBSET Int /\ 0 \in Int
    OBVIOUS
  <1>4. \A c \in 0 .. 3, k \in -1 .. 2 : Fits(report.ladder, c, k)
    BY <1>2, <1>3, LadderFits
  <1>5. Fits(report.ladder, 0, 0)
    BY <1>2, <1>3, LadderFits
  <1> QED BY <1>1, <1>4, <1>5 DEF PowerLawRecovered, Fits, LoadedOf

\* Whatever ladder the command is given: of fewer than three loads it makes nothing, and
\* of a section that costs c * load^k per call it recovers k (scaling.py).
THEOREM PowerLawStands == Spec => []PowerLawRecovered
  BY AnswersStand, PowerState, PTL

-----------------------------------------------------------------------------
(* What is put first.                                                      *)

\* Ranking rearranges, and puts the highest key first, of equal ones the first.
Ranks(r, items, keys, n, V) ==
    /\ r \in [1 .. n -> V]
    /\ \A i \in 1 .. n : \E k \in 1 .. n : r[k] = items[i]
    /\ \E b \in 1 .. n : /\ r[1] = items[b]
                         /\ \A i \in 1 .. n : keys[b] > keys[i] \/ (keys[b] = keys[i] /\ b <= i)

LEMMA RankedSays ==
    ASSUME NEW n \in Nat, n >= 1, NEW keys \in [1 .. n -> Int], NEW V, NEW items \in [1 .. n -> V]
    PROVE Ranks(Ranked(items, keys), items, keys, n, V)
  <1> DEFINE I == 1 .. n
             R == Falling(keys, n)
             l == Ranked(items, keys)
  <1>1. PICK at : Enumerates(at, I, R) /\ Listing(l, items, at, I)
    BY RankedOrder
  <1>2. Cardinality(I) = n
    BY FS_Interval
  <1> HIDE DEF R, l
  <1>3. /\ at \in [1 .. n -> I] /\ (\A k, j \in 1 .. n : k < j => <<at[k], at[j]>> \in R)
        /\ \A i \in I : \E k \in 1 .. n : at[k] = i
    BY <1>1, <1>2 DEF Enumerates
  <1>4. l = [k \in 1 .. n |-> items[at[k]]]
    BY <1>1, <1>2 DEF Listing
  <1>5. l \in [1 .. n -> V]
    BY <1>3, <1>4
  <1>6. \A i \in 1 .. n : \E k \in 1 .. n : l[k] = items[i]
    BY <1>3, <1>4
  <1>7. at[1] \in 1 .. n /\ l[1] = items[at[1]]
    BY <1>3, <1>4
  <1>8. ASSUME NEW i \in 1 .. n PROVE keys[at[1]] > keys[i] \/ (keys[at[1]] = keys[i] /\ at[1] <= i)
    <2>1. PICK k \in 1 .. n : at[k] = i
      BY <1>3
    <2>2. CASE k = 1
      <3>1. keys[i] \in Int /\ at[1] = i
        BY <2>1, <2>2
      <3> QED BY <3>1
    <2>3. CASE k # 1
      <3>1. 1 \in 1 .. n /\ 1 < k
        BY <2>3
      <3>2. <<at[1], i>> \in R
        BY <1>3, <2>1, <3>1
      <3>3. keys[at[1]] > keys[i] \/ (keys[at[1]] = keys[i] /\ at[1] < i)
        BY <1>7, <3>2, FallingPairs DEF R
      <3> QED BY <1>7, <3>3
    <2> QED BY <2>2, <2>3
  <1> QED BY <1>5, <1>6, <1>7, <1>8 DEF l, Ranks

Pressure(layers, l) == IF layers[l].score = None THEN -1 ELSE layers[l].score

LEMMA PressureType == ASSUME NEW layers, Scores(layers), NEW l \in Layers PROVE Pressure(layers, l) \in Int
  <1>1. layers[l].score \in Percent \cup {None}
    BY DEF Scores
  <1> QED BY <1>1 DEF Pressure, Percent

\* All layers, in some order.
Complete(order) == order \in [1 .. 7 -> Layers] /\ \A l \in Layers : \E i \in 1 .. 7 : order[i] = l

LEMMA ScorerOrderComplete == Complete(ScorerOrder)
  <1>1. ScorerOrder \in [1 .. 7 -> Layers]
    BY DEF ScorerOrder, Layers
  <1>2. /\ ScorerOrder[1] = "cpu" /\ ScorerOrder[2] = "memory_cache" /\ ScorerOrder[3] = "sync_locks"
        /\ ScorerOrder[4] = "scheduler" /\ ScorerOrder[5] = "io" /\ ScorerOrder[6] = "runtime_gc"
        /\ ScorerOrder[7] = "app_sim"
    BY DEF ScorerOrder
  <1>3. 1 \in 1 .. 7 /\ 2 \in 1 .. 7 /\ 3 \in 1 .. 7 /\ 4 \in 1 .. 7 /\ 5 \in 1 .. 7 /\ 6 \in 1 .. 7 /\ 7 \in 1 .. 7
    OBVIOUS
  <1>4. ASSUME NEW l \in Layers PROVE \E i \in 1 .. 7 : ScorerOrder[i] = l
    BY <1>2, <1>3 DEF Layers
  <1> QED BY <1>1, <1>4 DEF Complete

LEMMA ByPressureSays ==
    ASSUME NEW order, Complete(order), NEW layers, Scores(layers)
    PROVE /\ Complete(ByPressure(order, layers))
          /\ \A l \in Layers : Pressure(layers, ByPressure(order, layers)[1]) >= Pressure(layers, l)
  <1> DEFINE keys == [i \in 1 .. 7 |-> Pressure(layers, order[i])]
             r == ByPressure(order, layers)
  <1>1. order \in [1 .. 7 -> Layers] /\ DOMAIN order = 1 .. 7
    BY DEF Complete
  <1>2. r = Ranked(order, keys)
    BY <1>1 DEF ByPressure, Pressure
  <1>3. keys \in [1 .. 7 -> Int]
    BY <1>1, PressureType
  <1>4. \A i \in 1 .. 7 : keys[i] = Pressure(layers, order[i])
    OBVIOUS
  <1> HIDE DEF keys, r
  <1>5. 7 \in Nat /\ 7 >= 1
    OBVIOUS
  <1>6. Ranks(r, order, keys, 7, Layers)
    BY <1>1, <1>2, <1>3, <1>5, RankedSays
  <1>7. Complete(r)
    BY <1>6 DEF Complete, Ranks
  <1>8. ASSUME NEW l \in Layers PROVE Pressure(layers, r[1]) >= Pressure(layers, l)
    <2>1. PICK b \in 1 .. 7 : r[1] = order[b] /\ \A i \in 1 .. 7 : keys[b] > keys[i] \/ (keys[b] = keys[i] /\ b <= i)
      BY <1>6 DEF Ranks
    <2>2. PICK i \in 1 .. 7 : order[i] = l
      BY DEF Complete
    <2>3. keys[b] >= keys[i]
      BY <1>3, <2>1
    <2> QED BY <1>4, <2>1, <2>2, <2>3
  <1> QED BY <1>7, <1>8 DEF r

\* The layer a summary names is the worst of those collected.
NamesWorst(summary) ==
    LET scores == CollectedScores(summary)
        named == summary.recommends
    IN IF DOMAIN scores = {} THEN named = None
       ELSE named # None /\ \A l \in DOMAIN scores : scores[named] >= scores[l]

LEMMA SummaryNames ==
    ASSUME NEW evidence, Numbers(evidence), NEW prior
    PROVE NamesWorst(SummaryOf(evidence, prior))
  <1> DEFINE summary == SummaryOf(evidence, prior)
             scored == Scored(evidence)
             layers == summary.layers
             first == Order(scored, layers)[1]
             scores == CollectedScores(summary)
  <1>1. summary.recommends = IF layers[first].score = None THEN None ELSE first
    BY DEF SummaryOf
  <1>2. Scores(scored) /\ Scores(layers)
    BY ScoredLayers, SummaryLayers
  <1>3. Order(scored, layers) = ByPressure(ByPressure(ScorerOrder, scored), layers)
    BY DEF Order
  <1>4. /\ DOMAIN scores = {l \in Layers : layers[l].state = "collected"}
        /\ \A l \in DOMAIN scores : scores[l] = layers[l].score /\ scores[l] \in Percent
    BY <1>2, CollectedType
  <1> HIDE DEF summary, scored, layers, scores
  <1>5. Complete(ByPressure(ScorerOrder, scored))
    BY <1>2, ScorerOrderComplete, ByPressureSays
  <1>6. /\ Complete(Order(scored, layers))
        /\ \A l \in Layers : Pressure(layers, first) >= Pressure(layers, l)
    BY <1>2, <1>3, <1>5, ByPressureSays
  <1>7. first \in Layers
    BY <1>6 DEF Complete
  <1> HIDE DEF first
  <1>8. None \notin Percent
    BY AbsenceAssumption DEF Percent
  <1>9. CASE layers[first].score = None
    <2>1. ASSUME NEW l \in DOMAIN scores PROVE FALSE
      <3>1. Pressure(layers, l) \in Percent
        BY <1>4, <1>8 DEF Pressure
      <3>2. Pressure(layers, first) = -1
        BY <1>9 DEF Pressure
      <3> QED BY <1>4, <1>6, <3>1, <3>2 DEF Percent
    <2>2. DOMAIN scores = {}
      BY <2>1
    <2>3. summary.recommends = None
      BY <1>1, <1>9
    <2> QED BY <2>2, <2>3 DEF NamesWorst, summary, scores
  <1>10. CASE layers[first].score # None
    <2>1. layers[first].state = "collected"
      BY <1>2, <1>7, <1>10 DEF Scores
    <2>2. first \in DOMAIN scores /\ first # None
      BY <1>4, <1>7, <2>1, AbsenceAssumption
    <2>3. summary.recommends = first
      BY <1>1, <1>10
    <2>4. ASSUME NEW l \in DOMAIN scores PROVE scores[first] >= scores[l]
      <3>1. Pressure(layers, l) = scores[l] /\ Pressure(layers, first) = scores[first]
        BY <1>4, <1>8, <2>2 DEF Pressure
      <3> QED BY <1>4, <1>6, <3>1
    <2>5. DOMAIN scores # {}
      BY <2>2
    <2>6. /\ DOMAIN CollectedScores(summary) # {} /\ summary.recommends # None
          /\ \A l \in DOMAIN CollectedScores(summary) :
                CollectedScores(summary)[summary.recommends] >= CollectedScores(summary)[l]
      BY <2>2, <2>3, <2>4, <2>5 DEF scores
    <2> QED BY <2>6 DEF NamesWorst, summary
  <1> QED BY <1>9, <1>10

-----------------------------------------------------------------------------
(* Shares of managed time.                                                 *)

\* What two parts of a set weigh.
LEMMA SumSplit ==
    ASSUME NEW w, NEW I, Weighs(w, I), NEW J \in SUBSET I
    PROVE /\ SumOf(w, J) \in Int /\ SumOf(w, I \ J) \in Int
          /\ SumOf(w, I) = SumOf(w, J) + SumOf(w, I \ J)
  <1> DEFINE v == [x \in I |-> IF x \in J THEN w[x] ELSE 0]
             u == [x \in I |-> IF x \in J THEN 0 ELSE w[x]]
             K == I \ J
  <1>1. \A x \in I : w[x] \in Int
    BY DEF Weighs
  <1>2. /\ \A x \in I : v[x] \in Int /\ u[x] \in Int /\ w[x] = 1 * v[x] + 1 * u[x]
        /\ \A x \in J : v[x] = w[x]
        /\ \A x \in I \ J : v[x] = 0
        /\ \A x \in K : u[x] = w[x]
        /\ \A x \in I \ K : u[x] = 0
    BY <1>1
  <1>3. K \in SUBSET I
    OBVIOUS
  <1> HIDE DEF v, u, K
  <1>4. Weighs(v, I) /\ Weighs(u, I)
    BY <1>2 DEF Weighs
  <1>5. SumOf(w, I) = 1 * SumOf(v, I) + 1 * SumOf(u, I)
    BY <1>2, <1>4, SumLinear
  <1>6. SumOf(v, I) = SumOf(v, J) /\ SumOf(u, I) = SumOf(u, K)
    BY <1>2, <1>3, <1>4, SumLess
  <1>7. Weighs(w, J) /\ Weighs(w, K)
    BY <1>3, WeighsSubset
  <1>8. SumOf(v, J) = SumOf(w, J) /\ SumOf(u, K) = SumOf(w, K)
    BY <1>2, <1>7, SumSame
  <1>9. SumOf(w, J) \in Int /\ SumOf(w, K) \in Int
    BY <1>7, SumType
  <1> QED BY <1>5, <1>6, <1>8, <1>9 DEF K

\* No element weighs more than all, when none weighs less than nothing.
LEMMA SumAtLeast ==
    ASSUME NEW w, NEW I, IsFiniteSet(I), \A x \in I : w[x] \in Nat, NEW a \in I PROVE w[a] <= SumOf(w, I)
  <1>1. Weighs(w, I)
    BY SumNatural
  <1>2. SumOf(w, I) = w[a] + SumOf(w, I \ {a})
    BY <1>1, SumTake
  <1>3. IsFiniteSet(I \ {a})
    BY FS_RemoveElement
  <1>4. SumOf(w, I \ {a}) \in Nat
    BY <1>3, SumNatural
  <1> QED BY <1>2, <1>4

\* What each subsystem takes.
Taken(snap) == [b \in Subsystems |-> Exclusive(b, snap)]

LEMMA TakenSays ==
    ASSUME NEW snap, Parses(snap)
    PROVE /\ \A b \in Subsystems : Taken(snap)[b] \in Nat /\ Taken(snap)[b] = Exclusive(b, snap)
          /\ Weighs(Taken(snap), Subsystems)
          /\ MeasuredMs(snap) = SumOf(Taken(snap), Subsystems) /\ MeasuredMs(snap) \in Nat
  <1> DEFINE w == Taken(snap)
  <1>1. DOMAIN w = Subsystems /\ \A b \in Subsystems : w[b] = Exclusive(b, snap)
    BY DEF Taken
  <1>2. MeasuredMs(snap) = SumFunction(w)
    BY DEF MeasuredMs, Taken
  <1> HIDE DEF w
  <1>3. \A b \in Subsystems : w[b] \in Nat
    BY <1>1, ExclusiveType
  <1>4. Weighs(w, Subsystems) /\ SumOf(w, Subsystems) \in Nat
    BY <1>3, NestedFinite, SumNatural
  <1>5. SumFunction(w) = SumOf(w, Subsystems)
    BY <1>1, <1>4, FunctionSum
  <1> QED BY <1>1, <1>2, <1>3, <1>4, <1>5 DEF w

\* The subsystems that measured anything.
Busy(snap) == {b \in Subsystems : Exclusive(b, snap) > 0}

LEMMA ShareNatural == \A n \in 0 .. 1000 : n \in Nat
  OBVIOUS

LEMMA FloorShare ==
    ASSUME NEW e \in Nat, NEW m \in Nat, m > 0, NEW q, q = (1000 * e) \div m
    PROVE q \in Nat /\ m * q <= 1000 * e /\ 1000 * e <= m * q + m
  OBVIOUS

LEMMA SmallShare == ASSUME NEW m \in Nat, m > 0, NEW q \in Nat, NEW k \in Nat, m * q <= k * m PROVE q <= k
  <1> SUFFICES ASSUME q > k PROVE FALSE
    OBVIOUS
  <1>1. PICK d \in Nat : q = k + d + 1
    <2>1. q - k - 1 \in Nat /\ q = k + (q - k - 1) + 1
      OBVIOUS
    <2> QED BY <2>1
  <1>2. m * q = k * m + m * d + m
    BY <1>1
  <1>3. m * d \in Nat /\ k * m \in Nat
    OBVIOUS
  <1> QED BY <1>2, <1>3

\* Each share is the floor of its thousandths.
LEMMA SharesSay ==
    ASSUME NEW snap, Parses(snap)
    PROVE LET f == Attribution(snap)
              m == MeasuredMs(snap)
          IN /\ DOMAIN f = Busy(snap)
             /\ \A b \in Busy(snap) :
                   /\ m > 0 /\ f[b] \in 0 .. 1000
                   /\ m * f[b] <= 1000 * Taken(snap)[b] /\ 1000 * Taken(snap)[b] <= m * f[b] + m
  <1> DEFINE f == Attribution(snap)
             m == MeasuredMs(snap)
             w == Taken(snap)
  <1>1. DOMAIN f = Busy(snap) /\ \A b \in Busy(snap) : f[b] = (1000 * Exclusive(b, snap)) \div m
    BY DEF Attribution, Busy
  <1>2. /\ \A b \in Subsystems : w[b] \in Nat /\ w[b] = Exclusive(b, snap)
        /\ m = SumOf(w, Subsystems) /\ m \in Nat
    BY TakenSays
  <1> HIDE DEF f, m, w
  <1>3. ASSUME NEW b \in Busy(snap)
        PROVE m > 0 /\ f[b] \in 0 .. 1000 /\ m * f[b] <= 1000 * w[b] /\ 1000 * w[b] <= m * f[b] + m
    <2>1. b \in Subsystems /\ w[b] > 0 /\ w[b] \in Nat
      BY <1>2 DEF Busy
    <2>2. w[b] <= m
      BY <1>2, <2>1, NestedFinite, SumAtLeast
    <2>3. m > 0
      BY <1>2, <2>1, <2>2
    <2>4. f[b] = (1000 * w[b]) \div m
      BY <1>1, <1>2, <2>1
    <2>5. f[b] \in Nat /\ m * f[b] <= 1000 * w[b] /\ 1000 * w[b] <= m * f[b] + m
      BY <1>2, <2>1, <2>3, <2>4, FloorShare
    <2>6. m * f[b] <= 1000 * m
      <3>1. PICK q \in Nat : q = f[b]
        BY <2>5
      <3>2. m * q \in Nat
        BY <1>2, <1>3
      <3> QED BY <1>2, <2>1, <2>2, <2>5, <3>1, <3>2
    <2>7. f[b] <= 1000
      BY <1>2, <2>3, <2>5, <2>6, SmallShare
    <2> QED BY <2>3, <2>5, <2>7
  <1> QED BY <1>1, <1>3 DEF f, m, w

\* No share is negative, or more than the whole.
LEMMA ShareRanges ==
    ASSUME NEW snap, Parses(snap)
    PROVE \A b \in Busy(snap) : Attribution(snap)[b] \in 0 .. 1000 /\ Attribution(snap)[b] \in Nat
  <1> SUFFICES ASSUME NEW b \in Busy(snap)
               PROVE Attribution(snap)[b] \in 0 .. 1000 /\ Attribution(snap)[b] \in Nat
    OBVIOUS
  <1>1. Attribution(snap)[b] \in 0 .. 1000
    BY SharesSay
  <1> QED BY <1>1

LEMMA BusyFinite == ASSUME NEW snap PROVE IsFiniteSet(Busy(snap)) /\ Busy(snap) \in SUBSET Subsystems
  <1>1. Busy(snap) \in SUBSET Subsystems
    BY DEF Busy
  <1> QED BY <1>1, NestedFinite, FS_Subset

\* The shares make up the whole but for rounding.
LEMMA WholeShares ==
    ASSUME NEW snap, Parses(snap), Attribution(snap) # <<>>
    PROVE LET f == Attribution(snap) IN SumFunction(f) \in 1000 - Cardinality(DOMAIN f) .. 1000
  <1> DEFINE f == Attribution(snap)
             m == MeasuredMs(snap)
             w == Taken(snap)
             D == Busy(snap)
             n == Cardinality(D)
             s == SumOf(f, D)
  <1>1. /\ \A b \in Subsystems : w[b] \in Nat /\ w[b] = Exclusive(b, snap)
        /\ Weighs(w, Subsystems) /\ m = SumOf(w, Subsystems) /\ m \in Nat
    BY TakenSays
  <1>2. /\ DOMAIN f = D
        /\ \A b \in D : m > 0 /\ f[b] \in 0 .. 1000 /\ m * f[b] <= 1000 * w[b] /\ 1000 * w[b] <= m * f[b] + m
    BY SharesSay
  <1>3. IsFiniteSet(D) /\ D \in SUBSET Subsystems /\ n \in Nat
    BY BusyFinite, FS_CardinalityType
  <1>4. D # {}
    <2>1. f = [b \in D |-> (1000 * Exclusive(b, snap)) \div m]
      BY DEF Attribution, Busy
    <2>2. f # <<>>
      OBVIOUS
    <2> HIDE DEF f, D
    <2>3. D = {} => f = <<>>
      BY <2>1
    <2> QED BY <2>2, <2>3
  <1>5. \A b \in Subsystems \ D : w[b] = 0
    BY <1>1 DEF Busy
  <1> HIDE DEF f, w, D, m
  <1>6. SumOf(w, D) = m
    BY <1>1, <1>3, <1>5, SumLess
  <1>7. Weighs(w, D) /\ Weighs(f, D) /\ s \in Nat
    <2>1. Weighs(w, D)
      BY <1>1, <1>3, WeighsSubset
    <2>2. \A b \in D : f[b] \in Nat
      BY ShareRanges DEF f, D
    <2>3. Weighs(f, D) /\ s \in Nat
      BY <1>3, <2>2, SumNatural
    <2> QED BY <2>1, <2>3
  <1> DEFINE one == [b \in D |-> 1]
             mf == [b \in D |-> m * f[b] + 0 * one[b]]
             kw == [b \in D |-> 1000 * w[b] + 0 * one[b]]
             mfm == [b \in D |-> 1 * mf[b] + m * one[b]]
  <1>8. Weighs(one, D) /\ SumOf(one, D) = n
    <2>1. \A b \in D : one[b] = 1
      OBVIOUS
    <2> HIDE DEF one
    <2>2. Weighs(one, D) /\ SumOf(one, D) = 1 * n
      BY <1>3, <2>1, SumConstant
    <2> QED BY <1>3, <2>2
  <1>9. /\ \A b \in D : mf[b] = m * f[b] + 0 * one[b]
        /\ \A b \in D : kw[b] = 1000 * w[b] + 0 * one[b]
        /\ \A b \in D : mfm[b] = 1 * mf[b] + m * one[b]
        /\ \A b \in D : one[b] = 1
    OBVIOUS
  <1> HIDE DEF one, mf, kw, mfm, s, n
  <1>10. Weighs(mf, D) /\ SumOf(mf, D) = m * s + 0 * n
    BY <1>1, <1>7, <1>8, <1>9, SumLinear DEF s
  <1>11. Weighs(kw, D) /\ SumOf(kw, D) = 1000 * m + 0 * n
    BY <1>6, <1>7, <1>8, <1>9, SumLinear
  <1>12. Weighs(mfm, D) /\ SumOf(mfm, D) = 1 * SumOf(mf, D) + m * n
    <2>1. 1 \in Int /\ m \in Int
      BY <1>1
    <2> QED BY <1>8, <1>9, <1>10, <2>1, SumLinear
  <1>13. ASSUME NEW b \in D PROVE mf[b] <= kw[b] /\ kw[b] <= mfm[b]
    <2>0. b \in Subsystems /\ f[b] \in 0 .. 1000
      BY <1>2, <1>3
    <2>7. f[b] \in Nat /\ w[b] \in Nat
      BY <1>1, <2>0, ShareNatural, Zenon
    <2>1. PICK q \in Nat, e \in Nat : q = f[b] /\ e = w[b]
      BY <2>7
    <2>2. m * q \in Nat
      BY <1>1
    <2>3. mf[b] = m * q /\ kw[b] = 1000 * e /\ mfm[b] = m * q + m
      <3> DEFINE x == m * q
      <3>1. x \in Nat /\ m \in Int /\ one[b] = 1
        BY <1>1, <1>9, <2>2
      <3>2. mf[b] = x + 0 * one[b]
        BY <1>9, <2>1
      <3>3. kw[b] = 1000 * e + 0 * one[b]
        BY <1>9, <2>1
      <3>4. mfm[b] = 1 * mf[b] + m * one[b]
        BY <1>9
      <3> HIDE DEF x
      <3>5. mf[b] = x
        BY <3>1, <3>2
      <3>6. kw[b] = 1000 * e
        BY <3>1, <3>3
      <3>7. mfm[b] = x + m
        BY <3>1, <3>4, <3>5
      <3> QED BY <3>5, <3>6, <3>7 DEF x
    <2> QED BY <1>2, <2>1, <2>3
  <1>14. SumOf(mf, D) <= SumOf(kw, D) /\ SumOf(kw, D) <= SumOf(mfm, D)
    BY <1>10, <1>11, <1>12, <1>13, SumGrow
  <1>15. m > 0
    BY <1>2, <1>4
  <1>16. m * s <= 1000 * m /\ 1000 * m <= m * (s + n)
    <2>1. m * s \in Nat /\ m * n \in Nat /\ m * (s + n) = m * s + m * n
      BY <1>1, <1>3, <1>7
    <2>2. SumOf(mf, D) = m * s /\ SumOf(kw, D) = 1000 * m /\ SumOf(mfm, D) = m * s + m * n
      BY <1>1, <1>3, <1>10, <1>11, <1>12, <2>1
    <2> QED BY <1>14, <2>1, <2>2
  <1>17. s <= 1000
    BY <1>1, <1>7, <1>15, <1>16, SmallShare
  <1>18. 1000 <= s + n
    <2>1. m * 1000 <= (s + n) * m
      <3>1. m * (s + n) = (s + n) * m
        BY <1>1, <1>3, <1>7
      <3> QED BY <1>1, <1>16, <3>1
    <2>2. s + n \in Nat /\ 1000 \in Nat
      BY <1>3, <1>7
    <2> QED BY <1>1, <1>15, <2>1, <2>2, SmallShare
  <1>19. SumFunction(f) = s
    BY <1>2, <1>7, FunctionSum DEF s
  <1>20. SumFunction(f) \in 1000 - n .. 1000
    BY <1>3, <1>7, <1>17, <1>18, <1>19
  <1> QED BY <1>2, <1>20 DEF f, n

-----------------------------------------------------------------------------
(* The causes of lag.                                                      *)

\* A severity, in hundredths.
AtMost == {n \in Int : n <= 100}

GcLines == [kind : {"slow", "stw"}, ms : Nat]
ThreadSamples == [t : Nat, process : Nat \cup {None}, rows : Nat, main : Nat, waiters : Seq(Nat)]
ProcSamples == [t : Nat, mono : Nat \cup {None}, rss : Nat \cup {None}, fd : Int, cpu : Nat]

LEMMA CapMost == ASSUME NEW n \in Int PROVE Cap(n) \in AtMost
  <1>1. Min({100, n}) = IF 100 <= n THEN 100 ELSE n
    <2>1. 100 \in Int
      OBVIOUS
    <2> QED BY <2>1, MinPair, Zenon
  <1> QED BY <1>1 DEF Cap, AtMost

LEMMA RoundType == ASSUME NEW a \in Int, NEW b \in Int, b >= 1 PROVE RoundDiv(a, b) \in Int
  <1>1. 2 * a + b \in Int /\ 2 * b \in Int /\ 2 * b > 0
    OBVIOUS
  <1> DEFINE x == 2 * a + b
             y == 2 * b
  <1>2. x \in Int /\ y \in Int /\ y > 0
    BY <1>1
  <1> HIDE DEF x, y
  <1>3. x \div y \in Int
    BY <1>2
  <1> QED BY <1>3 DEF RoundDiv, x, y

\* What the probes measured.
LEMMA ProbesMeasured ==
    ASSUME NEW evidence, WellFormed(evidence)
    PROVE /\ evidence.seconds \in Nat /\ evidence.observed \in Nat \cup {None}
          /\ evidence.futex.slow \in Nat /\ evidence.futex.waitMs \in Nat
          /\ evidence.sched.diskMs \in Nat /\ evidence.sched.runqMs \in Nat
          /\ evidence.gc.lines \in Seq(GcLines) /\ evidence.threads \in Seq(ThreadSamples)
          /\ evidence.proc \in Seq(ProcSamples) /\ evidence.probe \in Nat /\ evidence.udp \in Nat
  <1>1. PICK ids : evidence \in EvidenceRecords(ids)
    BY DEF WellFormed
  <1>2. /\ evidence.seconds \in Nat /\ evidence.observed \in Nat \cup {None}
        /\ evidence.futex \in [slow : Nat, waitMs : Nat, waits : Nat \cup {None}]
        /\ evidence.sched \in [slowBucket : BOOLEAN, preempted : BOOLEAN, diskMs : Nat, runqMs : Nat]
        /\ evidence.gc \in [lines : Seq(GcLines), little : Nat \cup {None}, collect : Nat \cup {None}]
        /\ evidence.threads \in Seq(ThreadSamples) /\ evidence.proc \in Seq(ProcSamples)
        /\ evidence.probe \in Nat /\ evidence.udp \in Nat
    BY <1>1, Zenon DEF EvidenceRecords, GcLines, ThreadSamples, ProcSamples
  <1> QED BY <1>2, Zenon

LEMMA SnapshotMeasured ==
    ASSUME NEW evidence, WellFormed(evidence), Readable(evidence)
    PROVE /\ evidence.snap.window \in Nat /\ evidence.snap.gross \in Int \cup {None} /\ evidence.snap.full \in Nat
          /\ evidence.snap.updates \in Nat /\ evidence.snap.late \in Nat /\ evidence.snap.bridge \in Nat
          /\ evidence.snap.interval \in Nat
  BY ReadableSnapshot, Zenon DEF SnapshotRecords

LEMMA WindowType == ASSUME NEW evidence, WellFormed(evidence) PROVE Window(evidence) \in Int /\ Window(evidence) >= 1
  <1> DEFINE n == EffectiveSeconds(evidence)
  <1>1. n \in Int
    <2>1. evidence.seconds \in Int /\ (evidence.observed # None => evidence.observed \in Int)
      BY ProbesMeasured
    <2> QED BY <2>1, Zenon DEF EffectiveSeconds
  <1> HIDE DEF n
  <1>2. Max({1, n}) = IF 1 >= n THEN 1 ELSE n
    <2>1. 1 \in Int
      OBVIOUS
    <2> QED BY <1>1, <2>1, MaxPair, Zenon
  <1> QED BY <1>1, <1>2 DEF Window, n

LEMMA ScalarType ==
    ASSUME NEW evidence, WellFormed(evidence)
    PROVE /\ Scalar(evidence, "full") \in Int /\ Scalar(evidence, "bridge") \in Int
          /\ (IF Readable(evidence) THEN Known(Gross(evidence)) ELSE 0) \in Int
  <1>1. CASE ~Readable(evidence)
    BY <1>1 DEF Scalar
  <1>2. CASE Readable(evidence)
    <2>1. evidence.snap["full"] \in Int /\ evidence.snap["bridge"] \in Int
      BY <1>2, SnapshotMeasured
    <2>2. Gross(evidence) \in Int \cup {None}
      <3>1. evidence.snap.window > 0 => evidence.probe \div evidence.snap.window \in Int
        BY <1>2, SnapshotMeasured, ProbesMeasured
      <3> QED BY <1>2, <3>1, SnapshotMeasured DEF Gross
    <2> QED BY <1>2, <2>1, <2>2 DEF Scalar, Known
  <1> QED BY <1>1, <1>2

\* The most of the numbers of a sequence.
LEMMA MostType ==
    ASSUME NEW n \in Nat, NEW g \in [1 .. n -> Int] PROVE Max({0} \cup {g[i] : i \in 1 .. n}) \in Int
  <1> DEFINE T == {g[i] : i \in 1 .. n}
  <1>1. IsFiniteSet(1 .. n)
    BY FS_Interval
  <1>2. IsFiniteSet(T) /\ T \in SUBSET Int
    BY <1>1, ImageFinite
  <1> HIDE DEF T
  <1>3. IsFiniteSet({0}) /\ {0} \cup T \in SUBSET Int /\ {0} \cup T # {}
    <2>1. IsFiniteSet({0})
      BY FS_Singleton
    <2>2. 0 \in {0} \cup T /\ 0 \in Int
      OBVIOUS
    <2> QED BY <1>2, <2>1, <2>2
  <1>4. IsFiniteSet({0} \cup T)
    BY <1>2, <1>3, FS_Union
  <1>5. Max({0} \cup T) \in {0} \cup T
    BY <1>3, <1>4, MaxOf
  <1> QED BY <1>3, <1>5 DEF T

LEMMA WorstType == ASSUME NEW evidence, WellFormed(evidence) PROVE Gc(evidence).worstMs \in Int
  <1> DEFINE all == evidence.gc.lines
             I == {i \in DOMAIN all : all[i].kind = "stw"}
             lines == Found(evidence, "mono_gc", Those(all, LAMBDA l : l.kind = "stw"), <<>>)
             n == Len(lines)
             g == [i \in 1 .. n |-> lines[i].ms]
  <1>1. Gc(evidence).worstMs = Max({0} \cup {l.ms : l \in ToSet(lines)})
    BY DEF Gc
  <1>2. Those(all, LAMBDA l : l.kind = "stw") = Sifted(all, I)
    BY DEF Those
  <1>3. all \in Seq(GcLines) /\ I \in SUBSET DOMAIN all
    BY ProbesMeasured
  <1>4. Sifted(all, I) \in Seq(GcLines)
    <2> HIDE DEF all, I
    <2> QED BY <1>3, SiftedSays
  <1>5. lines \in Seq(GcLines)
    <2>1. <<>> \in Seq(GcLines)
      OBVIOUS
    <2> QED BY <1>2, <1>4, <2>1, Zenon DEF Found
  <1> HIDE DEF lines
  <1>6. n \in Nat /\ DOMAIN lines = 1 .. n /\ \A i \in 1 .. n : lines[i] \in GcLines
    BY <1>5
  <1>7. {l.ms : l \in ToSet(lines)} = {g[i] : i \in 1 .. n}
    BY <1>6 DEF ToSet
  <1>8. g \in [1 .. n -> Int]
    <2>1. \A l \in GcLines : l.ms \in Int
      BY DEF GcLines
    <2> QED BY <1>6, <2>1
  <1> HIDE DEF g, n
  <1> QED BY <1>1, <1>6, <1>7, <1>8, MostType

LEMMA ThreadsType ==
    ASSUME NEW evidence, WellFormed(evidence), ThreadSummary(evidence) # None
    PROVE ThreadSummary(evidence).share \in Int
  <1> DEFINE total(s) == IF s.process # None THEN s.process ELSE s.rows
             all == evidence.threads
             I == {i \in DOMAIN all : total(all[i]) > 0}
             ran == Found(evidence, "threads", Those(all, LAMBDA s : total(s) > 0), <<>>)
             n == Len(ran)
             w == [i \in DOMAIN ran |-> (1000 * ran[i].main) \div total(ran[i])]
             D == DOMAIN ran
  <1>1. ran # <<>> /\ ThreadSummary(evidence).share = SumFunction(w) \div n
    BY DEF ThreadSummary
  <1>2. Those(all, LAMBDA s : total(s) > 0) = Sifted(all, I)
    BY DEF Those
  <1>3. all \in Seq(ThreadSamples) /\ I \in SUBSET DOMAIN all
    BY ProbesMeasured
  <1>4. Sifted(all, I) \in Seq(ThreadSamples) /\ ToSet(Sifted(all, I)) = {all[i] : i \in I}
    <2> HIDE DEF all, I
    <2> QED BY <1>3, SiftedSays
  <1>5. ran \in Seq(ThreadSamples) /\ \A s \in ToSet(ran) : total(s) > 0
    <2>1. CASE "threads" \in evidence.files
      <3>1. ran = Sifted(all, I)
        BY <1>2, <2>1, Zenon DEF Found
      <3>2. \A s \in {all[i] : i \in I} : total(s) > 0
        OBVIOUS
      <3> HIDE DEF ran, all, I, total
      <3> QED BY <1>4, <3>1, <3>2
    <2>2. CASE "threads" \notin evidence.files
      <3>1. ran = <<>>
        BY <2>2, Zenon DEF Found
      <3> QED BY <1>1, <3>1
    <2> QED BY <2>1, <2>2
  <1> HIDE DEF ran, all, I
  <1>6. n \in Nat /\ D = 1 .. n /\ (\A i \in D : ran[i] \in ThreadSamples) /\ ran # <<>>
    BY <1>1, <1>5
  <1>7. n > 0
    <2>1. n = 0 => ran = <<>>
      BY <1>5
    <2> QED BY <1>6, <2>1
  <1>8. ASSUME NEW i \in D PROVE w[i] \in Int
    <2>1. ran[i] \in ThreadSamples /\ ran[i] \in ToSet(ran)
      BY <1>6 DEF ToSet
    <2>2. ran[i].main \in Nat /\ ran[i].process \in Nat \cup {None} /\ ran[i].rows \in Nat
      BY <2>1, Zenon DEF ThreadSamples
    <2>3. total(ran[i]) \in Nat /\ total(ran[i]) > 0
      BY <1>5, <2>1, <2>2
    <2> HIDE DEF total
    <2>4. PICK k \in Nat : k = total(ran[i]) /\ k > 0
      BY <2>3
    <2>5. PICK m \in Nat : m = 1000 * ran[i].main
      BY <2>2
    <2>6. w[i] = m \div k
      BY <2>4, <2>5
    <2> QED BY <2>4, <2>5, <2>6
  <1>9. DOMAIN w = D
    OBVIOUS
  <1> HIDE DEF w, n, D
  <1>10. IsFiniteSet(D)
    BY <1>6, FS_Interval
  <1>11. Weighs(w, D)
    BY <1>8, <1>10 DEF Weighs
  <1>12. SumFunction(w) \in Int
    <2>1. SumFunction(w) = SumOf(w, D)
      BY <1>9, <1>11, FunctionSum
    <2> QED BY <1>11, <2>1, SumType
  <1> QED BY <1>1, <1>6, <1>7, <1>12

LEMMA TrendType ==
    ASSUME NEW evidence, WellFormed(evidence), MemoryTrend(evidence) # None
    PROVE MemoryTrend(evidence).slope \in Int /\ MemoryTrend(evidence).fds \in Int \cup {None}
  <1> DEFINE all == evidence.proc
             I == {i \in DOMAIN all : all[i].rss # None}
             p == Found(evidence, "proc", Those(all, LAMBDA r : r.rss # None), <<>>)
             J == {i \in DOMAIN p : p[i].fd >= 0}
             fds == Those(p, LAMBDA r : r.fd >= 0)
             span == IF p[1].mono # None /\ Last(p).mono # None
                     THEN Last(p).mono - p[1].mono ELSE Last(p).t - p[1].t
             slope == IF span > 0 THEN (10 * (Last(p).rss - p[1].rss)) \div span ELSE 0
             grown == IF fds = <<>> THEN None ELSE Last(fds).fd - fds[1].fd
  <1>1. /\ Len(p) >= 3
        /\ MemoryTrend(evidence) = [slope |-> slope, fds |-> grown]
    <2>1. MemoryTrend(evidence) = IF Len(p) < 3 THEN None ELSE [slope |-> slope, fds |-> grown]
      BY DEF MemoryTrend
    <2>2. p \in Seq(ProcSamples)
      <3>1. Those(all, LAMBDA r : r.rss # None) = Sifted(all, I)
        BY DEF Those
      <3>2. all \in Seq(ProcSamples) /\ I \in SUBSET DOMAIN all
        BY ProbesMeasured
      <3>3. Sifted(all, I) \in Seq(ProcSamples) /\ <<>> \in Seq(ProcSamples)
        <4> HIDE DEF all, I
        <4> QED BY <3>2, SiftedSays
      <3> QED BY <3>1, <3>3, Zenon DEF Found
    <2> HIDE DEF p, slope, grown
    <2>3. Len(p) \in Nat
      BY <2>2
    <2> QED BY <2>1, <2>3
  <1>2. fds = Sifted(p, J)
    BY DEF Those
  <1>3. all \in Seq(ProcSamples) /\ I \in SUBSET DOMAIN all
    BY ProbesMeasured
  <1>4. Sifted(all, I) \in Seq(ProcSamples) /\ ToSet(Sifted(all, I)) = {all[i] : i \in I}
    <2> HIDE DEF all, I
    <2> QED BY <1>3, SiftedSays
  <1>5. p \in Seq(ProcSamples) /\ \A r \in ToSet(p) : r.rss # None
    <2>1. Those(all, LAMBDA r : r.rss # None) = Sifted(all, I)
      BY DEF Those
    <2>2. CASE "proc" \in evidence.files
      <3>1. p = Sifted(all, I)
        BY <2>1, <2>2, Zenon DEF Found
      <3>2. \A r \in {all[i] : i \in I} : r.rss # None
        OBVIOUS
      <3> HIDE DEF p, all, I
      <3> QED BY <1>4, <3>1, <3>2
    <2>3. CASE "proc" \notin evidence.files
      <3>1. p = <<>>
        BY <2>3, Zenon DEF Found
      <3> HIDE DEF p
      <3>2. Len(p) = 0
        BY <3>1
      <3> QED BY <1>1, <3>2
    <2> QED BY <2>2, <2>3
  <1> HIDE DEF p, all, I
  <1>6. \A r \in ProcSamples : /\ r.t \in Nat /\ r.mono \in Nat \cup {None} /\ r.rss \in Nat \cup {None} /\ r.fd \in Int
    BY Zenon DEF ProcSamples
  <1>7. slope \in Int
    <2>1. p[1] \in ProcSamples /\ Last(p) \in ProcSamples /\ p[1].rss # None /\ Last(p).rss # None
      <3>1. Len(p) \in Nat /\ DOMAIN p = 1 .. Len(p) /\ Last(p) = p[Len(p)] /\ \A i \in DOMAIN p : p[i] \in ProcSamples
        BY <1>5 DEF Last
      <3>2. 1 \in DOMAIN p /\ Len(p) \in DOMAIN p
        BY <1>1, <3>1
      <3> QED BY <1>5, <3>1, <3>2 DEF ToSet
    <2>2. PICK a \in Int, b \in Int : a = p[1].rss /\ b = Last(p).rss
      BY <1>6, <2>1
    <2>3. span \in Int
      BY <1>6, <2>1
    <2> HIDE DEF span
    <2>4. CASE span > 0
      <3>1. PICK d \in Int : d = 10 * (b - a)
        OBVIOUS
      <3>2. slope = d \div span
        BY <2>2, <2>4, <3>1
      <3> HIDE DEF slope
      <3> QED BY <2>3, <2>4, <3>2
    <2>5. CASE ~(span > 0)
      BY <2>5
    <2> QED BY <2>4, <2>5
  <1>8. grown \in Int \cup {None}
    <2>1. J \in SUBSET DOMAIN p
      OBVIOUS
    <2>2. fds \in Seq(ProcSamples)
      <3> HIDE DEF fds, J
      <3> QED BY <1>2, <1>5, <2>1, SiftedSays
    <2> HIDE DEF fds
    <2>3. CASE fds # <<>>
      <3>1. Len(fds) \in Nat /\ DOMAIN fds = 1 .. Len(fds) /\ Last(fds) = fds[Len(fds)]
            /\ \A i \in DOMAIN fds : fds[i] \in ProcSamples
        BY <2>2 DEF Last
      <3>2. Len(fds) # 0
        BY <2>2, <2>3
      <3>3. 1 \in DOMAIN fds /\ Len(fds) \in DOMAIN fds
        BY <3>1, <3>2
      <3>4. fds[1].fd \in Int /\ Last(fds).fd \in Int
        BY <1>6, <3>1, <3>3
      <3> QED BY <2>3, <3>4
    <2>4. CASE fds = <<>>
      BY <2>4
    <2> QED BY <2>3, <2>4
  <1> HIDE DEF slope, grown
  <1> QED BY <1>1, <1>7, <1>8

CauseNames ==
    Subsystems \cup {"server_saturated", "gc_pauses", "main_thread_bound", "disk_io_stall", "memory_growth",
                     "cpu_starvation", "lock_contention", "chunk_bandwidth"}
CauseRecords == [cause : CauseNames, severity : AtMost]

LEMMA OneCause ==
    ASSUME NEW name \in CauseNames, NEW holds, NEW severity \in AtMost
    PROVE Cause(name, holds, severity) \in Seq(CauseRecords)
  <1>1. [cause |-> name, severity |-> severity] \in CauseRecords
    BY DEF CauseRecords
  <1> DEFINE r == [cause |-> name, severity |-> severity]
  <1>2. r \in CauseRecords
    BY <1>1
  <1> HIDE DEF r
  <1>3. <<r>> \in Seq(CauseRecords) /\ <<>> \in Seq(CauseRecords)
    BY <1>2
  <1>4. Cause(name, holds, severity) \in {<<r>>, <<>>}
    BY Zenon DEF Cause, r
  <1> QED BY <1>3, <1>4

LEMMA ProbeCauses ==
    ASSUME NEW evidence, WellFormed(evidence)
    PROVE /\ GcCause(evidence) \in Seq(CauseRecords) /\ DiskCause(evidence) \in Seq(CauseRecords)
          /\ StarvedCause(evidence) \in Seq(CauseRecords) /\ LockCause(evidence) \in Seq(CauseRecords)
          /\ BandwidthCause(evidence) \in Seq(CauseRecords)
  <1>1. Sched(evidence).diskMs \in Int /\ Sched(evidence).runqMs \in Int
    <2>1. evidence.sched.diskMs \in Int /\ evidence.sched.runqMs \in Int
      BY ProbesMeasured
    <2>2. Sched(evidence).diskMs \in {evidence.sched.diskMs, 0} /\ Sched(evidence).runqMs \in {evidence.sched.runqMs, 0}
      BY DEF Sched, Found
    <2> QED BY <2>1, <2>2
  <1>2. Futex(evidence).slow \in Int /\ Futex(evidence).waitMs \in Int
    <2>1. evidence.futex.slow \in Int /\ evidence.futex.waitMs \in Int
      BY ProbesMeasured
    <2> QED BY <2>1 DEF Futex, Found
  <1>3. GcCause(evidence) \in Seq(CauseRecords)
    <2> DEFINE gross == IF Readable(evidence) THEN Known(Gross(evidence)) ELSE 0
               full == Scalar(evidence, "full")
               worst == Gc(evidence).worstMs
               n == 15 * gross + 200 * full + 6 * worst
               holds == gross >= 15 \/ full >= 1 \/ worst >= 50
    <2>1. gross \in Int /\ full \in Int /\ worst \in Int
      BY ScalarType, WorstType
    <2> HIDE DEF gross, full, worst
    <2>2. n \in Int /\ 12 \in Int /\ 12 >= 1
      BY <2>1
    <2>3. GcSeverity(gross, full, worst) = Cap(RoundDiv(n, 12))
      BY DEF GcSeverity
    <2> HIDE DEF n
    <2>4. GcSeverity(gross, full, worst) \in AtMost
      BY <2>2, <2>3, RoundType, CapMost
    <2>5. GcCause(evidence) = Cause("gc_pauses", holds, GcSeverity(gross, full, worst))
      BY DEF GcCause, gross, full, worst
    <2> HIDE DEF holds
    <2> QED BY <2>4, <2>5, OneCause DEF CauseNames
  <1>4. DiskCause(evidence) \in Seq(CauseRecords)
    <2>1. 50 \in Int /\ 50 >= 1
      OBVIOUS
    <2>2. Cap(RoundDiv(Sched(evidence).diskMs, 50)) \in AtMost
      BY <1>1, <2>1, RoundType, CapMost
    <2> QED BY <2>2, OneCause DEF DiskCause, CauseNames
  <1>5. StarvedCause(evidence) \in Seq(CauseRecords)
    <2>1. 20 \in Int /\ 20 >= 1
      OBVIOUS
    <2>2. Cap(RoundDiv(Sched(evidence).runqMs, 20)) \in AtMost
      BY <1>1, <2>1, RoundType, CapMost
    <2> QED BY <2>2, OneCause DEF StarvedCause, CauseNames
  <1>6. LockCause(evidence) \in Seq(CauseRecords)
    <2> DEFINE share == RoundDiv(Futex(evidence).waitMs, Window(evidence))
               slow == Futex(evidence).slow
               n == Max({slow, RoundDiv(share, 10)})
               holds == slow >= 5 \/ share >= 50
    <2>1. share \in Int /\ slow \in Int
      BY <1>2, WindowType, RoundType
    <2>2. LockCause(evidence) = Cause("lock_contention", holds, Cap(n))
      BY DEF LockCause
    <2> HIDE DEF share, slow, holds
    <2>3. RoundDiv(share, 10) \in Int
      <3>1. 10 \in Int /\ 10 >= 1
        OBVIOUS
      <3> QED BY <2>1, <3>1, RoundType
    <2>4. n = IF slow >= RoundDiv(share, 10) THEN slow ELSE RoundDiv(share, 10)
      BY <2>1, <2>3, MaxPair
    <2>5. n \in Int
      BY <2>1, <2>3, <2>4
    <2> HIDE DEF n
    <2> QED BY <2>2, <2>5, CapMost, OneCause DEF CauseNames
  <1>7. BandwidthCause(evidence) \in Seq(CauseRecords)
    <2> DEFINE kernel == Known(NetRate(evidence))
               bridge == Scalar(evidence, "bridge")
               current == IF kernel > 0 THEN kernel ELSE bridge
               holds == current >= 20 \/ bridge >= 20
    <2>1. bridge \in Int
      BY ScalarType
    <2>2. kernel \in Int
      <3>1. evidence.udp \in Nat /\ Window(evidence) \in Int /\ Window(evidence) >= 1
        BY ProbesMeasured, WindowType
      <3> DEFINE s == Window(evidence)
      <3> HIDE DEF s
      <3>2. evidence.udp \div s \in Int
        BY <3>1 DEF s
      <3>3. NetRate(evidence) \in Int \cup {None}
        BY <3>2 DEF NetRate, s
      <3> QED BY <3>3 DEF Known
    <2>3. BandwidthCause(evidence) = Cause("chunk_bandwidth", holds, Cap(current))
      BY DEF BandwidthCause
    <2> HIDE DEF kernel, bridge, holds
    <2>4. current \in Int
      BY <2>1, <2>2
    <2> HIDE DEF current
    <2> QED BY <2>3, <2>4, CapMost, OneCause DEF CauseNames
  <1> QED BY <1>3, <1>4, <1>5, <1>6, <1>7

\* The shares a summary is made of: of the snapshot, or none.
Shared(shares) == shares = <<>> \/ \E snap : Parses(snap) /\ shares = Attribution(snap)

LEMMA SharedCause == ASSUME NEW shares, Shared(shares) PROVE SubsystemCause(shares) \in Seq(CauseRecords)
  <1> DEFINE disjoint == DOMAIN shares \ {"frame_core"}
             top == CHOOSE b \in disjoint : \A c \in disjoint : shares[b] >= shares[c]
             holds == shares[top] >= 450
  <1>1. SubsystemCause(shares) = IF disjoint = {} THEN <<>> ELSE Cause(top, holds, RoundDiv(shares[top], 10))
    BY DEF SubsystemCause
  <1>2. CASE disjoint = {}
    <2>1. SubsystemCause(shares) = <<>>
      BY <1>1, <1>2
    <2> QED BY <2>1
  <1>3. CASE disjoint # {}
    <2>0. shares # <<>>
      BY <1>3
    <2>1. PICK snap : Parses(snap) /\ shares = Attribution(snap)
      BY <2>0 DEF Shared
    <2>2. /\ DOMAIN shares = Busy(snap) /\ \A b \in Busy(snap) : shares[b] \in 0 .. 1000
          /\ IsFiniteSet(Busy(snap)) /\ Busy(snap) \in SUBSET Subsystems
      BY <2>1, SharesSay, ShareRanges, BusyFinite
    <2> DEFINE T == {shares[b] : b \in disjoint}
    <2>3. disjoint \in SUBSET Busy(snap)
      BY <2>2
    <2>4. IsFiniteSet(disjoint)
      BY <2>2, <2>3, FS_Subset
    <2>5. T \in SUBSET Int /\ T # {}
      BY <1>3, <2>2, <2>3
    <2>6. IsFiniteSet(T)
      <3> HIDE DEF disjoint
      <3> QED BY <2>4, ImageFinite
    <2>7. Max(T) \in T /\ \A y \in T : Max(T) >= y
      <3> HIDE DEF T
      <3> QED BY <2>5, <2>6, MaxOf
    <2>8. \E b \in disjoint : \A c \in disjoint : shares[b] >= shares[c]
      <3> DEFINE m == Max(T)
      <3>1. m \in T /\ \A y \in T : m >= y
        BY <2>7
      <3> HIDE DEF m
      <3> HIDE DEF disjoint
      <3> QED BY <3>1
    <2>9. top \in disjoint
      <3> HIDE DEF disjoint
      <3> QED BY <2>8
    <2> HIDE DEF top
    <2>10. top \in CauseNames /\ shares[top] \in 0 .. 1000
      BY <2>2, <2>3, <2>9 DEF CauseNames
    <2>11. RoundDiv(shares[top], 10) \in AtMost
      <3>1. PICK q \in 0 .. 1000 : q = shares[top]
        BY <2>10
      <3>2. (2 * q + 10) \div (2 * 10) \in Int /\ (2 * q + 10) \div (2 * 10) <= 100
        BY <3>1
      <3> QED BY <3>1, <3>2 DEF RoundDiv, AtMost
    <2> HIDE DEF holds, disjoint
    <2>12. Cause(top, holds, RoundDiv(shares[top], 10)) \in Seq(CauseRecords)
      BY <2>10, <2>11, OneCause
    <2> QED BY <1>1, <1>3, <2>12
  <1> QED BY <1>2, <1>3

LEMMA SampleCauses ==
    ASSUME NEW evidence, WellFormed(evidence)
    PROVE /\ MainCause(ThreadSummary(evidence)) \in Seq(CauseRecords)
          /\ MemoryCause(MemoryTrend(evidence)) \in Seq(CauseRecords)
  <1> DEFINE ts == ThreadSummary(evidence)
             mem == MemoryTrend(evidence)
  <1>0. <<>> \in Seq(CauseRecords) /\ 10 \in Int /\ 10 >= 1
    OBVIOUS
  <1>1. MainCause(ts) \in Seq(CauseRecords)
    <2>1. CASE ts = None
      BY <1>0, <2>1 DEF MainCause, Cause
    <2>2. CASE ts # None
      <3>1. ts.share \in Int
        BY <2>2, ThreadsType
      <3> HIDE DEF ts
      <3>2. Cap(RoundDiv(ts.share, 10)) \in AtMost
        BY <1>0, <3>1, RoundType, CapMost
      <3> QED BY <3>2, OneCause DEF MainCause, CauseNames
    <2> QED BY <2>1, <2>2
  <1>2. MemoryCause(mem) \in Seq(CauseRecords)
    <2>1. CASE mem = None
      BY <1>0, <2>1 DEF MemoryCause, Cause
    <2>2. CASE mem # None
      <3>1. mem.slope \in Int /\ mem.fds \in Int \cup {None}
        BY <2>2, TrendType
      <3> HIDE DEF mem
      <3>2. Known(mem.fds) \in Int
        BY <3>1 DEF Known
      <3>3. 5 * mem.slope + 2 * Known(mem.fds) \in Int
        BY <3>1, <3>2
      <3>4. Cap(RoundDiv(5 * mem.slope + 2 * Known(mem.fds), 10)) \in AtMost
        BY <1>0, <3>3, RoundType, CapMost
      <3> QED BY <3>4, OneCause DEF MemoryCause, CauseNames
    <2> QED BY <2>1, <2>2
  <1> QED BY <1>1, <1>2

\* The cause of a saturated server, and the sequences it is first of.
Overrun == [cause |-> "server_saturated", severity |-> 100]
Leads(s) == s \in Seq(CauseRecords) /\ Len(s) >= 1 /\ s[1] = Overrun

LEMMA OverrunLeads == Leads(<<Overrun>>)
  <1>1. Overrun \in CauseRecords
    BY DEF Overrun, CauseRecords, CauseNames, AtMost
  <1> DEFINE r == Overrun
  <1> HIDE DEF r
  <1>2. <<r>> \in Seq(CauseRecords) /\ Len(<<r>>) >= 1 /\ <<r>>[1] = r
    BY <1>1 DEF r
  <1> QED BY <1>2 DEF Leads, r

LEMMA LeadsOn == ASSUME NEW s, Leads(s), NEW t \in Seq(CauseRecords) PROVE Leads(s \o t)
  BY DEF Leads

LEMMA AllCauses ==
    ASSUME NEW s, NEW a \in Seq(CauseRecords), NEW b \in Seq(CauseRecords), NEW c \in Seq(CauseRecords),
           NEW d \in Seq(CauseRecords), NEW e \in Seq(CauseRecords), NEW f \in Seq(CauseRecords),
           NEW g \in Seq(CauseRecords), NEW h \in Seq(CauseRecords), Leads(s)
    PROVE Leads(s \o a \o b \o c \o d \o e \o f \o g \o h)
  <1>1. Leads(s \o a \o b)
    BY LeadsOn
  <1>2. Leads(s \o a \o b \o c \o d)
    BY <1>1, LeadsOn
  <1>3. Leads(s \o a \o b \o c \o d \o e \o f)
    BY <1>2, LeadsOn
  <1> QED BY <1>3, LeadsOn

\* None is more severe, and of equally severe ones it is the first.
LEMMA LeadsRanked ==
    ASSUME NEW s, Leads(s)
    PROVE LET r == Ranked(s, [i \in DOMAIN s |-> s[i].severity]) IN r[1] = Overrun
  <1> DEFINE n == Len(s)
             keys == [i \in DOMAIN s |-> s[i].severity]
             r == Ranked(s, keys)
  <1>1. /\ n \in Nat /\ n >= 1 /\ DOMAIN s = 1 .. n /\ s \in [1 .. n -> CauseRecords]
        /\ \A i \in 1 .. n : s[i] \in CauseRecords
    BY DEF Leads
  <1>2. \A x \in CauseRecords : x.severity \in Int /\ x.severity <= 100
    BY DEF CauseRecords, AtMost
  <1>3. keys \in [1 .. n -> Int] /\ \A i \in 1 .. n : keys[i] = s[i].severity /\ keys[i] <= 100
    BY <1>1, <1>2
  <1>4. 1 \in 1 .. n /\ s[1] = Overrun /\ keys[1] = 100
    <2>1. 1 \in 1 .. n /\ s[1] = Overrun
      BY <1>1 DEF Leads
    <2>2. Overrun.severity = 100
      BY DEF Overrun
    <2> QED BY <1>3, <2>1, <2>2
  <1> HIDE DEF n, keys, r
  <1>5. Ranks(Ranked(s, keys), s, keys, n, CauseRecords)
    BY <1>1, <1>3, RankedSays
  <1>6. PICK b \in 1 .. n : r[1] = s[b] /\ \A i \in 1 .. n : keys[b] > keys[i] \/ (keys[b] = keys[i] /\ b <= i)
    BY <1>5 DEF Ranks, r
  <1>7. keys[b] <= 100 /\ keys[b] \in Int
    BY <1>3
  <1>8. keys[b] > keys[1] \/ (keys[b] = keys[1] /\ b <= 1)
    BY <1>4, <1>6
  <1>9. b = 1
    BY <1>1, <1>4, <1>7, <1>8
  <1> QED BY <1>4, <1>6, <1>9 DEF r, keys

SaturatedLeads(summary) ==
    summary.diagnosis.saturated => summary.diagnosis.causes[1].cause = "server_saturated"

LEMMA SummaryLeads ==
    ASSUME NEW evidence, WellFormed(evidence), NEW prior, Shared(AttributionOf(evidence, prior))
    PROVE SaturatedLeads(SummaryOf(evidence, prior))
  <1> DEFINE ts == ThreadSummary(evidence)
             mem == MemoryTrend(evidence)
             shares == AttributionOf(evidence, prior)
             d == Diagnosis(evidence, ts, mem, shares)
             first == Cause("server_saturated", Saturated(evidence), 100)
             causes == first \o GcCause(evidence) \o MainCause(ts)
                         \o DiskCause(evidence) \o MemoryCause(mem) \o StarvedCause(evidence) \o LockCause(evidence)
                         \o BandwidthCause(evidence) \o SubsystemCause(shares)
             ranked == Ranked(causes, [i \in DOMAIN causes |-> causes[i].severity])
  <1>1. SummaryOf(evidence, prior).diagnosis = d
    BY DEF SummaryOf
  <1>2. d.saturated = Saturated(evidence) /\ d.causes = ranked
    BY DEF Diagnosis
  <1>3. ASSUME Saturated(evidence) PROVE ranked[1].cause = "server_saturated"
    <2>1. first = <<Overrun>>
      BY <1>3, Zenon DEF Cause, Overrun
    <2>2. Leads(first)
      BY <2>1, OverrunLeads
    <2>3. /\ GcCause(evidence) \in Seq(CauseRecords) /\ MainCause(ts) \in Seq(CauseRecords)
          /\ DiskCause(evidence) \in Seq(CauseRecords) /\ MemoryCause(mem) \in Seq(CauseRecords)
          /\ StarvedCause(evidence) \in Seq(CauseRecords) /\ LockCause(evidence) \in Seq(CauseRecords)
          /\ BandwidthCause(evidence) \in Seq(CauseRecords) /\ SubsystemCause(shares) \in Seq(CauseRecords)
      BY ProbeCauses, SampleCauses, SharedCause
    <2> HIDE DEF first, ts, mem, shares
    <2>4. Leads(causes)
      BY <2>2, <2>3, AllCauses
    <2> HIDE DEF causes
    <2>5. ranked[1] = Overrun
      BY <2>4, LeadsRanked
    <2>6. Overrun.cause = "server_saturated"
      BY DEF Overrun
    <2> HIDE DEF ranked
    <2> QED BY <2>5, <2>6
  <1> HIDE DEF d, ranked
  <1> QED BY <1>1, <1>2, <1>3 DEF SaturatedLeads

-----------------------------------------------------------------------------
(* What is put first stays first.                                          *)

\* The shares on record are those of the snapshot.
SharesKept ==
    docs.bridge # None =>
        docs.bridge.shares = IF Readable(ev) THEN Attribution(ev.snap) ELSE <<>>

SummaryWorst == docs.summary # None => NamesWorst(docs.summary) /\ SaturatedLeads(docs.summary)

WorstInv == DocsInv /\ SharesKept /\ SummaryWorst

LEMMA RecordStays == ASSUME DocsInv, [Next]_vars PROVE ev'.snap = ev.snap /\ ev'.gc = ev.gc
  <1>1. CASE Arrive
    <2>1. PICK a \in Arrivals \ ev.files : ev' = [ev EXCEPT !.files = @ \cup {a}]
      BY <1>1 DEF Arrive
    <2>2. PICK ids : ev \in EvidenceRecords(ids)
      BY DEF DocsInv, MachineType, WellFormed
    <2> QED BY <2>1, <2>2, Zenon DEF EvidenceRecords
  <1>2. CASE ev' = ev
    BY <1>2
  <1> QED BY <1>1, <1>2 DEF Next, Begin, RunStage, StageRaises, Compare, BudgetCommand, Scaling, Done, vars

\* Only a stage of finalize changes the summary, the timeline or the bridge document.
LEMMA DocsStay ==
    ASSUME DocsInv, [Next]_vars
    PROVE \/ Work
          \/ docs'.summary = docs.summary /\ docs'.bridge = docs.bridge /\ docs'.events = docs.events
  <1>1. CASE RunStage \/ StageRaises
    BY <1>1, StagesWork
  <1>2. CASE docs' = docs
    BY <1>2
  <1>3. CASE BudgetCommand
    <2>1. PICK doc : docs' = [docs EXCEPT !.budget = doc]
      BY <1>3 DEF BudgetCommand
    <2>2. docs \in [summary : {docs.summary}, health : {docs.health}, events : {docs.events},
                    bridge : {docs.bridge}, budget : {docs.budget}]
      BY DEF DocsInv, MachineType
    <2> QED BY <2>1, <2>2
  <1> QED BY <1>1, <1>2, <1>3 DEF Next, Begin, Arrive, Compare, Scaling, Done, vars

LEMMA SharesOf ==
    ASSUME NEW evidence, NEW summary, NEW events
    PROVE BridgeOf(evidence, summary, events).shares
            = IF Readable(evidence) THEN Attribution(evidence.snap) ELSE <<>>
  BY DEF BridgeOf

LEMMA SharesStep == ASSUME DocsInv, SharesKept, [Next]_vars PROVE SharesKept'
  <1>1. Readable(ev)' = Readable(ev) /\ Attribution(ev.snap)' = Attribution(ev.snap)
    BY RecordStays DEF Readable
  <1>2. docs'.bridge = docs.bridge \/ docs'.bridge = BridgeOf(ev, docs.summary, docs.events)
    BY DocsStay, WorkWrites DEF Wrote, DocsInv
  <1>3. CASE docs'.bridge = docs.bridge
    BY <1>1, <1>3 DEF SharesKept
  <1>4. CASE docs'.bridge = BridgeOf(ev, docs.summary, docs.events)
    BY <1>1, <1>4, SharesOf DEF SharesKept
  <1> QED BY <1>2, <1>3, <1>4

LEMMA SharesShared == ASSUME DocsInv, SharesKept PROVE Shared(AttributionOf(ev, docs.bridge))
  <1>1. Readable(ev) => Parses(ev.snap)
    BY ReadableSnapshot DEF DocsInv, MachineType
  <1>2. CASE Readable(ev)
    <2>1. AttributionOf(ev, docs.bridge) = Attribution(ev.snap)
      BY <1>2 DEF AttributionOf
    <2> QED BY <1>1, <1>2, <2>1 DEF Shared
  <1>3. CASE ~Readable(ev)
    <2>1. AttributionOf(ev, docs.bridge) = <<>>
      BY <1>3 DEF AttributionOf, SharesKept
    <2> QED BY <2>1 DEF Shared
  <1> QED BY <1>2, <1>3

LEMMA WorstStep == ASSUME WorstInv, [Next]_vars PROVE WorstInv'
  <1>1. DocsInv' /\ SharesKept'
    BY DocsStep, SharesStep DEF WorstInv
  <1>2. docs'.summary = docs.summary \/ docs'.summary = SummaryOf(ev, docs.bridge)
    BY DocsStay, WorkWrites DEF Wrote, DocsInv, WorstInv
  <1>3. WellFormed(ev) /\ Numbers(ev) /\ Shared(AttributionOf(ev, docs.bridge))
    BY WellFormedNumbers, SharesShared DEF WorstInv, DocsInv, MachineType
  <1>4. NamesWorst(SummaryOf(ev, docs.bridge)) /\ SaturatedLeads(SummaryOf(ev, docs.bridge))
    BY <1>3, SummaryNames, SummaryLeads
  <1>5. SummaryWorst'
    <2>1. SummaryWorst' = (docs'.summary # None => NamesWorst(docs'.summary) /\ SaturatedLeads(docs'.summary))
      BY DEF SummaryWorst
    <2> QED BY <1>2, <1>4, <2>1 DEF WorstInv, SummaryWorst
  <1> QED BY <1>1, <1>5 DEF WorstInv

LEMMA WorstInit == ASSUME Init PROVE WorstInv
  <1>1. docs.summary = None /\ docs.bridge = None
    BY DEF Init, NoDocs
  <1> QED BY <1>1, DocsInit DEF WorstInv, SharesKept, SummaryWorst

LEMMA WorstState == ASSUME WorstInv PROVE WorstComesFirst
  BY DEF WorstInv, SummaryWorst, NamesWorst, SaturatedLeads, WorstComesFirst, RecommendationNamesWorst, SaturationLeads

\* The layer a summary recommends is the worst it has, and a saturated server comes before other causes.
THEOREM WorstIsFirst == Spec => []WorstComesFirst
  <1>1. Init => WorstInv
    BY WorstInit
  <1>2. WorstInv /\ [Next]_vars => WorstInv'
    BY WorstStep
  <1>3. WorstInv => WorstComesFirst
    BY WorstState
  <1> QED BY <1>1, <1>2, <1>3, PTL DEF Spec

-----------------------------------------------------------------------------
(* What frame_core contains is counted once.                               *)

LEMMA MeasuredOnce ==
    ASSUME NEW snap, Parses(snap)
    PROVE Total("frame_core", snap) >= SumFunction([b \in Nested |-> Total(b, snap)]) =>
            MeasuredMs(snap) = SumFunction([b \in Subsystems \ Nested |-> Total(b, snap)])
  <1> DEFINE S == Subsystems
             N == Nested
             R == S \ N
             f == "frame_core"
             w == Taken(snap)
             t == [b \in S |-> Total(b, snap)]
             tn == [b \in N |-> Total(b, snap)]
             tr == [b \in R |-> Total(b, snap)]
  <1>1. /\ f \in R /\ N \in SUBSET S /\ R \in SUBSET S /\ IsFiniteSet(N) /\ IsFiniteSet(S)
        /\ f \notin N /\ \A b \in R \ {f} : b # f /\ b \in S
    BY NestedFinite DEF Nested, Subsystems
  <1>2. /\ \A b \in S : w[b] \in Nat /\ w[b] = Exclusive(b, snap)
        /\ Weighs(w, S) /\ MeasuredMs(snap) = SumOf(w, S)
    BY TakenSays
  <1>3. ASSUME NEW b \in S PROVE t[b] = Total(b, snap) /\ t[b] \in Nat
    BY TotalType
  <1>4. /\ DOMAIN tn = N /\ DOMAIN tr = R
        /\ \A b \in N : tn[b] = Total(b, snap)
        /\ \A b \in R : tr[b] = Total(b, snap)
    OBVIOUS
  <1>5. /\ \A b \in S : b # f => w[b] = t[b]
        /\ w[f] = Max({0, t[f] - SumFunction(tn)})
    <2>1. \A b \in S : b # f => Exclusive(b, snap) = Total(b, snap)
      BY DEF Exclusive
    <2>2. Exclusive(f, snap) = Max({0, Total(f, snap) - SumFunction(tn)})
      BY DEF Exclusive
    <2>3. f \in S
      BY <1>1
    <2> HIDE DEF w, t, tn, f, S
    <2> QED BY <1>2, <1>3, <2>1, <2>2, <2>3
  <1> HIDE DEF S, N, R, w, t, tn, tr, f
  <1>6. Weighs(t, S) /\ Weighs(t, N) /\ Weighs(t, R) /\ Weighs(w, N) /\ Weighs(w, R)
    <2>1. Weighs(t, S)
      BY <1>1, <1>3, SumNatural
    <2> QED BY <1>1, <1>2, <2>1, WeighsSubset
  <1>7. SumFunction(tn) = SumOf(t, N) /\ SumFunction(tr) = SumOf(t, R)
    <2>1. \A b \in N : tn[b] = t[b]
      BY <1>1, <1>3, <1>4
    <2>2. \A b \in R : tr[b] = t[b]
      BY <1>1, <1>3, <1>4
    <2>3. SumOf(tn, N) = SumOf(t, N) /\ SumOf(tr, R) = SumOf(t, R)
      BY <1>6, <2>1, <2>2, SumSame
    <2>4. Weighs(tn, N) /\ Weighs(tr, R)
      BY <1>6, <2>1, <2>2 DEF Weighs
    <2> QED BY <1>4, <2>3, <2>4, FunctionSum
  <1>8. /\ SumOf(w, N) \in Int /\ SumOf(w, R) \in Int /\ SumOf(w, S) = SumOf(w, N) + SumOf(w, R)
    <2>1. Weighs(w, S) /\ N \in SUBSET S
      BY <1>1, <1>2
    <2>2. SumOf(w, N) \in Int /\ SumOf(w, S \ N) \in Int /\ SumOf(w, S) = SumOf(w, N) + SumOf(w, S \ N)
      BY <2>1, SumSplit
    <2> QED BY <2>2 DEF R
  <1>9. SumOf(w, N) = SumOf(t, N) /\ SumOf(t, N) \in Int
    <2>1. \A b \in N : w[b] = t[b]
      BY <1>1, <1>5
    <2> QED BY <1>6, <2>1, SumSame, SumType
  <1> DEFINE Q == R \ {f}
  <1>10. SumOf(w, Q) = SumOf(t, Q) /\ SumOf(t, Q) \in Int
    <2>1. Weighs(t, Q)
      BY <1>6, WeighsSubset
    <2>2. \A b \in Q : w[b] = t[b]
      BY <1>1, <1>5
    <2> QED BY <2>1, <2>2, SumSame, SumType
  <1>11. SumOf(w, R) = w[f] + SumOf(w, Q) /\ SumOf(t, R) = t[f] + SumOf(t, Q)
    BY <1>1, <1>6, SumTake
  <1>12. t[f] \in Nat /\ w[f] \in Nat
    BY <1>1, <1>2, <1>3
  <1>13. ASSUME t[f] >= SumFunction(tn) PROVE SumOf(w, S) = SumFunction(tr)
    <2> DEFINE d == t[f] - SumFunction(tn)
    <2>1. d \in Int /\ d >= 0
      BY <1>7, <1>9, <1>12, <1>13
    <2>2. w[f] = d
      <3> HIDE DEF d
      <3>1. 0 \in Int
        OBVIOUS
      <3>2. Max({0, d}) = IF 0 >= d THEN 0 ELSE d
        BY <2>1, <3>1, MaxPair, Zenon
      <3> QED BY <1>5, <2>1, <3>2 DEF d
    <2> QED BY <1>7, <1>8, <1>9, <1>10, <1>11, <1>12, <2>2
  <1>14. t[f] = Total(f, snap)
    BY <1>1, <1>3
  <1> QED BY <1>2, <1>13, <1>14 DEF tn, tr, N, R, S, f

LEMMA CountsState == ASSUME DocsInv, SharesKept PROVE AttributionCountsOnce
  <1> SUFFICES ASSUME docs.bridge # None, docs.bridge.shares # <<>>
               PROVE LET shares == docs.bridge.shares
                         whole == SumFunction(shares)
                         nested == SumFunction([b \in Nested |-> Total(b, ev.snap)])
                     IN /\ whole \in 1000 - Cardinality(DOMAIN shares) .. 1000
                        /\ Total("frame_core", ev.snap) >= nested =>
                              MeasuredMs(ev.snap) =
                                  SumFunction([b \in Subsystems \ Nested |-> Total(b, ev.snap)])
    BY Zenon DEF AttributionCountsOnce
  <1>1. Readable(ev) /\ docs.bridge.shares = Attribution(ev.snap)
    BY DEF SharesKept
  <1>2. Parses(ev.snap)
    BY <1>1, ReadableSnapshot DEF DocsInv, MachineType
  <1>3. SumFunction(docs.bridge.shares) \in 1000 - Cardinality(DOMAIN docs.bridge.shares) .. 1000
    <2>1. Attribution(ev.snap) # <<>>
      BY <1>1
    <2>2. SumFunction(Attribution(ev.snap)) \in 1000 - Cardinality(DOMAIN Attribution(ev.snap)) .. 1000
      BY <1>2, <2>1, WholeShares
    <2> DEFINE x == docs.bridge.shares
               y == Attribution(ev.snap)
    <2>3. x = y /\ SumFunction(y) \in 1000 - Cardinality(DOMAIN y) .. 1000
      BY <1>1, <2>2
    <2> HIDE DEF x, y
    <2>4. SumFunction(x) \in 1000 - Cardinality(DOMAIN x) .. 1000
      BY <2>3
    <2> QED BY <2>4 DEF x
  <1>4. Total("frame_core", ev.snap) >= SumFunction([b \in Nested |-> Total(b, ev.snap)]) =>
          MeasuredMs(ev.snap) = SumFunction([b \in Subsystems \ Nested |-> Total(b, ev.snap)])
    BY <1>2, MeasuredOnce, Zenon
  <1> QED BY <1>3, <1>4, Zenon

-----------------------------------------------------------------------------
(* Iteration.                                                              *)

\* What holds at first and after every step holds up to the last.
LEMMA Stepwise ==
    ASSUME NEW N \in Nat, NEW P, 0 \in P, \A n \in 0 .. N : n \in P /\ n # N => n + 1 \in P
    PROVE \A n \in 0 .. N : n \in P
  <1> DEFINE T == {n \in Nat : n <= N => n \in P}
  <1>1. 0 \in T
    OBVIOUS
  <1>2. ASSUME NEW n \in T PROVE n + 1 \in T
    <2> SUFFICES ASSUME n + 1 <= N PROVE n + 1 \in P
      OBVIOUS
    <2>1. n \in 0 .. N /\ n # N /\ n \in P
      OBVIOUS
    <2> QED BY <2>1
  <1>3. T \in SUBSET Nat
    OBVIOUS
  <1> HIDE DEF T
  <1>4. T = Nat
    BY <1>1, <1>2, <1>3, Inductive
  <1> QED BY <1>4 DEF T

Iterates(a, base, step, N) == a = [n \in 0 .. N |-> IF n = 0 THEN base ELSE step[a[n - 1]]]

LEMMA IteratesExist ==
    ASSUME NEW V, NEW base \in V, NEW step \in [V -> V], NEW N \in Nat
    PROVE \E a \in [0 .. N -> V] : Iterates(a, base, step, N)
  <1> DEFINE T == {n \in Nat : \E a \in [0 .. n -> V] : Iterates(a, base, step, n)}
  <1>1. 0 \in T
    <2> DEFINE a == [n \in 0 .. 0 |-> base]
    <2>1. a \in [0 .. 0 -> V] /\ a = [n \in 0 .. 0 |-> IF n = 0 THEN base ELSE step[a[n - 1]]]
      OBVIOUS
    <2> HIDE DEF a
    <2> QED BY <2>1 DEF Iterates
  <1>2. ASSUME NEW n \in T PROVE n + 1 \in T
    <2>1. n \in Nat
      OBVIOUS
    <2>2. PICK a \in [0 .. n -> V] : Iterates(a, base, step, n)
      OBVIOUS
    <2>3. a = [k \in 0 .. n |-> IF k = 0 THEN base ELSE step[a[k - 1]]]
      BY <2>2 DEF Iterates
    <2> DEFINE b == [k \in 0 .. n + 1 |-> IF k = n + 1 THEN step[a[n]] ELSE a[k]]
    <2>4. b \in [0 .. n + 1 -> V]
      <3>1. n \in 0 .. n /\ a[n] \in V /\ step[a[n]] \in V
        BY <2>1
      <3>2. \A k \in 0 .. n + 1 : k # n + 1 => k \in 0 .. n
        BY <2>1
      <3> QED BY <3>1, <3>2
    <2>5. ASSUME NEW k \in 0 .. n + 1 PROVE b[k] = IF k = 0 THEN base ELSE step[b[k - 1]]
      <3>1. CASE k = 0
        <4>1. 0 \in 0 .. n /\ 0 # n + 1
          BY <2>1
        <4>2. a[0] = base
          BY <2>3, <4>1
        <4> QED BY <3>1, <4>1, <4>2
      <3>2. CASE k = n + 1
        <4>1. k # 0 /\ k - 1 = n /\ n \in 0 .. n + 1 /\ n # n + 1
          BY <2>1, <3>2
        <4> QED BY <3>2, <4>1
      <3>3. CASE k # 0 /\ k # n + 1
        <4>1. k \in 0 .. n /\ k - 1 \in 0 .. n + 1 /\ k - 1 # n + 1
          BY <2>1, <3>3
        <4>2. a[k] = step[a[k - 1]]
          BY <2>3, <3>3, <4>1
        <4> QED BY <3>3, <4>1, <4>2
      <3> QED BY <3>1, <3>2, <3>3
    <2> HIDE DEF b
    <2>6. b = [k \in 0 .. n + 1 |-> IF k = 0 THEN base ELSE step[b[k - 1]]]
      BY <2>4, <2>5
    <2>7. Iterates(b, base, step, n + 1)
      BY <2>6 DEF Iterates
    <2> QED BY <2>1, <2>4, <2>7
  <1>3. T \in SUBSET Nat
    OBVIOUS
  <1> HIDE DEF T
  <1>4. T = Nat
    BY <1>1, <1>2, <1>3, Inductive
  <1> QED BY <1>4 DEF T

-----------------------------------------------------------------------------
(* The order of the heap.                                                  *)

Origins == {"apm_app.json", "futex", "block", "vfs", "mono_gc", "proc.jsonl", "threads.jsonl", "bridge.jsonl"}
EventKinds == {"futex", "block_io", "vfs_io", "gc", "counter", "frame_spike", "cpu_spike", "rss_jump", "wchan",
               "managed_bridge_spike", "managed_bridge_slow_update"}

EventRecords ==
    [source : Origins, kind : EventKinds, severity : 0 .. 2, t : Int \cup {None}, value : Int \cup {None},
     said : Int \cup {None}, line : Int, seq : Nat]

LEMMA EventFields ==
    ASSUME NEW e \in EventRecords
    PROVE /\ e.source \in Origins /\ e.kind \in EventKinds /\ e.severity \in Int /\ e.seq \in Int /\ e.seq \in Nat
          /\ e.t \in Int \cup {None} /\ e.value \in Int \cup {None} /\ e.said \in Int \cup {None}
  <1>1. e.severity \in 0 .. 2
    BY Zenon DEF EventRecords
  <1>2. /\ e.source \in Origins /\ e.kind \in EventKinds /\ e.seq \in Nat
        /\ e.t \in Int \cup {None} /\ e.value \in Int \cup {None} /\ e.said \in Int \cup {None}
    BY Zenon DEF EventRecords
  <1> QED BY <1>1, <1>2

LEMMA BelowOrder ==
    ASSUME NEW a \in EventRecords, NEW b \in EventRecords
    PROVE /\ Below(a, b) => ~Below(b, a)
          /\ Below(a, b) => b.severity <= a.severity
          /\ ~Below(a, b) => a.severity <= b.severity
          /\ a.seq # b.seq => Below(a, b) \/ Below(b, a)
  BY EventFields DEF Below

LEMMA BelowOn ==
    ASSUME NEW a \in EventRecords, NEW b \in EventRecords, NEW c \in EventRecords
    PROVE /\ Below(a, b) /\ Below(b, c) => Below(a, c)
          /\ ~Below(a, b) /\ ~Below(b, c) => ~Below(a, c)
  BY EventFields DEF Below

\* h is a heap of n events.
Heap(h, n) == \A i \in 2 .. n : ~Below(h[i], h[i \div 2])
Distinct(h, n) == \A i, j \in 1 .. n : h[i].seq = h[j].seq => i = j
Values(h, n) == {h[i] : i \in 1 .. n}
Entries(n) == [1 .. n -> EventRecords]

LEMMA Parent ==
    ASSUME NEW n \in Nat, NEW i \in 2 .. n
    PROVE i \div 2 \in 1 .. n /\ i \div 2 < i /\ i \in {2 * (i \div 2), 2 * (i \div 2) + 1}
  OBVIOUS

LEMMA RootLeast ==
    ASSUME NEW n \in Nat, NEW h \in Entries(n), Heap(h, n) PROVE \A i \in 1 .. n : ~Below(h[i], h[1])
  <1> DEFINE P == {m \in Nat : \A i \in 1 .. m : ~Below(h[i], h[1])}
  <1>1. 0 \in P
    OBVIOUS
  <1>2. ASSUME NEW m \in 0 .. n, m \in P, m # n PROVE m + 1 \in P
    <2> SUFFICES ~Below(h[m + 1], h[1])
      <3>1. m + 1 \in Nat /\ \A i \in 1 .. m + 1 : i \in 1 .. m \/ i = m + 1
        OBVIOUS
      <3> QED BY <1>2, <3>1
    <2>1. m + 1 \in 1 .. n /\ 1 \in 1 .. n /\ m + 1 \in Nat
      BY <1>2
    <2>2. h[m + 1] \in EventRecords /\ h[1] \in EventRecords
      BY <2>1 DEF Entries
    <2>3. CASE m = 0
      BY <2>2, <2>3, BelowOrder
    <2>4. CASE m # 0
      <3> DEFINE p == (m + 1) \div 2
      <3>1. m + 1 \in 2 .. n /\ p \in 1 .. m
        BY <1>2, <2>4
      <3>2. ~Below(h[m + 1], h[p])
        BY <3>1 DEF Heap
      <3> HIDE DEF p
      <3>3. ~Below(h[p], h[1]) /\ h[p] \in EventRecords
        BY <1>2, <3>1 DEF Entries
      <3> QED BY <2>2, <3>2, <3>3, BelowOn
    <2> QED BY <2>3, <2>4
  <1> HIDE DEF P
  <1>3. \A m \in 0 .. n : m \in P
    BY <1>1, <1>2, Stepwise
  <1> QED BY <1>3 DEF P

LEMMA SwappedSays ==
    ASSUME NEW n \in Nat, NEW h \in Entries(n), Distinct(h, n), NEW i \in 1 .. n, NEW j \in 1 .. n, i # j
    PROVE LET g == Swapped(h, i, j)
          IN /\ g \in Entries(n) /\ Distinct(g, n) /\ Values(g, n) = Values(h, n)
             /\ g[i] = h[j] /\ g[j] = h[i] /\ \A k \in 1 .. n : k # i /\ k # j => g[k] = h[k]
  <1> DEFINE g == Swapped(h, i, j)
  <1>1. /\ g \in [1 .. n -> EventRecords]
        /\ g[i] = h[j] /\ g[j] = h[i] /\ \A k \in 1 .. n : k # i /\ k # j => g[k] = h[k]
    BY DEF Swapped, Entries
  <1> HIDE DEF g
  <1>2. Distinct(g, n)
    <2> SUFFICES ASSUME NEW k \in 1 .. n, NEW l \in 1 .. n, g[k].seq = g[l].seq PROVE k = l
      BY DEF Distinct
    <2> DEFINE of(m) == IF m = i THEN j ELSE IF m = j THEN i ELSE m
    <2>1. g[k] = h[of(k)] /\ g[l] = h[of(l)] /\ of(k) \in 1 .. n /\ of(l) \in 1 .. n
      BY <1>1
    <2>2. of(k) = of(l)
      <3> HIDE DEF of
      <3> QED BY <2>1 DEF Distinct
    <2> QED BY <2>2
  <1>3. Values(g, n) = Values(h, n)
    <2>1. \A k \in 1 .. n : g[k] \in Values(h, n)
      BY <1>1 DEF Values
    <2>2. \A k \in 1 .. n : h[k] \in Values(g, n)
      <3> SUFFICES ASSUME NEW k \in 1 .. n PROVE \E l \in 1 .. n : h[k] = g[l]
        BY DEF Values
      <3>1. h[k] = g[IF k = i THEN j ELSE IF k = j THEN i ELSE k]
        BY <1>1
      <3> QED BY <3>1
    <2> QED BY <2>1, <2>2 DEF Values
  <1> QED BY <1>1, <1>2, <1>3 DEF g, Entries

-----------------------------------------------------------------------------
(* The two ways a heap is put in order.                                    *)

Places(n) == [heap : Entries(n), at : 1 .. n]

LEMMA PlaceFields ==
    ASSUME NEW n \in Nat, NEW s \in Places(n)
    PROVE s.heap \in Entries(n) /\ s.at \in 1 .. n /\ s = [heap |-> s.heap, at |-> s.at]
  BY DEF Places

\* Only the entry at the place may be below its parent, and what is under it is not
\* below its parent either.
Climbing(s, n) ==
    /\ \A i \in 2 .. n : i # s.at => ~Below(s.heap[i], s.heap[i \div 2])
    /\ \A i \in 2 .. n : i \div 2 = s.at /\ s.at # 1 => ~Below(s.heap[i], s.heap[s.at \div 2])

AtRest(s) == s.at = 1 \/ ~Below(s.heap[s.at], s.heap[s.at \div 2])

LEMMA ClimbedSays ==
    ASSUME NEW n \in Nat, NEW s \in Places(n), Distinct(s.heap, n), Climbing(s, n)
    PROVE LET z == Climbed(s)
          IN /\ z \in Places(n) /\ Distinct(z.heap, n) /\ Climbing(z, n)
             /\ Values(z.heap, n) = Values(s.heap, n)
             /\ AtRest(s) => z = s
             /\ ~AtRest(s) => z.at < s.at
  <1> DEFINE h == s.heap
             at == s.at
             up == at \div 2
             g == Swapped(h, at, up)
             z == Climbed(s)
  <1>1. h \in Entries(n) /\ at \in 1 .. n /\ s = [heap |-> h, at |-> at]
    BY PlaceFields
  <1>2. CASE AtRest(s)
    BY <1>2 DEF AtRest, Climbed
  <1>3. CASE ~AtRest(s)
    <2>1. z = [heap |-> g, at |-> up]
      BY <1>3 DEF AtRest, Climbed
    <2>2. at \in 2 .. n /\ Below(h[at], h[up])
      BY <1>1, <1>3 DEF AtRest
    <2>3. up \in 1 .. n /\ up < at
      BY <2>2, Parent
    <2>4. /\ \A i \in 2 .. n : i # at => ~Below(h[i], h[i \div 2])
          /\ \A i \in 2 .. n : i \div 2 = at /\ at # 1 => ~Below(h[i], h[at \div 2])
      BY DEF Climbing
    <2>5. Distinct(h, n)
      OBVIOUS
    <2> HIDE DEF h, at, z, g
    <2>6. /\ g \in Entries(n) /\ Distinct(g, n) /\ Values(g, n) = Values(h, n)
          /\ g[at] = h[up] /\ g[up] = h[at] /\ \A k \in 1 .. n : k # at /\ k # up => g[k] = h[k]
      <3>1. at \in 1 .. n /\ at # up
        BY <1>1, <2>3
      <3> QED BY <1>1, <2>3, <2>5, <3>1, SwappedSays DEF g
    <2>7. \A k \in 1 .. n : h[k] \in EventRecords
      BY <1>1 DEF Entries
    <2>8. h[at] \in EventRecords /\ h[up] \in EventRecords
      BY <1>1, <2>3, <2>7
    <2>9. ~Below(h[up], h[at])
      BY <2>2, <2>8, BelowOrder
    <2>10. ASSUME NEW i \in 2 .. n, i # up PROVE ~Below(g[i], g[i \div 2])
      <3> DEFINE p == i \div 2
      <3>1. p \in 1 .. n /\ p < i /\ i \in 1 .. n
        BY Parent
      <3>2. i # at => ~Below(h[i], h[p])
        BY <2>4
      <3>3. h[i] \in EventRecords /\ h[p] \in EventRecords
        BY <2>7, <3>1
      <3>4. CASE i = at
        BY <2>6, <2>9, <3>4
      <3>5. CASE i # at /\ p = at
        <4>1. ~Below(h[i], h[up])
          BY <2>2, <2>4, <3>5
        <4>2. g[i] = h[i] /\ g[p] = h[up]
          BY <2>6, <2>10, <3>1, <3>5
        <4> QED BY <4>1, <4>2
      <3>6. CASE i # at /\ p = up
        <4>1. ~Below(h[i], h[up])
          BY <3>2, <3>6
        <4>2. ~Below(h[i], h[at])
          BY <2>2, <2>8, <3>3, <4>1, BelowOn
        <4>3. g[i] = h[i] /\ g[p] = h[at]
          BY <2>6, <2>10, <3>1, <3>6
        <4> QED BY <4>2, <4>3
      <3>7. CASE i # at /\ p # at /\ p # up
        <4>1. g[i] = h[i] /\ g[p] = h[p]
          BY <2>6, <2>10, <3>1, <3>7
        <4> QED BY <3>2, <3>7, <4>1
      <3> QED BY <3>4, <3>5, <3>6, <3>7
    <2>11. ASSUME NEW i \in 2 .. n, i \div 2 = up, up # 1 PROVE ~Below(g[i], g[up \div 2])
      <3> DEFINE q == up \div 2
      <3>1. up \in 2 .. n
        BY <2>3, <2>11
      <3>2. q \in 1 .. n /\ q < up /\ i \in 1 .. n /\ up < i
        BY <2>11, <3>1, Parent
      <3>3. ~Below(h[up], h[q])
        BY <2>3, <2>4, <3>1
      <3> HIDE DEF q
      <3>4. g[q] = h[q]
        BY <2>3, <2>6, <3>2
      <3>5. CASE i = at
        BY <2>6, <3>3, <3>4, <3>5 DEF q
      <3>6. CASE i # at
        <4>1. g[i] = h[i]
          BY <2>6, <3>2, <3>6
        <4>2. ~Below(h[i], h[up])
          BY <2>4, <2>11, <3>6
        <4>3. h[i] \in EventRecords /\ h[q] \in EventRecords
          BY <2>7, <3>2
        <4>4. ~Below(h[i], h[q])
          BY <2>8, <3>3, <4>2, <4>3, BelowOn
        <4> QED BY <3>4, <4>1, <4>4 DEF q
      <3> QED BY <3>5, <3>6
    <2>12. z.heap = g /\ z.at = up /\ z \in Places(n)
      BY <2>1, <2>3, <2>6 DEF Places
    <2>13. Climbing(z, n)
      BY <2>10, <2>11, <2>12 DEF Climbing
    <2> QED BY <1>3, <2>3, <2>6, <2>12, <2>13 DEF h, at, z
  <1> QED BY <1>2, <1>3

\* An order and the same events.
Reorders(g, h, n) == g \in Entries(n) /\ Heap(g, n) /\ Distinct(g, n) /\ Values(g, n) = Values(h, n)

LEMMA ClimbSays ==
    ASSUME NEW n \in Nat, n >= 1, NEW heap \in Entries(n), Len(heap) = n, Distinct(heap, n),
           \A i \in 2 .. n - 1 : ~Below(heap[i], heap[i \div 2])
    PROVE Reorders(Climb(heap), heap, n)
  <1> DEFINE base == [heap |-> heap, at |-> n]
             V == {s \in Places(n) : Distinct(s.heap, n) /\ Climbing(s, n) /\ Values(s.heap, n) = Values(heap, n)}
             step == [s \in V |-> Climbed(s)]
             after == CHOOSE a : a = [m \in 0 .. n |-> IF m = 0 THEN base ELSE Climbed(a[m - 1])]
  <1>1. Climb(heap) = after[n].heap
    BY DEF Climb
  <1>2. base \in V
    <2>1. base \in Places(n) /\ base.heap = heap /\ base.at = n
      BY DEF Places
    <2> HIDE DEF base
    <2>2. ASSUME NEW i \in 2 .. n, i # n PROVE ~Below(heap[i], heap[i \div 2])
      BY <2>2
    <2>3. ASSUME NEW i \in 2 .. n PROVE i \div 2 # n
      BY <2>3, Parent
    <2>4. Climbing(base, n)
      BY <2>1, <2>2, <2>3 DEF Climbing
    <2> QED BY <2>1, <2>4
  <1>3. step \in [V -> V]
    BY ClimbedSays
  <1>4. \A s \in V : step[s] = Climbed(s)
    OBVIOUS
  <1> HIDE DEF base, V, step
  <1>5. PICK b \in [0 .. n -> V] : Iterates(b, base, step, n)
    BY <1>2, <1>3, IteratesExist
  <1>6. b = [m \in 0 .. n |-> IF m = 0 THEN base ELSE step[b[m - 1]]]
    BY <1>5 DEF Iterates
  <1>7. b = [m \in 0 .. n |-> IF m = 0 THEN base ELSE Climbed(b[m - 1])]
    <2>1. ASSUME NEW m \in 0 .. n, m # 0 PROVE step[b[m - 1]] = Climbed(b[m - 1])
      <3>1. m - 1 \in 0 .. n
        BY <2>1
      <3> QED BY <1>4, <1>5, <3>1
    <2> QED BY <1>6, <2>1
  <1>8. after = [m \in 0 .. n |-> IF m = 0 THEN base ELSE Climbed(after[m - 1])]
    BY <1>7
  <1> HIDE DEF after
  <1>9. after[0] = base
    BY <1>8
  <1>10. ASSUME NEW m \in 0 .. n, m # n PROVE after[m + 1] = Climbed(after[m])
    <2>1. m + 1 \in 0 .. n /\ m + 1 # 0 /\ (m + 1) - 1 = m
      BY <1>10
    <2>2. after[m + 1] = Climbed(after[(m + 1) - 1])
      BY <1>8, <2>1
    <2> QED BY <2>1, <2>2
  <1> DEFINE P == {m \in 0 .. n : after[m] \in V /\ (AtRest(after[m]) \/ after[m].at <= n - m)}
  <1>11. 0 \in P
    BY <1>2, <1>9 DEF base
  <1>12. ASSUME NEW m \in 0 .. n, m \in P /\ m # n PROVE m + 1 \in P
    <2> DEFINE s == after[m]
               z == after[m + 1]
    <2>1. s \in V /\ (AtRest(s) \/ s.at <= n - m) /\ z = Climbed(s) /\ m + 1 \in 0 .. n
      BY <1>10, <1>12
    <2> HIDE DEF s, z
    <2>2. /\ z \in V
          /\ AtRest(s) => z = s
          /\ ~AtRest(s) => z.at < s.at
      <3>1. s \in Places(n) /\ Distinct(s.heap, n) /\ Climbing(s, n) /\ Values(s.heap, n) = Values(heap, n)
        BY <2>1 DEF V
      <3>2. /\ z \in Places(n) /\ Distinct(z.heap, n) /\ Climbing(z, n)
            /\ Values(z.heap, n) = Values(s.heap, n)
            /\ AtRest(s) => z = s
            /\ ~AtRest(s) => z.at < s.at
        BY <2>1, <3>1, ClimbedSays
      <3> QED BY <3>1, <3>2 DEF V
    <2>3. CASE AtRest(s)
      BY <2>1, <2>2, <2>3 DEF s, z
    <2>4. CASE ~AtRest(s)
      <3>1. s.at \in 1 .. n /\ z.at \in 1 .. n
        BY <2>1, <2>2, PlaceFields DEF V
      <3>2. z.at <= n - (m + 1)
        BY <2>1, <2>2, <2>4, <3>1
      <3> QED BY <2>1, <2>2, <3>2 DEF z
    <2> QED BY <2>3, <2>4
  <1> HIDE DEF P
  <1>13. n \in P
    <2>1. \A m \in 0 .. n : m \in P
      BY <1>11, <1>12, Stepwise
    <2> QED BY <2>1
  <1> DEFINE last == after[n]
  <1>14. last \in V /\ (AtRest(last) \/ last.at <= n - n)
    BY <1>13 DEF P
  <1> HIDE DEF last
  <1>15. last.at \in 1 .. n /\ last.heap \in Entries(n)
    BY <1>14, PlaceFields DEF V
  <1>16. AtRest(last) /\ Climbing(last, n) /\ Distinct(last.heap, n) /\ Values(last.heap, n) = Values(heap, n)
    BY <1>14, <1>15 DEF V
  <1>17. Heap(last.heap, n)
    <2> SUFFICES ASSUME NEW i \in 2 .. n PROVE ~Below(last.heap[i], last.heap[i \div 2])
      BY DEF Heap
    <2>1. CASE i = last.at
      BY <1>16, <2>1 DEF AtRest
    <2>2. CASE i # last.at
      BY <1>16, <2>2 DEF Climbing
    <2> QED BY <2>1, <2>2
  <1> QED BY <1>1, <1>15, <1>16, <1>17 DEF last, Reorders

\* Only what is under the place may be below its parent, and it is not below the parent
\* of the place either.
Sinking(s, n) ==
    /\ \A i \in 2 .. n : i \div 2 # s.at => ~Below(s.heap[i], s.heap[i \div 2])
    /\ \A i \in 2 .. n : i \div 2 = s.at /\ s.at # 1 => ~Below(s.heap[i], s.heap[s.at \div 2])

Children(s, n) == {2 * s.at, 2 * s.at + 1} \cap (1 .. n)
Sunken(s, n) == \A c \in Children(s, n) : ~Below(s.heap[c], s.heap[s.at])

LEMMA ChildrenSay ==
    ASSUME NEW n \in Nat, NEW s, s.at \in 1 .. n
    PROVE \A i \in 2 .. n : i \in Children(s, n) <=> i \div 2 = s.at
  <1> SUFFICES ASSUME NEW i \in 2 .. n PROVE i \in Children(s, n) <=> i \div 2 = s.at
    OBVIOUS
  <1>1. PICK at \in 1 .. n : at = s.at
    OBVIOUS
  <1>2. i \in {2 * at, 2 * at + 1} => i \div 2 = at
    OBVIOUS
  <1>3. i \div 2 = at => i \in {2 * at, 2 * at + 1}
    OBVIOUS
  <1> QED BY <1>1, <1>2, <1>3 DEF Children

\* Of distinct children one is the least.
LEMMA LeastChild ==
    ASSUME NEW n \in Nat, NEW s \in Places(n), Distinct(s.heap, n), Children(s, n) # {}
    PROVE \E c \in Children(s, n) : \A d \in Children(s, n) : c = d \/ Below(s.heap[c], s.heap[d])
  <1> DEFINE h == s.heap
             x == 2 * s.at
             y == 2 * s.at + 1
  <1>1. h \in Entries(n) /\ s.at \in 1 .. n /\ x # y
    BY PlaceFields
  <1>2. Children(s, n) = {x, y} \cap (1 .. n)
    BY DEF Children
  <1> HIDE DEF x, y, h
  <1>3. CASE x \in 1 .. n /\ y \in 1 .. n
    <2>1. Children(s, n) = {x, y}
      BY <1>2, <1>3
    <2>2. h[x] \in EventRecords /\ h[y] \in EventRecords
      BY <1>1, <1>3 DEF Entries
    <2>3. h[x].seq # h[y].seq
      BY <1>1, <1>3 DEF Distinct, h
    <2>4. Below(h[x], h[y]) \/ Below(h[y], h[x])
      BY <2>2, <2>3, BelowOrder
    <2> QED BY <2>1, <2>4 DEF h
  <1>4. CASE ~(x \in 1 .. n /\ y \in 1 .. n)
    BY <1>2, <1>4
  <1> QED BY <1>3, <1>4

LEMMA SunkSays ==
    ASSUME NEW n \in Nat, NEW s \in Places(n), Distinct(s.heap, n), Sinking(s, n)
    PROVE LET z == Sunk(s)
          IN /\ z \in Places(n) /\ Distinct(z.heap, n) /\ Sinking(z, n)
             /\ Values(z.heap, n) = Values(s.heap, n)
             /\ Sunken(s, n) => z = s
             /\ ~Sunken(s, n) => z.at > s.at
  <1> DEFINE h == s.heap
             at == s.at
             kids == Children(s, n)
             least == CHOOSE c \in kids : \A d \in kids : c = d \/ Below(h[c], h[d])
             g == Swapped(h, at, least)
             z == Sunk(s)
  <1>1. h \in Entries(n) /\ at \in 1 .. n /\ s = [heap |-> h, at |-> at] /\ DOMAIN h = 1 .. n
    <2>1. h \in Entries(n) /\ at \in 1 .. n /\ s = [heap |-> h, at |-> at]
      BY PlaceFields
    <2> QED BY <2>1 DEF Entries
  <1>0. z = IF \A c \in kids : ~Below(h[c], h[at]) THEN s ELSE [heap |-> g, at |-> least]
    BY <1>1 DEF Sunk, Children
  <1>2. CASE Sunken(s, n)
    BY <1>0, <1>2 DEF Sunken
  <1>3. CASE ~Sunken(s, n)
    <2>1. z = [heap |-> g, at |-> least]
      BY <1>0, <1>3 DEF Sunken
    <2>2. PICK child \in kids : Below(h[child], h[at])
      BY <1>3 DEF Sunken
    <2>3. least \in kids /\ \A d \in kids : least = d \/ Below(h[least], h[d])
      <3>1. \E c \in kids : \A d \in kids : c = d \/ Below(h[c], h[d])
        BY <2>2, LeastChild
      <3> HIDE DEF kids, h
      <3> QED BY <3>1
    <2>4. /\ \A i \in 2 .. n : i \div 2 # at => ~Below(h[i], h[i \div 2])
          /\ \A i \in 2 .. n : i \div 2 = at /\ at # 1 => ~Below(h[i], h[at \div 2])
      BY DEF Sinking
    <2>5. Distinct(h, n)
      OBVIOUS
    <2>6. kids \in SUBSET (2 .. n) /\ \A i \in 2 .. n : i \in kids <=> i \div 2 = at
      <3>1. kids \in SUBSET (2 .. n)
        BY <1>1 DEF Children
      <3> QED BY <1>1, <3>1, ChildrenSay
    <2> HIDE DEF h, at, z, g, least, kids
    <2>7. least \in 2 .. n /\ least \in 1 .. n /\ least \div 2 = at /\ at < least
      <3>1. least \in 2 .. n /\ least \div 2 = at
        BY <2>3, <2>6
      <3> QED BY <3>1, Parent
    <2>8. /\ g \in Entries(n) /\ Distinct(g, n) /\ Values(g, n) = Values(h, n)
          /\ g[at] = h[least] /\ g[least] = h[at] /\ \A k \in 1 .. n : k # at /\ k # least => g[k] = h[k]
      <3>1. at # least
        BY <1>1, <2>7
      <3> QED BY <1>1, <2>5, <2>7, <3>1, SwappedSays DEF g
    <2>9. \A k \in 1 .. n : h[k] \in EventRecords
      BY <1>1 DEF Entries
    <2>10. h[at] \in EventRecords /\ h[least] \in EventRecords
      BY <1>1, <2>7, <2>9
    <2>11. ASSUME NEW d \in kids PROVE ~Below(h[d], h[least])
      <3>1. d \in 1 .. n
        BY <2>6
      <3>2. h[d] \in EventRecords
        BY <2>9, <3>1
      <3> QED BY <2>3, <2>10, <3>2, BelowOrder
    <2>12. ~Below(h[at], h[least])
      <3>1. h[child] \in EventRecords
        <4>1. child \in 1 .. n
          BY <2>2, <2>6
        <4> QED BY <2>9, <4>1
      <3>2. Below(h[least], h[at])
        BY <2>2, <2>3, <2>10, <3>1, BelowOn
      <3> QED BY <2>10, <3>2, BelowOrder
    <2>13. ASSUME NEW i \in 2 .. n, i \div 2 # least PROVE ~Below(g[i], g[i \div 2])
      <3> DEFINE p == i \div 2
      <3>1. p \in 1 .. n /\ p < i /\ i \in 1 .. n
        BY Parent
      <3>2. p # at => ~Below(h[i], h[p])
        BY <2>4
      <3>3. CASE i = least
        BY <2>7, <2>8, <2>12, <3>3
      <3>4. CASE i # least /\ p = at
        <4>1. i \in kids /\ g[i] = h[i] /\ g[p] = h[least]
          BY <1>1, <2>6, <2>8, <3>1, <3>4
        <4> QED BY <2>11, <4>1
      <3>5. CASE i = at
        <4>1. at # 1
          BY <3>5
        <4>2. ~Below(h[least], h[p])
          BY <2>4, <2>7, <3>5, <4>1
        <4>3. g[i] = h[least] /\ g[p] = h[p]
          BY <1>1, <2>7, <2>8, <2>13, <3>1, <3>5
        <4> QED BY <4>2, <4>3
      <3>6. CASE i # least /\ p # at /\ i # at
        <4>1. g[i] = h[i] /\ g[p] = h[p]
          BY <2>8, <2>13, <3>1, <3>6
        <4> QED BY <3>2, <3>6, <4>1
      <3> QED BY <3>3, <3>4, <3>5, <3>6
    <2>14. ASSUME NEW i \in 2 .. n, i \div 2 = least PROVE ~Below(g[i], g[least \div 2])
      <3>1. least < i /\ i \in 1 .. n
        BY <2>14, Parent
      <3>2. i # at /\ i # least
        BY <1>1, <2>7, <3>1
      <3>3. g[i] = h[i] /\ g[least \div 2] = h[least]
        BY <2>7, <2>8, <3>1, <3>2
      <3>4. ~Below(h[i], h[i \div 2])
        BY <1>1, <2>4, <2>7, <2>14
      <3> QED BY <2>14, <3>3, <3>4
    <2>15. z.heap = g /\ z.at = least /\ z \in Places(n)
      BY <2>1, <2>7, <2>8 DEF Places
    <2>16. Sinking(z, n)
      BY <2>13, <2>14, <2>15 DEF Sinking
    <2>17. z.at > s.at
      BY <1>1, <2>7, <2>15 DEF at
    <2> QED BY <1>3, <2>8, <2>15, <2>16, <2>17 DEF h, z
  <1> QED BY <1>2, <1>3

LEMMA SinkSays ==
    ASSUME NEW n \in Nat, n >= 1, NEW heap \in Entries(n), Len(heap) = n, Distinct(heap, n),
           \A i \in 2 .. n : i \div 2 # 1 => ~Below(heap[i], heap[i \div 2])
    PROVE Reorders(Sink(heap), heap, n)
  <1> DEFINE base == [heap |-> heap, at |-> 1]
             V == {s \in Places(n) : Distinct(s.heap, n) /\ Sinking(s, n) /\ Values(s.heap, n) = Values(heap, n)}
             step == [s \in V |-> Sunk(s)]
             after == CHOOSE a : a = [m \in 0 .. n |-> IF m = 0 THEN base ELSE Sunk(a[m - 1])]
  <1>1. Sink(heap) = after[n].heap
    BY DEF Sink
  <1>2. base \in V
    <2>1. base \in Places(n) /\ base.heap = heap /\ base.at = 1
      BY DEF Places
    <2> HIDE DEF base
    <2>2. Sinking(base, n)
      BY <2>1 DEF Sinking
    <2> QED BY <2>1, <2>2
  <1>3. step \in [V -> V]
    BY SunkSays
  <1>4. \A s \in V : step[s] = Sunk(s)
    OBVIOUS
  <1> HIDE DEF base, V, step
  <1>5. PICK b \in [0 .. n -> V] : Iterates(b, base, step, n)
    BY <1>2, <1>3, IteratesExist
  <1>6. b = [m \in 0 .. n |-> IF m = 0 THEN base ELSE step[b[m - 1]]]
    BY <1>5 DEF Iterates
  <1>7. b = [m \in 0 .. n |-> IF m = 0 THEN base ELSE Sunk(b[m - 1])]
    <2>1. ASSUME NEW m \in 0 .. n, m # 0 PROVE step[b[m - 1]] = Sunk(b[m - 1])
      <3>1. m - 1 \in 0 .. n
        BY <2>1
      <3> QED BY <1>4, <1>5, <3>1
    <2> QED BY <1>6, <2>1
  <1>8. after = [m \in 0 .. n |-> IF m = 0 THEN base ELSE Sunk(after[m - 1])]
    BY <1>7
  <1> HIDE DEF after
  <1>9. after[0] = base
    BY <1>8
  <1>10. ASSUME NEW m \in 0 .. n, m # n PROVE after[m + 1] = Sunk(after[m])
    <2>1. m + 1 \in 0 .. n /\ m + 1 # 0 /\ (m + 1) - 1 = m
      BY <1>10
    <2>2. after[m + 1] = Sunk(after[(m + 1) - 1])
      BY <1>8, <2>1
    <2> QED BY <2>1, <2>2
  <1> DEFINE P == {m \in 0 .. n : after[m] \in V /\ (Sunken(after[m], n) \/ after[m].at >= m + 1)}
  <1>11. 0 \in P
    BY <1>2, <1>9 DEF base
  <1>12. ASSUME NEW m \in 0 .. n, m \in P /\ m # n PROVE m + 1 \in P
    <2> DEFINE s == after[m]
               z == after[m + 1]
    <2>1. s \in V /\ (Sunken(s, n) \/ s.at >= m + 1) /\ z = Sunk(s) /\ m + 1 \in 0 .. n
      BY <1>10, <1>12
    <2> HIDE DEF s, z
    <2>2. /\ z \in V
          /\ Sunken(s, n) => z = s
          /\ ~Sunken(s, n) => z.at > s.at
      <3>1. s \in Places(n) /\ Distinct(s.heap, n) /\ Sinking(s, n) /\ Values(s.heap, n) = Values(heap, n)
        BY <2>1 DEF V
      <3>2. /\ z \in Places(n) /\ Distinct(z.heap, n) /\ Sinking(z, n)
            /\ Values(z.heap, n) = Values(s.heap, n)
            /\ Sunken(s, n) => z = s
            /\ ~Sunken(s, n) => z.at > s.at
        BY <2>1, <3>1, SunkSays
      <3> QED BY <3>1, <3>2 DEF V
    <2>3. CASE Sunken(s, n)
      BY <2>1, <2>2, <2>3 DEF s, z
    <2>4. CASE ~Sunken(s, n)
      <3>1. s.at \in 1 .. n /\ z.at \in 1 .. n
        BY <2>1, <2>2, PlaceFields DEF V
      <3>2. z.at >= (m + 1) + 1
        BY <2>1, <2>2, <2>4, <3>1
      <3> QED BY <2>1, <2>2, <3>2 DEF z
    <2> QED BY <2>3, <2>4
  <1> HIDE DEF P
  <1>13. n \in P
    <2>1. \A m \in 0 .. n : m \in P
      BY <1>11, <1>12, Stepwise
    <2> QED BY <2>1
  <1> DEFINE last == after[n]
  <1>14. last \in V /\ (Sunken(last, n) \/ last.at >= n + 1)
    BY <1>13 DEF P
  <1> HIDE DEF last
  <1>15. last.at \in 1 .. n /\ last.heap \in Entries(n)
    BY <1>14, PlaceFields DEF V
  <1>16. Sunken(last, n) /\ Sinking(last, n) /\ Distinct(last.heap, n) /\ Values(last.heap, n) = Values(heap, n)
    BY <1>14, <1>15 DEF V
  <1>17. Heap(last.heap, n)
    <2> SUFFICES ASSUME NEW i \in 2 .. n PROVE ~Below(last.heap[i], last.heap[i \div 2])
      BY DEF Heap
    <2>1. CASE i \div 2 = last.at
      <3>1. i \in Children(last, n)
        BY <1>15, <2>1, ChildrenSay
      <3> QED BY <1>16, <2>1, <3>1 DEF Sunken
    <2>2. CASE i \div 2 # last.at
      BY <1>16, <2>2 DEF Sinking
    <2> QED BY <2>1, <2>2
  <1> QED BY <1>1, <1>15, <1>16, <1>17 DEF last, Reorders

-----------------------------------------------------------------------------
(* The sink.                                                               *)

\* The events retained of source s when c have been counted.
Retains(h, s, c) ==
    /\ h \in Seq(EventRecords) /\ Heap(h, Len(h)) /\ Distinct(h, Len(h))
    /\ \A x \in ToSet(h) : x.source = s /\ x.seq < c

\* What is dropped of a full heap and its newcomer is no more severe than what is kept,
\* and that is at least as severe as something that was there.
KeepsWorst(z, h, entry) ==
    /\ \A x \in ToSet(h) \cup {entry} : x \in ToSet(z) \/ \A y \in ToSet(z) : y.severity <= x.severity
    /\ \E x \in ToSet(h) : \A y \in ToSet(z) : y.severity <= x.severity

LEMMA SequenceOf ==
    ASSUME NEW n \in Nat, NEW h \in Entries(n)
    PROVE h \in Seq(EventRecords) /\ Len(h) = n /\ ToSet(h) = Values(h, n)
  <1>1. h \in [1 .. n -> EventRecords]
    BY DEF Entries
  <1>2. h \in Seq(EventRecords)
    BY <1>1, SeqDef
  <1>3. Len(h) = n /\ DOMAIN h = 1 .. n
    BY <1>1, <1>2
  <1> QED BY <1>2, <1>3 DEF ToSet, Values

LEMMA EntriesOf ==
    ASSUME NEW h \in Seq(EventRecords)
    PROVE Len(h) \in Nat /\ h \in Entries(Len(h)) /\ ToSet(h) = Values(h, Len(h))
  <1>1. h \in [1 .. Len(h) -> EventRecords] /\ DOMAIN h = 1 .. Len(h) /\ Len(h) \in Nat
    OBVIOUS
  <1> QED BY <1>1 DEF Entries, ToSet, Values

LEMMA ReordersRetain ==
    ASSUME NEW n \in Nat, NEW g, NEW h, Reorders(g, h, n), NEW s, NEW c,
           \A x \in Values(h, n) : x.source = s /\ x.seq < c
    PROVE Retains(g, s, c) /\ ToSet(g) = Values(h, n) /\ Len(g) = n
  <1>1. g \in Entries(n) /\ Heap(g, n) /\ Distinct(g, n) /\ Values(g, n) = Values(h, n)
    BY DEF Reorders
  <1>2. g \in Seq(EventRecords) /\ Len(g) = n /\ ToSet(g) = Values(g, n)
    BY <1>1, SequenceOf
  <1> QED BY <1>1, <1>2 DEF Retains

LEMMA PushSays ==
    ASSUME NEW s, NEW c \in Nat, NEW h, Retains(h, s, c),
           NEW entry \in EventRecords, entry.source = s, entry.seq = c
    PROVE LET z == Climb(Append(h, entry)) IN Retains(z, s, c + 1) /\ ToSet(z) = ToSet(h) \cup {entry}
  <1> DEFINE n == Len(h)
             a == Append(h, entry)
  <1>1. h \in Seq(EventRecords) /\ Heap(h, n) /\ Distinct(h, n) /\ \A x \in ToSet(h) : x.source = s /\ x.seq < c
    BY DEF Retains
  <1>2. n \in Nat /\ h \in Entries(n) /\ ToSet(h) = Values(h, n)
    BY <1>1, EntriesOf
  <1>3. /\ a \in Seq(EventRecords) /\ Len(a) = n + 1 /\ a[n + 1] = entry
        /\ \A i \in 1 .. n : a[i] = h[i]
    BY <1>1
  <1> HIDE DEF a, n
  <1>4. a \in Entries(n + 1)
    BY <1>3, EntriesOf
  <1>5. \A i \in 1 .. n : h[i] \in ToSet(h) /\ h[i] \in EventRecords
    BY <1>2 DEF Values, Entries
  <1>6. \A i \in 1 .. n : h[i].seq \in Int /\ h[i].seq < c
    BY <1>1, <1>5, EventFields
  <1>7. Distinct(a, n + 1)
    <2> SUFFICES ASSUME NEW i \in 1 .. n + 1, NEW j \in 1 .. n + 1, a[i].seq = a[j].seq PROVE i = j
      BY DEF Distinct
    <2>1. i \in 1 .. n \/ i = n + 1
      BY <1>2
    <2>2. j \in 1 .. n \/ j = n + 1
      BY <1>2
    <2>3. CASE i \in 1 .. n /\ j \in 1 .. n
      BY <1>1, <1>3, <2>3 DEF Distinct
    <2>4. CASE i \in 1 .. n /\ j = n + 1
      BY <1>3, <1>6, <2>4
    <2>5. CASE i = n + 1 /\ j \in 1 .. n
      BY <1>3, <1>6, <2>5
    <2> QED BY <2>1, <2>2, <2>3, <2>4, <2>5
  <1>8. \A i \in 2 .. (n + 1) - 1 : ~Below(a[i], a[i \div 2])
    <2> SUFFICES ASSUME NEW i \in 2 .. n PROVE ~Below(a[i], a[i \div 2])
      BY <1>2
    <2>1. i \in 1 .. n /\ i \div 2 \in 1 .. n
      BY <1>2, Parent
    <2> QED BY <1>1, <1>3, <2>1 DEF Heap
  <1>9. Values(a, n + 1) = ToSet(h) \cup {entry}
    <2>1. 1 .. n + 1 = (1 .. n) \cup {n + 1}
      BY <1>2
    <2>2. {a[i] : i \in 1 .. n} = {h[i] : i \in 1 .. n}
      BY <1>3
    <2> QED BY <1>2, <1>3, <2>1, <2>2 DEF Values
  <1>10. \A x \in Values(a, n + 1) : x.source = s /\ x.seq < c + 1
    <2> SUFFICES ASSUME NEW x \in Values(a, n + 1) PROVE x.source = s /\ x.seq < c + 1
      OBVIOUS
    <2>1. CASE x = entry
      BY <2>1
    <2>2. CASE x \in ToSet(h)
      <3>1. x \in EventRecords
        BY <1>2, <2>2 DEF Values, Entries
      <3>2. x.seq \in Int
        BY <3>1, EventFields
      <3> QED BY <1>1, <2>2, <3>2
    <2> QED BY <1>9, <2>1, <2>2
  <1>11. Reorders(Climb(a), a, n + 1)
    <2>1. n + 1 \in Nat /\ n + 1 >= 1
      BY <1>2
    <2> QED BY <1>3, <1>4, <1>7, <1>8, <2>1, ClimbSays
  <1>12. n + 1 \in Nat
    BY <1>2
  <1> QED BY <1>9, <1>10, <1>11, <1>12, ReordersRetain DEF a

LEMMA ReplaceSays ==
    ASSUME NEW s, NEW c \in Nat, NEW h, Retains(h, s, c), Len(h) >= 1,
           NEW entry \in EventRecords, entry.source = s, entry.seq = c
    PROVE LET z == Sink([h EXCEPT ![1] = entry])
          IN /\ Retains(z, s, c + 1) /\ Len(z) = Len(h)
             /\ entry \in ToSet(z) /\ ToSet(z) \subseteq ToSet(h) \cup {entry}
             /\ \A x \in ToSet(h) : x \in ToSet(z) \/ x = h[1]
  <1> DEFINE n == Len(h)
             a == [h EXCEPT ![1] = entry]
  <1>1. h \in Seq(EventRecords) /\ Heap(h, n) /\ Distinct(h, n) /\ \A x \in ToSet(h) : x.source = s /\ x.seq < c
    BY DEF Retains
  <1>2. n \in Nat /\ h \in Entries(n) /\ ToSet(h) = Values(h, n) /\ n >= 1
    BY <1>1, EntriesOf
  <1>3. a \in Entries(n) /\ a[1] = entry /\ \A i \in 1 .. n : i # 1 => a[i] = h[i]
    BY <1>2 DEF Entries
  <1> HIDE DEF a, n
  <1>4. Len(a) = n
    BY <1>2, <1>3, SequenceOf
  <1>5. \A i \in 1 .. n : h[i] \in ToSet(h) /\ h[i] \in EventRecords
    BY <1>2 DEF Values, Entries
  <1>6. \A i \in 1 .. n : h[i].seq \in Int /\ h[i].seq < c
    BY <1>1, <1>5, EventFields
  <1>7. Distinct(a, n)
    <2> SUFFICES ASSUME NEW i \in 1 .. n, NEW j \in 1 .. n, a[i].seq = a[j].seq PROVE i = j
      BY DEF Distinct
    <2>1. CASE i # 1 /\ j # 1
      BY <1>1, <1>3, <2>1 DEF Distinct
    <2>2. CASE i # 1 /\ j = 1
      BY <1>3, <1>6, <2>2
    <2>3. CASE i = 1 /\ j # 1
      BY <1>3, <1>6, <2>3
    <2> QED BY <2>1, <2>2, <2>3
  <1>8. \A i \in 2 .. n : i \div 2 # 1 => ~Below(a[i], a[i \div 2])
    <2> SUFFICES ASSUME NEW i \in 2 .. n, i \div 2 # 1 PROVE ~Below(a[i], a[i \div 2])
      OBVIOUS
    <2>1. i \in 1 .. n /\ i # 1 /\ i \div 2 \in 1 .. n
      BY <1>2, Parent
    <2> QED BY <1>1, <1>3, <2>1 DEF Heap
  <1>9. /\ entry \in Values(a, n) /\ Values(a, n) \subseteq ToSet(h) \cup {entry}
        /\ \A x \in ToSet(h) : x \in Values(a, n) \/ x = h[1]
    BY <1>2, <1>3 DEF Values
  <1>10. \A x \in Values(a, n) : x.source = s /\ x.seq < c + 1
    <2> SUFFICES ASSUME NEW x \in Values(a, n) PROVE x.source = s /\ x.seq < c + 1
      OBVIOUS
    <2>1. CASE x = entry
      BY <2>1
    <2>2. CASE x \in ToSet(h)
      <3>1. x \in EventRecords
        BY <1>2, <2>2 DEF Values, Entries
      <3>2. x.seq \in Int
        BY <3>1, EventFields
      <3> QED BY <1>1, <2>2, <3>2
    <2> QED BY <1>9, <2>1, <2>2
  <1>11. Reorders(Sink(a), a, n)
    BY <1>2, <1>3, <1>4, <1>7, <1>8, SinkSays
  <1>12. Retains(Sink(a), s, c + 1) /\ ToSet(Sink(a)) = Values(a, n) /\ Len(Sink(a)) = n
    BY <1>2, <1>10, <1>11, ReordersRetain
  <1> QED BY <1>9, <1>12 DEF a, n

LEMMA KeptSays ==
    ASSUME NEW s, NEW c \in Nat, NEW h, Retains(h, s, c),
           NEW entry \in EventRecords, entry.source = s, entry.seq = c
    PROVE LET z == Kept(h, entry)
          IN /\ Retains(z, s, c + 1) /\ ToSet(z) \subseteq ToSet(h) \cup {entry}
             /\ Len(h) < PerSource => ToSet(z) = ToSet(h) \cup {entry}
             /\ Len(h) >= PerSource => Len(z) >= PerSource /\ KeepsWorst(z, h, entry)
  <1> DEFINE n == Len(h)
  <1>1. h \in Seq(EventRecords) /\ Heap(h, n) /\ Distinct(h, n) /\ \A x \in ToSet(h) : x.source = s /\ x.seq < c
    BY DEF Retains
  <1>2. n \in Nat /\ h \in Entries(n) /\ ToSet(h) = Values(h, n)
    BY <1>1, EntriesOf
  <1> HIDE DEF n
  <1>3. \A x \in ToSet(h) : x \in EventRecords
    BY <1>2 DEF Values, Entries
  <1>4. CASE n < PerSource
    <2>1. Kept(h, entry) = Climb(Append(h, entry))
      BY <1>4 DEF Kept, n
    <2>2. Retains(Climb(Append(h, entry)), s, c + 1) /\ ToSet(Climb(Append(h, entry))) = ToSet(h) \cup {entry}
      BY PushSays
    <2> QED BY <1>2, <1>4, <2>1, <2>2, BoundsAssumption DEF n
  <1>5. CASE ~(n < PerSource)
    <2>1. n >= 1 /\ 1 \in 1 .. n
      BY <1>2, <1>5, BoundsAssumption
    <2>2. h[1] \in EventRecords /\ h[1] \in ToSet(h)
      BY <1>2, <2>1 DEF Values, Entries
    <2>3. \A x \in ToSet(h) : x.severity <= h[1].severity
      <3> SUFFICES ASSUME NEW i \in 1 .. n PROVE h[i].severity <= h[1].severity
        BY <1>2 DEF Values
      <3>1. h[i] \in EventRecords
        BY <1>2 DEF Entries
      <3>2. ~Below(h[i], h[1])
        BY <1>1, <1>2, RootLeast DEF n
      <3> QED BY <2>2, <3>1, <3>2, BelowOrder
    <2>4. CASE Below(h[1], entry)
      <3> DEFINE z == Sink([h EXCEPT ![1] = entry])
      <3>1. Kept(h, entry) = z
        BY <1>5, <2>4 DEF Kept, n
      <3>2. /\ Retains(z, s, c + 1) /\ Len(z) = Len(h)
            /\ entry \in ToSet(z) /\ ToSet(z) \subseteq ToSet(h) \cup {entry}
            /\ \A x \in ToSet(h) : x \in ToSet(z) \/ x = h[1]
        BY <2>1, ReplaceSays DEF n
      <3> HIDE DEF z
      <3>3. entry.severity <= h[1].severity
        BY <2>2, <2>4, BelowOrder
      <3>4. \A y \in ToSet(z) : y.severity <= h[1].severity
        BY <2>3, <3>2, <3>3
      <3>5. KeepsWorst(z, h, entry)
        BY <2>2, <3>2, <3>4 DEF KeepsWorst
      <3> QED BY <1>5, <3>1, <3>2, <3>5 DEF n
    <2>5. CASE ~Below(h[1], entry)
      <3>1. Kept(h, entry) = h
        BY <1>5, <2>5 DEF Kept, n
      <3>2. h[1].severity <= entry.severity
        BY <2>2, <2>5, BelowOrder
      <3>3. \A y \in ToSet(h) : y.severity <= entry.severity
        <4> SUFFICES ASSUME NEW y \in ToSet(h) PROVE y.severity <= entry.severity
          OBVIOUS
        <4>1. y.severity \in Int /\ h[1].severity \in Int /\ entry.severity \in Int
          BY <1>3, <2>2, EventFields
        <4> QED BY <2>3, <3>2, <4>1
      <3>4. Retains(h, s, c + 1)
        <4>1. \A x \in ToSet(h) : x.source = s /\ x.seq < c + 1
          <5> SUFFICES ASSUME NEW x \in ToSet(h) PROVE x.source = s /\ x.seq < c + 1
            OBVIOUS
          <5>1. x.seq \in Int
            BY <1>3, EventFields
          <5> QED BY <1>1, <5>1
        <4> QED BY <1>1, <4>1 DEF Retains, n
      <3>5. KeepsWorst(h, h, entry)
        BY <2>2, <2>3, <3>3 DEF KeepsWorst
      <3> QED BY <1>5, <3>1, <3>4, <3>5 DEF n
    <2> QED BY <2>4, <2>5
  <1> QED BY <1>4, <1>5

SinkRecords ==
    [heaps : UNION {[D -> Seq(EventRecords)] : D \in SUBSET Origins}, sources : Seq(Origins), count : Nat]

\* The sinks there can be.
Sinks ==
    {k \in SinkRecords :
        /\ DOMAIN k.heaps = ToSet(k.sources)
        /\ \A s \in DOMAIN k.heaps : Retains(k.heaps[s], s, k.count)}

HeapOf(k, s) == IF s \in DOMAIN k.heaps THEN k.heaps[s] ELSE <<>>
EntryOf(k, e) == [e EXCEPT !.seq = k.count]

LEMMA SinkFields ==
    ASSUME NEW k \in Sinks
    PROVE /\ k.count \in Nat /\ k.sources \in Seq(Origins) /\ DOMAIN k.heaps \in SUBSET Origins
          /\ k.heaps \in [DOMAIN k.heaps -> Seq(EventRecords)]
          /\ DOMAIN k.heaps = ToSet(k.sources)
          /\ \A s \in DOMAIN k.heaps : Retains(k.heaps[s], s, k.count)
  <1>1. k \in SinkRecords /\ DOMAIN k.heaps = ToSet(k.sources)
          /\ \A s \in DOMAIN k.heaps : Retains(k.heaps[s], s, k.count)
    BY Zenon DEF Sinks
  <1>2. /\ k.heaps \in UNION {[D -> Seq(EventRecords)] : D \in SUBSET Origins}
        /\ k.sources \in Seq(Origins) /\ k.count \in Nat
    BY <1>1, Zenon DEF SinkRecords
  <1>3. PICK D \in SUBSET Origins : k.heaps \in [D -> Seq(EventRecords)]
    BY <1>2
  <1>4. DOMAIN k.heaps = D
    BY <1>3
  <1> QED BY <1>1, <1>2, <1>3, <1>4

LEMMA NothingRetained == ASSUME NEW s, NEW c PROVE Retains(<<>>, s, c) /\ ToSet(<<>>) = {} /\ Len(<<>>) = 0
  <1>1. <<>> \in Seq(EventRecords) /\ Len(<<>>) = 0 /\ ToSet(<<>>) = {}
    BY DEF ToSet
  <1>2. Heap(<<>>, 0) /\ Distinct(<<>>, 0)
    BY DEF Heap, Distinct
  <1> QED BY <1>1, <1>2 DEF Retains

LEMMA NoSinkSound == NoSink \in Sinks
  <1>1. <<>> \in [{} -> Seq(EventRecords)] /\ DOMAIN <<>> = {} /\ <<>> \in Seq(Origins) /\ ToSet(<<>>) = {}
    BY DEF ToSet
  <1>2. NoSink.heaps = <<>> /\ NoSink.sources = <<>> /\ NoSink.count = 0 /\ NoSink \in SinkRecords
    <2>1. <<>> \in UNION {[D -> Seq(EventRecords)] : D \in SUBSET Origins}
      BY <1>1
    <2> QED BY <1>1, <2>1 DEF NoSink, SinkRecords
  <1> QED BY <1>1, <1>2 DEF Sinks

LEMMA EntrySays ==
    ASSUME NEW e \in EventRecords, NEW c \in Nat
    PROVE LET x == [e EXCEPT !.seq = c]
          IN /\ x \in EventRecords /\ x.seq = c /\ x.source = e.source /\ x.severity = e.severity
             /\ x.kind = e.kind /\ x.said = e.said /\ x.value = e.value /\ x.t = e.t
             /\ (e.seq = 0 => [x EXCEPT !.seq = 0] = e)
  BY DEF EventRecords

LEMMA AddSays ==
    ASSUME NEW k \in Sinks, NEW e \in EventRecords
    PROVE LET z == Add(k, e)
          IN /\ z \in Sinks /\ z.count = k.count + 1 /\ DOMAIN z.heaps = DOMAIN k.heaps \cup {e.source}
             /\ \A s \in DOMAIN k.heaps : s # e.source => z.heaps[s] = k.heaps[s]
             /\ z.heaps[e.source] = Kept(HeapOf(k, e.source), EntryOf(k, e))
  <1> DEFINE z == Add(k, e)
             o == e.source
             h == HeapOf(k, o)
             x == EntryOf(k, e)
             D == DOMAIN k.heaps \cup {o}
             heaps == [s \in D |-> IF s = o THEN Kept(h, x) ELSE k.heaps[s]]
             sources == IF o \notin DOMAIN k.heaps THEN Append(k.sources, o) ELSE k.sources
  <1>1. z = [heaps |-> heaps, sources |-> sources, count |-> k.count + 1]
    BY DEF Add, HeapOf, EntryOf
  <1>2. z.heaps = heaps /\ z.sources = sources /\ z.count = k.count + 1
    BY <1>1
  <1>3. /\ k.count \in Nat /\ k.sources \in Seq(Origins) /\ DOMAIN k.heaps \in SUBSET Origins
        /\ k.heaps \in [DOMAIN k.heaps -> Seq(EventRecords)]
        /\ DOMAIN k.heaps = ToSet(k.sources)
        /\ \A s \in DOMAIN k.heaps : Retains(k.heaps[s], s, k.count)
    BY SinkFields
  <1>4. o \in Origins /\ x \in EventRecords /\ x.seq = k.count /\ x.source = o
    BY <1>3, EventFields, EntrySays DEF EntryOf
  <1>5. Retains(h, o, k.count)
    BY <1>3, NothingRetained DEF HeapOf
  <1>6. Retains(Kept(h, x), o, k.count + 1)
    <2> HIDE DEF h, x, o
    <2> QED BY <1>3, <1>4, <1>5, KeptSays
  <1>7. \A s \in D : Retains(heaps[s], s, k.count + 1) /\ heaps[s] \in Seq(EventRecords)
    <2> SUFFICES ASSUME NEW s \in D PROVE Retains(heaps[s], s, k.count + 1)
      BY DEF Retains
    <2>1. CASE s = o
      BY <1>6, <2>1
    <2>2. CASE s # o
      <3>1. s \in DOMAIN k.heaps /\ heaps[s] = k.heaps[s] /\ Retains(k.heaps[s], s, k.count)
        BY <1>3, <2>2
      <3> DEFINE g == k.heaps[s]
      <3>2. g \in Seq(EventRecords) /\ Heap(g, Len(g)) /\ Distinct(g, Len(g))
              /\ \A y \in ToSet(g) : y.source = s /\ y.seq < k.count
        BY <3>1 DEF Retains
      <3> HIDE DEF g
      <3>3. \A y \in ToSet(g) : y \in EventRecords
        BY <3>2, EntriesOf DEF Values, Entries
      <3>4. \A y \in ToSet(g) : y.source = s /\ y.seq < k.count + 1
        BY <1>3, <3>2, <3>3, EventFields
      <3>5. Retains(g, s, k.count + 1)
        BY <3>2, <3>4 DEF Retains
      <3> QED BY <3>1, <3>5 DEF g
    <2> QED BY <2>1, <2>2
  <1>8. D \in SUBSET Origins /\ DOMAIN heaps = D
    BY <1>3, <1>4
  <1>9. heaps \in [D -> Seq(EventRecords)]
    <2>1. \A s \in D : heaps[s] \in Seq(EventRecords)
      BY <1>7
    <2> QED BY <2>1
  <1>10. sources \in Seq(Origins) /\ ToSet(sources) = D
    <2>1. CASE o \notin DOMAIN k.heaps
      <3>1. Append(k.sources, o) \in Seq(Origins) /\ ToSet(Append(k.sources, o)) = ToSet(k.sources) \cup {o}
        <4> DEFINE q == k.sources
        <4>1. q \in Seq(Origins) /\ Append(q, o) \in Seq(Origins) /\ Len(Append(q, o)) = Len(q) + 1 /\ Len(q) \in Nat
          BY <1>3, <1>4
        <4>2. Append(q, o)[Len(q) + 1] = o /\ \A i \in 1 .. Len(q) : Append(q, o)[i] = q[i]
          BY <1>3, <1>4
        <4> HIDE DEF q
        <4>3. 1 .. Len(q) + 1 = (1 .. Len(q)) \cup {Len(q) + 1}
          BY <4>1
        <4>4. ToSet(Append(q, o)) = {Append(q, o)[i] : i \in 1 .. Len(q) + 1} /\ ToSet(q) = {q[i] : i \in 1 .. Len(q)}
          BY <4>1 DEF ToSet
        <4>5. {Append(q, o)[i] : i \in 1 .. Len(q)} = {q[i] : i \in 1 .. Len(q)}
          BY <4>2
        <4> QED BY <4>1, <4>2, <4>3, <4>4, <4>5 DEF q
      <3> QED BY <1>3, <2>1, <3>1
    <2>2. CASE o \in DOMAIN k.heaps
      BY <1>3, <2>2
    <2> QED BY <2>1, <2>2
  <1> HIDE DEF heaps, sources, D, z, h, x
  <1>11. z \in SinkRecords
    <2>1. heaps \in UNION {[E -> Seq(EventRecords)] : E \in SUBSET Origins}
      BY <1>8, <1>9
    <2>2. k.count + 1 \in Nat
      BY <1>3
    <2> QED BY <1>1, <1>10, <2>1, <2>2 DEF SinkRecords
  <1>12. z \in Sinks
    BY <1>2, <1>7, <1>8, <1>10, <1>11 DEF Sinks
  <1>13. heaps[o] = Kept(h, x) /\ \A s \in DOMAIN k.heaps : s # o => heaps[s] = k.heaps[s]
    BY DEF heaps, D
  <1> QED BY <1>2, <1>8, <1>12, <1>13 DEF D, z, h, x

\* The sinks after each of the events.
SinksAfter(a, p) ==
    /\ a \in [0 .. Len(p) -> Sinks] /\ a[0] = NoSink
    /\ \A j \in 1 .. Len(p) : a[j] = Add(a[j - 1], p[j])

LEMMA MaxUpto == ASSUME NEW k \in Nat, k >= 1 PROVE Max(1 .. k) = k /\ (1 .. k) \ {k} = 1 .. k - 1
  <1>1. IsFiniteSet(1 .. k) /\ 1 .. k \in SUBSET Int /\ 1 .. k # {} /\ k \in 1 .. k
    <2>1. IsFiniteSet(1 .. k)
      BY FS_Interval
    <2> QED BY <2>1
  <1>2. Max(1 .. k) \in 1 .. k /\ \A y \in 1 .. k : Max(1 .. k) >= y
    BY <1>1, MaxOf
  <1> DEFINE m == Max(1 .. k)
  <1> HIDE DEF m
  <1>3. m = k
    BY <1>1, <1>2 DEF m
  <1> QED BY <1>3 DEF m

LEMMA SinksFold ==
    ASSUME NEW p \in Seq(EventRecords)
    PROVE \E a : SinksAfter(a, p) /\ FoldLeft(Add, NoSink, p) = a[Len(p)]
  <1> DEFINE n == Len(p)
             I == 1 .. n
             c == [t \in SUBSET I |-> Max(t)]
             step == [q \in I \X Sinks |-> Add(q[2], p[q[1]])]
             g == CHOOSE h : h = [t \in SUBSET DOMAIN p |->
                                    IF t = {} THEN NoSink ELSE Add(h[t \ {Max(t)}], p[Max(t)])]
  <1>1. FoldLeft(Add, NoSink, p) = g[DOMAIN p]
    BY DEF FoldLeft, MapThenFoldSet
  <1>2. n \in Nat /\ DOMAIN p = I /\ \A i \in I : p[i] \in EventRecords
    OBVIOUS
  <1>3. IsFiniteSet(I) /\ I \in SUBSET Int
    BY <1>2, FS_Interval
  <1>4. Choosing(c, I)
    <2> SUFFICES ASSUME NEW t \in SUBSET I, t # {} PROVE Max(t) \in t
      BY DEF Choosing
    <2>1. IsFiniteSet(t) /\ t \in SUBSET Int
      BY <1>3, FS_Subset
    <2> QED BY <2>1, MaxOf
  <1>5. step \in [I \X Sinks -> Sinks]
    <2> SUFFICES ASSUME NEW q \in I \X Sinks PROVE Add(q[2], p[q[1]]) \in Sinks
      OBVIOUS
    <2>1. q[2] \in Sinks /\ p[q[1]] \in EventRecords
      BY <1>2
    <2> QED BY <2>1, AddSays
  <1>6. \A t \in SUBSET I : t # {} => c[t] = Max(t) /\ c[t] \in I
    BY <1>4 DEF Choosing
  <1>7. \A i \in I, k \in Sinks : step[<<i, k>>] = Add(k, p[i])
    OBVIOUS
  <1> HIDE DEF I, c, step
  <1>8. PICK h \in [SUBSET I -> Sinks] : Folds(h, NoSink, step, c, I)
    BY <1>3, <1>4, <1>5, NoSinkSound, FoldsExist
  <1>9. h = [t \in SUBSET I |-> IF t = {} THEN NoSink ELSE step[<<c[t], h[t \ {c[t]}]>>]]
    BY <1>8 DEF Folds
  <1>10. \A t \in SUBSET I : t # {} => step[<<c[t], h[t \ {c[t]}]>>] = Add(h[t \ {Max(t)}], p[Max(t)])
    <2> SUFFICES ASSUME NEW t \in SUBSET I, t # {}
                 PROVE step[<<c[t], h[t \ {c[t]}]>>] = Add(h[t \ {Max(t)}], p[Max(t)])
      OBVIOUS
    <2>1. c[t] = Max(t) /\ c[t] \in I /\ h[t \ {c[t]}] \in Sinks
      BY <1>6, <1>8
    <2> QED BY <1>7, <2>1
  <1>11. h = [t \in SUBSET DOMAIN p |-> IF t = {} THEN NoSink ELSE Add(h[t \ {Max(t)}], p[Max(t)])]
    BY <1>2, <1>9, <1>10
  <1>12. g = [t \in SUBSET DOMAIN p |-> IF t = {} THEN NoSink ELSE Add(g[t \ {Max(t)}], p[Max(t)])]
    BY <1>11
  <1> HIDE DEF g
  <1>13. \A t \in SUBSET I : g[t] = IF t = {} THEN NoSink ELSE Add(g[t \ {Max(t)}], p[Max(t)])
    BY <1>2, <1>12
  <1> DEFINE a == [k \in 0 .. n |-> g[1 .. k]]
             P == {k \in 0 .. n : g[1 .. k] \in Sinks}
  <1>14. g[1 .. 0] = NoSink
    <2>1. 1 .. 0 = {}
      OBVIOUS
    <2>2. {} \in SUBSET I
      OBVIOUS
    <2> QED BY <1>13, <2>1, <2>2
  <1>15. \A k \in 1 .. n : g[1 .. k] = Add(g[1 .. k - 1], p[k])
    <2> SUFFICES ASSUME NEW k \in 1 .. n PROVE g[1 .. k] = Add(g[1 .. k - 1], p[k])
      OBVIOUS
    <2> DEFINE t == 1 .. k
               r == 1 .. k - 1
    <2>1. t \in SUBSET I /\ t # {}
      BY <1>2 DEF I
    <2>2. Max(t) = k /\ t \ {k} = r
      BY <1>2, MaxUpto
    <2> HIDE DEF t, r
    <2>3. g[t] = Add(g[t \ {Max(t)}], p[Max(t)])
      BY <1>13, <2>1
    <2>4. g[t] = Add(g[r], p[k])
      BY <2>2, <2>3
    <2> QED BY <2>4 DEF t, r
  <1>16. \A k \in 0 .. n : k \in P
    <2>1. 0 \in P
      BY <1>2, <1>14, NoSinkSound
    <2>2. ASSUME NEW k \in 0 .. n, k \in P /\ k # n PROVE k + 1 \in P
      <3>1. k + 1 \in 1 .. n /\ (k + 1) - 1 = k /\ g[1 .. k] \in Sinks
        BY <1>2, <2>2
      <3>2. g[1 .. k + 1] = Add(g[1 .. k], p[k + 1])
        BY <1>15, <3>1
      <3>3. p[k + 1] \in EventRecords
        BY <1>2, <3>1 DEF I
      <3>4. g[1 .. k + 1] \in Sinks
        BY <3>1, <3>2, <3>3, AddSays
      <3> QED BY <1>2, <3>1, <3>4
    <2> HIDE DEF P
    <2> QED BY <1>2, <2>1, <2>2, Stepwise
  <1>17. SinksAfter(a, p)
    <2>1. a \in [0 .. n -> Sinks]
      BY <1>16
    <2>2. a[0] = NoSink
      BY <1>2, <1>14
    <2>3. \A j \in 1 .. n : a[j] = Add(a[j - 1], p[j])
      <3> SUFFICES ASSUME NEW j \in 1 .. n PROVE a[j] = Add(a[j - 1], p[j])
        OBVIOUS
      <3>1. j \in 0 .. n /\ j - 1 \in 0 .. n
        BY <1>2
      <3> QED BY <1>15, <3>1
    <2> HIDE DEF a
    <2> QED BY <2>1, <2>2, <2>3 DEF SinksAfter, n
  <1>18. a[n] = g[DOMAIN p]
    BY <1>2 DEF I
  <1> QED BY <1>1, <1>17, <1>18

\* What the sink holds of the events it has been given so far: of each that is not
\* retained its source has only ones as severe or more, and no room.
NumberedOf(p, j) == [p[j] EXCEPT !.seq = j - 1]

Accounted(k, p, j) ==
    LET h == k.heaps[p[j].source] IN
    /\ p[j].source \in DOMAIN k.heaps
    /\ \/ NumberedOf(p, j) \in ToSet(h)
       \/ Len(h) >= PerSource /\ \A y \in ToSet(h) : y.severity <= p[j].severity

Accounts(k, p, n) ==
    /\ k.count = n
    /\ \A j \in 1 .. n : Accounted(k, p, j)
    /\ \A s \in DOMAIN k.heaps : \A y \in ToSet(k.heaps[s]) : \E j \in 1 .. n : y = NumberedOf(p, j)

LEMMA AccountedOn ==
    ASSUME NEW p \in Seq(EventRecords), NEW n \in 0 .. Len(p), n # Len(p), NEW k \in Sinks, Accounts(k, p, n)
    PROVE Accounts(Add(k, p[n + 1]), p, n + 1)
  <1> DEFINE e == p[n + 1]
             o == e.source
             h == HeapOf(k, o)
             x == EntryOf(k, e)
             z == Add(k, e)
             g == Kept(h, x)
  <1>1. n + 1 \in 1 .. Len(p) /\ n \in Nat /\ e \in EventRecords
    BY LenProperties
  <1>2. k.count = n /\ k.count \in Nat /\ (\A j \in 1 .. n : Accounted(k, p, j))
        /\ \A s \in DOMAIN k.heaps : \A y \in ToSet(k.heaps[s]) : \E j \in 1 .. n : y = NumberedOf(p, j)
    BY SinkFields DEF Accounts
  <1>3. /\ z \in Sinks /\ z.count = n + 1 /\ DOMAIN z.heaps = DOMAIN k.heaps \cup {o}
        /\ \A s \in DOMAIN k.heaps : s # o => z.heaps[s] = k.heaps[s]
        /\ z.heaps[o] = g
    BY <1>1, <1>2, AddSays
  <1>4. x = NumberedOf(p, n + 1) /\ x \in EventRecords /\ x.seq = n /\ x.source = o /\ x.severity = e.severity
    <2>1. x = [e EXCEPT !.seq = n] /\ (n + 1) - 1 = n
      BY <1>1, <1>2 DEF EntryOf
    <2> DEFINE y == [e EXCEPT !.seq = n]
    <2>2. y \in EventRecords /\ y.seq = n /\ y.source = e.source /\ y.severity = e.severity
      <3> HIDE DEF e
      <3> QED BY <1>1, EntrySays
    <2>3. NumberedOf(p, n + 1) = y
      BY <2>1 DEF NumberedOf
    <2> HIDE DEF y, x, e
    <2> QED BY <2>1, <2>2, <2>3 DEF e, y
  <1>5. Retains(h, o, n)
    BY <1>2, SinkFields, NothingRetained DEF HeapOf
  <1>6. /\ Retains(g, o, n + 1) /\ ToSet(g) \subseteq ToSet(h) \cup {x}
        /\ Len(h) < PerSource => ToSet(g) = ToSet(h) \cup {x}
        /\ Len(h) >= PerSource => Len(g) >= PerSource /\ KeepsWorst(g, h, x)
    <2>1. n \in Nat /\ x \in EventRecords /\ x.source = o /\ x.seq = n
      BY <1>1, <1>4
    <2> HIDE DEF h, x, o, e
    <2> QED BY <1>5, <2>1, KeptSays, Zenon
  <1>7. h \in Seq(EventRecords) /\ Len(h) \in Nat
    BY <1>5 DEF Retains
  <1>8. \A y \in ToSet(h) : y.severity \in Int
    BY <1>7, EntriesOf, EventFields DEF Values, Entries
  <1>9. \A y \in ToSet(g) : y.severity \in Int
    <2>1. g \in Seq(EventRecords)
      BY <1>6 DEF Retains
    <2> HIDE DEF g
    <2> QED BY <2>1, EntriesOf, EventFields DEF Values, Entries
  <1>10. \A s \in DOMAIN z.heaps : \A y \in ToSet(z.heaps[s]) : \E j \in 1 .. n + 1 : y = NumberedOf(p, j)
    <2> SUFFICES ASSUME NEW s \in DOMAIN z.heaps, NEW y \in ToSet(z.heaps[s])
                 PROVE \E j \in 1 .. n + 1 : y = NumberedOf(p, j)
      OBVIOUS
    <2>1. CASE s = o /\ y = x
      BY <1>1, <1>4, <2>1
    <2>2. CASE ~(s = o /\ y = x)
      <3>1. s \in DOMAIN k.heaps /\ y \in ToSet(k.heaps[s])
        <4>1. CASE s = o
          <5>1. y \in ToSet(h)
            BY <1>3, <1>6, <2>2, <4>1
          <5> QED BY <4>1, <5>1, NothingRetained DEF HeapOf
        <4>2. CASE s # o
          BY <1>3, <4>2
        <4> QED BY <4>1, <4>2
      <3>2. PICK j \in 1 .. n : y = NumberedOf(p, j)
        BY <1>2, <3>1
      <3> QED BY <1>1, <3>2
    <2> QED BY <2>1, <2>2
  <1>11. ASSUME NEW j \in 1 .. n + 1 PROVE Accounted(z, p, j)
    <2>1. CASE j = n + 1
      <3>1. x \in ToSet(g) \/ (Len(g) >= PerSource /\ \A y \in ToSet(g) : y.severity <= e.severity)
        <4>1. CASE Len(h) < PerSource
          BY <1>6, <4>1
        <4>2. CASE Len(h) >= PerSource
          BY <1>4, <1>6, <4>2 DEF KeepsWorst
        <4> QED BY <1>7, <4>1, <4>2, BoundsAssumption
      <3> HIDE DEF x, g, z, h
      <3> QED BY <1>3, <1>4, <2>1, <3>1 DEF Accounted
    <2>2. CASE j # n + 1
      <3>1. j \in 1 .. n
        BY <1>1, <2>2
      <3> DEFINE s == p[j].source
                 d == NumberedOf(p, j)
                 f == k.heaps[s]
      <3>2. /\ s \in DOMAIN k.heaps
            /\ d \in ToSet(f) \/ (Len(f) >= PerSource /\ \A y \in ToSet(f) : y.severity <= p[j].severity)
        BY <1>2, <3>1 DEF Accounted
      <3>3. p[j] \in EventRecords /\ d.severity = p[j].severity
        <4>1. j \in 1 .. Len(p)
          BY <3>1, LenProperties
        <4>2. p[j] \in EventRecords
          BY <4>1
        <4>3. j - 1 \in Nat
          BY <3>1
        <4> QED BY <4>2, <4>3, EntrySays DEF NumberedOf
      <3>4. p[j].severity \in Int
        BY <3>3, EventFields
      <3>5. CASE s # o
        <4>1. z.heaps[s] = f /\ s \in DOMAIN z.heaps
          BY <1>3, <3>2, <3>5
        <4> HIDE DEF z
        <4> QED BY <3>2, <4>1 DEF Accounted
      <3>6. CASE s = o
        <4>1. f = h /\ z.heaps[s] = g /\ s \in DOMAIN z.heaps
          BY <1>3, <3>2, <3>6 DEF HeapOf
        <4> HIDE DEF z, s, o, f, h, g, d, x
        <4>2. d \in ToSet(g) \/ (Len(g) >= PerSource /\ \A y \in ToSet(g) : y.severity <= p[j].severity)
          <5>1. CASE Len(h) < PerSource
            <6>1. ~(Len(h) >= PerSource)
              BY <1>7, <5>1, BoundsAssumption
            <6> QED BY <1>6, <3>2, <4>1, <5>1, <6>1
          <5>2. CASE Len(h) >= PerSource /\ d \in ToSet(h)
            <6>1. d \in ToSet(g) \/ \A y \in ToSet(g) : y.severity <= d.severity
              BY <1>6, <5>2 DEF KeepsWorst
            <6> QED BY <1>6, <3>3, <5>2, <6>1
          <5>3. CASE Len(h) >= PerSource /\ d \notin ToSet(h)
            <6>1. PICK y \in ToSet(h) : \A w \in ToSet(g) : w.severity <= y.severity
              BY <1>6, <5>3 DEF KeepsWorst
            <6>2. y.severity <= p[j].severity
              BY <3>2, <4>1, <5>3
            <6>3. \A w \in ToSet(g) : w.severity <= p[j].severity
              BY <1>8, <1>9, <3>4, <6>1, <6>2
            <6> QED BY <1>6, <5>3, <6>3
          <5> QED BY <1>7, <5>1, <5>2, <5>3, BoundsAssumption
        <4> QED BY <4>1, <4>2 DEF Accounted, s, d
      <3> QED BY <3>5, <3>6
    <2> QED BY <2>1, <2>2
  <1> HIDE DEF z
  <1>12. Accounts(z, p, n + 1)
    BY <1>3, <1>10, <1>11 DEF Accounts
  <1> QED BY <1>12 DEF z

LEMMA SinkAccounts ==
    ASSUME NEW p \in Seq(EventRecords)
    PROVE LET k == FoldLeft(Add, NoSink, p) IN k \in Sinks /\ Accounts(k, p, Len(p))
  <1>1. PICK a : SinksAfter(a, p) /\ FoldLeft(Add, NoSink, p) = a[Len(p)]
    BY SinksFold
  <1> DEFINE n == Len(p)
             P == {j \in 0 .. n : Accounts(a[j], p, j)}
  <1>2. n \in Nat /\ a \in [0 .. n -> Sinks] /\ a[0] = NoSink /\ \A j \in 1 .. n : a[j] = Add(a[j - 1], p[j])
    BY <1>1 DEF SinksAfter
  <1>3. 0 \in P
    <2>1. NoSink.count = 0 /\ DOMAIN NoSink.heaps = {}
      BY DEF NoSink
    <2> QED BY <1>2, <2>1 DEF Accounts
  <1>4. ASSUME NEW j \in 0 .. n, j \in P /\ j # n PROVE j + 1 \in P
    <2>1. Accounts(a[j], p, j) /\ a[j] \in Sinks /\ j + 1 \in 1 .. n /\ j + 1 \in 0 .. n /\ (j + 1) - 1 = j
      BY <1>2, <1>4
    <2>2. a[j + 1] = Add(a[j], p[j + 1])
      BY <1>2, <2>1
    <2>3. Accounts(a[j + 1], p, j + 1)
      BY <1>4, <2>1, <2>2, AccountedOn
    <2> QED BY <2>1, <2>3
  <1>5. \A j \in 0 .. n : j \in P
    <2> HIDE DEF P
    <2> QED BY <1>2, <1>3, <1>4, Stepwise
  <1>6. n \in 0 .. n
    BY <1>2
  <1> QED BY <1>1, <1>2, <1>5, <1>6

-----------------------------------------------------------------------------
(* The sequences the events pass through.                                  *)

\* step takes an index up to n and a value to a value.
StepsOn(step, n, V) == step \in [(1 .. n) \X V -> V]

\* A recursion over the indices of a sequence is defined.
LEMMA RunExists ==
    ASSUME NEW n \in Nat, NEW V, NEW base \in V, NEW step, StepsOn(step, n, V)
    PROVE \E b \in [0 .. n -> V] : b[0] = base /\ \A k \in 1 .. n : b[k] = step[<<k, b[k - 1]>>]
  <1> DEFINE I == 1 .. n
             c == [t \in SUBSET I |-> Max(t)]
  <1>1. IsFiniteSet(I) /\ I \in SUBSET Int
    BY FS_Interval
  <1>2. \A t \in SUBSET I : t # {} => Max(t) \in t
    <2> SUFFICES ASSUME NEW t \in SUBSET I, t # {} PROVE Max(t) \in t
      OBVIOUS
    <2>1. IsFiniteSet(t) /\ t \in SUBSET Int
      BY <1>1, FS_Subset
    <2> QED BY <2>1, MaxOf
  <1>3. Choosing(c, I)
    BY <1>2 DEF Choosing
  <1>4. \A t \in SUBSET I : c[t] = Max(t)
    OBVIOUS
  <1>11. step \in [I \X V -> V]
    BY DEF StepsOn
  <1> HIDE DEF c, I
  <1>5. PICK h \in [SUBSET I -> V] : Folds(h, base, step, c, I)
    BY <1>1, <1>3, <1>11, FoldsExist
  <1>6. h[{}] = base /\ \A t \in SUBSET I : t # {} => h[t] = step[<<c[t], h[t \ {c[t]}]>>]
    BY <1>5, FoldsValue
  <1> DEFINE b == [k \in 0 .. n |-> h[1 .. k]]
  <1>7. \A k \in 0 .. n : 1 .. k \in SUBSET I
    BY DEF I
  <1>8. b \in [0 .. n -> V]
    BY <1>7
  <1>9. b[0] = base
    <2>1. 1 .. 0 = {} /\ 0 \in 0 .. n
      OBVIOUS
    <2> QED BY <1>6, <2>1
  <1>10. ASSUME NEW k \in 1 .. n PROVE b[k] = step[<<k, b[k - 1]>>]
    <2> DEFINE t == 1 .. k
               r == 1 .. k - 1
    <2>1. t \in SUBSET I /\ t # {} /\ k \in 0 .. n /\ k - 1 \in 0 .. n
      BY DEF I
    <2>2. Max(t) = k /\ t \ {k} = r
      BY MaxUpto
    <2>3. b[k] = h[t] /\ b[k - 1] = h[r]
      BY <2>1
    <2> HIDE DEF t, r, b, I
    <2>4. h[t] = step[<<c[t], h[t \ {c[t]}]>>] /\ c[t] = k
      BY <1>4, <1>6, <2>1, <2>2
    <2> QED BY <2>2, <2>3, <2>4
  <1> HIDE DEF b
  <1> QED BY <1>8, <1>9, <1>10

LEMMA ToSetConcat ==
    ASSUME NEW V, NEW s \in Seq(V), NEW t \in Seq(V)
    PROVE s \o t \in Seq(V) /\ ToSet(s \o t) = ToSet(s) \cup ToSet(t)
  <1> DEFINE m == Len(s)
             n == Len(t)
             u == s \o t
  <1>1. /\ m \in Nat /\ n \in Nat /\ u \in Seq(V) /\ Len(u) = m + n
        /\ \A i \in 1 .. m + n : u[i] = IF i <= m THEN s[i] ELSE t[i - m]
    BY ConcatProperties, LenProperties
  <1>2. ToSet(u) = {u[i] : i \in 1 .. m + n} /\ ToSet(s) = {s[i] : i \in 1 .. m} /\ ToSet(t) = {t[i] : i \in 1 .. n}
    BY <1>1, LenProperties DEF ToSet
  <1> HIDE DEF u, m, n
  <1>3. \A i \in 1 .. m + n : u[i] \in ToSet(s) \cup ToSet(t)
    <2> SUFFICES ASSUME NEW i \in 1 .. m + n PROVE u[i] \in ToSet(s) \cup ToSet(t)
      OBVIOUS
    <2>1. CASE i <= m
      BY <1>1, <1>2, <2>1
    <2>2. CASE ~(i <= m)
      <3>1. i - m \in 1 .. n
        BY <1>1, <2>2
      <3> QED BY <1>1, <1>2, <2>2, <3>1
    <2> QED BY <2>1, <2>2
  <1>4. \A i \in 1 .. m : s[i] \in ToSet(u)
    BY <1>1, <1>2
  <1>5. \A i \in 1 .. n : t[i] \in ToSet(u)
    <2> SUFFICES ASSUME NEW i \in 1 .. n PROVE t[i] \in ToSet(u)
      OBVIOUS
    <2>1. m + i \in 1 .. m + n /\ ~(m + i <= m) /\ (m + i) - m = i
      BY <1>1
    <2> QED BY <1>1, <1>2, <2>1
  <1> QED BY <1>1, <1>2, <1>3, <1>4, <1>5 DEF u

LEMMA FlattenSays ==
    ASSUME NEW V, NEW seqs \in Seq(Seq(V))
    PROVE /\ FlattenSeq(seqs) \in Seq(V)
          /\ ToSet(FlattenSeq(seqs)) = UNION {ToSet(seqs[i]) : i \in 1 .. Len(seqs)}
  <1> DEFINE n == Len(seqs)
             I == 1 .. n
             f == CHOOSE h : h = [i \in 1 .. n |-> IF i = 1 THEN seqs[i] ELSE h[i - 1] \o seqs[i]]
  <1>1. n \in Nat /\ \A i \in 1 .. n : seqs[i] \in Seq(V)
    OBVIOUS
  <1>2. CASE n = 0
    <2>1. seqs = <<>> /\ FlattenSeq(seqs) = <<>> /\ ToSet(<<>>) = {} /\ 1 .. n = {}
      BY <1>2 DEF FlattenSeq, ToSet
    <2>2. <<>> \in Seq(V) /\ UNION {ToSet(seqs[i]) : i \in {}} = {}
      OBVIOUS
    <2> HIDE DEF n
    <2>3. UNION {ToSet(seqs[i]) : i \in 1 .. n} = {}
      BY <2>1, <2>2
    <2> QED BY <2>1, <2>2, <2>3 DEF n
  <1>3. CASE n # 0
    <2>1. FlattenSeq(seqs) = f[n]
      BY <1>3 DEF FlattenSeq
    <2> DEFINE step == [q \in I \X Seq(V) |-> q[2] \o seqs[q[1]]]
    <2>2. step \in [I \X Seq(V) -> Seq(V)]
      <3> SUFFICES ASSUME NEW q \in I \X Seq(V) PROVE q[2] \o seqs[q[1]] \in Seq(V)
        OBVIOUS
      <3>1. q[2] \in Seq(V) /\ seqs[q[1]] \in Seq(V)
        BY <1>1
      <3> QED BY <3>1, ToSetConcat
    <2>3. <<>> \in Seq(V)
      OBVIOUS
    <2>4. \A k \in I, s \in Seq(V) : step[<<k, s>>] = s \o seqs[k]
      OBVIOUS
    <2> HIDE DEF step, n
    <2> DEFINE W == Seq(V)
               base == <<>>
    <2>12. base \in W /\ step \in [(1 .. n) \X W -> W]
      BY <2>2, <2>3 DEF n
    <2> HIDE DEF W, base
    <2>13. PICK b \in [0 .. n -> W] : b[0] = base /\ \A k \in 1 .. n : b[k] = step[<<k, b[k - 1]>>]
      <3>1. n \in Nat /\ base \in W
        BY <1>1, <2>12
      <3>2. StepsOn(step, n, W)
        BY <2>12 DEF StepsOn
      <3> QED BY <3>1, <3>2, RunExists
    <2>5. b \in [0 .. n -> Seq(V)] /\ b[0] = <<>> /\ \A k \in 1 .. n : b[k] = step[<<k, b[k - 1]>>]
      BY <2>13 DEF W, base
    <2>6. \A k \in 1 .. n : k - 1 \in 0 .. n /\ b[k - 1] \in Seq(V) /\ b[k] = b[k - 1] \o seqs[k]
      <3> SUFFICES ASSUME NEW k \in 1 .. n PROVE k - 1 \in 0 .. n /\ b[k - 1] \in Seq(V) /\ b[k] = b[k - 1] \o seqs[k]
        OBVIOUS
      <3>1. k - 1 \in 0 .. n
        BY <1>1
      <3> QED BY <2>4, <2>5, <3>1
    <2> DEFINE a == [i \in 1 .. n |-> b[i]]
    <2>7. a = [i \in 1 .. n |-> IF i = 1 THEN seqs[i] ELSE a[i - 1] \o seqs[i]]
      <3>1. ASSUME NEW i \in 1 .. n PROVE b[i] = IF i = 1 THEN seqs[i] ELSE a[i - 1] \o seqs[i]
        <4>1. CASE i = 1
          <5>1. b[0] = <<>> /\ b[1] = b[0] \o seqs[1] /\ seqs[1] \in Seq(V)
            <6>1. 1 - 1 = 0 /\ 1 \in 1 .. n
              BY <4>1
            <6> QED BY <1>1, <2>5, <2>6, <6>1
          <5>2. <<>> \o seqs[1] = seqs[1]
            BY <5>1
          <5> QED BY <4>1, <5>1, <5>2
        <4>2. CASE i # 1
          <5>1. i - 1 \in 1 .. n
            BY <1>1, <4>2
          <5> QED BY <2>6, <4>2, <5>1
        <4> QED BY <4>1, <4>2
      <3> HIDE DEF a
      <3> QED BY <3>1 DEF a
    <2>8. f = [i \in 1 .. n |-> IF i = 1 THEN seqs[i] ELSE f[i - 1] \o seqs[i]]
      <3> HIDE DEF a
      <3> QED BY <2>7 DEF n
    <2> HIDE DEF f, a
    <2> DEFINE P == {k \in 0 .. n : k >= 1 => f[k] \in Seq(V) /\ ToSet(f[k]) = UNION {ToSet(seqs[i]) : i \in 1 .. k}}
    <2>9. 0 \in P
      BY <1>1
    <2>10. ASSUME NEW k \in 0 .. n, k \in P /\ k # n PROVE k + 1 \in P
      <3>1. k + 1 \in 1 .. n /\ k + 1 \in 0 .. n /\ seqs[k + 1] \in Seq(V)
        BY <1>1, <2>10
      <3>2. CASE k = 0
        <4>1. f[1] = seqs[1] /\ 1 .. 1 = {1}
          BY <2>8, <3>1, <3>2
        <4>2. UNION {ToSet(seqs[i]) : i \in 1 .. 1} = ToSet(seqs[1])
          BY <4>1
        <4> QED BY <3>1, <3>2, <4>1, <4>2
      <3>3. CASE k # 0
        <4>1. f[k] \in Seq(V) /\ ToSet(f[k]) = UNION {ToSet(seqs[i]) : i \in 1 .. k}
          BY <2>10, <3>3
        <4>2. f[k + 1] = f[k] \o seqs[k + 1]
          <5>1. (k + 1) - 1 = k /\ k + 1 # 1
            BY <3>3
          <5>2. f[k + 1] = f[(k + 1) - 1] \o seqs[k + 1]
            BY <2>8, <3>1, <5>1
          <5> QED BY <5>1, <5>2
        <4>3. f[k + 1] \in Seq(V) /\ ToSet(f[k + 1]) = ToSet(f[k]) \cup ToSet(seqs[k + 1])
          BY <3>1, <4>1, <4>2, ToSetConcat
        <4>4. 1 .. k + 1 = (1 .. k) \cup {k + 1}
          OBVIOUS
        <4>5. UNION {ToSet(seqs[i]) : i \in 1 .. k + 1}
                = (UNION {ToSet(seqs[i]) : i \in 1 .. k}) \cup ToSet(seqs[k + 1])
          BY <4>4
        <4> QED BY <3>1, <4>1, <4>3, <4>5
      <3> QED BY <3>2, <3>3
    <2>11. n \in P
      <3> HIDE DEF P
      <3>1. \A k \in 0 .. n : k \in P
        BY <1>1, <2>9, <2>10, Stepwise
      <3> QED BY <1>1, <3>1
    <2> QED BY <1>1, <1>3, <2>1, <2>11 DEF n
  <1> QED BY <1>2, <1>3

LEMMA MaterializedSays ==
    ASSUME NEW k \in Sinks
    PROVE /\ Materialized(k) \in Seq(EventRecords)
          /\ \A e : e \in ToSet(Materialized(k)) <=> \E s \in DOMAIN k.heaps : e \in ToSet(k.heaps[s])
  <1> DEFINE seqs == [i \in DOMAIN k.sources |-> k.heaps[k.sources[i]]]
             n == Len(k.sources)
  <1>1. /\ k.sources \in Seq(Origins) /\ DOMAIN k.heaps = ToSet(k.sources)
        /\ \A s \in DOMAIN k.heaps : k.heaps[s] \in Seq(EventRecords)
    BY SinkFields
  <1>2. n \in Nat /\ DOMAIN k.sources = 1 .. n /\ DOMAIN k.heaps = {k.sources[i] : i \in 1 .. n}
    BY <1>1 DEF ToSet
  <1>3. seqs \in Seq(Seq(EventRecords)) /\ Len(seqs) = n /\ \A i \in 1 .. n : seqs[i] = k.heaps[k.sources[i]]
    <2>1. seqs \in [1 .. n -> Seq(EventRecords)]
      BY <1>1, <1>2
    <2>2. \A i \in 1 .. n : seqs[i] = k.heaps[k.sources[i]]
      BY <1>2
    <2> HIDE DEF seqs, n
    <2>3. seqs \in Seq(Seq(EventRecords))
      BY <1>2, <2>1, SeqDef
    <2>4. Len(seqs) = n
      BY <1>2, <2>1, <2>3
    <2> QED BY <2>2, <2>3, <2>4
  <1>4. Materialized(k) = FlattenSeq(seqs)
    BY DEF Materialized
  <1> HIDE DEF seqs, n
  <1>5. FlattenSeq(seqs) \in Seq(EventRecords)
          /\ ToSet(FlattenSeq(seqs)) = UNION {ToSet(seqs[i]) : i \in 1 .. Len(seqs)}
    BY <1>3, FlattenSays
  <1>6. \A e : e \in ToSet(FlattenSeq(seqs)) <=> \E i \in 1 .. n : e \in ToSet(k.heaps[k.sources[i]])
    BY <1>3, <1>5
  <1>7. \A e : (\E i \in 1 .. n : e \in ToSet(k.heaps[k.sources[i]]))
          <=> \E s \in DOMAIN k.heaps : e \in ToSet(k.heaps[s])
    BY <1>2
  <1> QED BY <1>4, <1>5, <1>6, <1>7

\* By rising time, and what has none at the end.
Chronological(s) ==
    \A i, j \in DOMAIN s : i < j => s[j].t = None \/ (s[i].t # None /\ s[i].t <= s[j].t)

\* r is items in an order in which the keys do not rise.
Falls(r, items, keys, n, V) ==
    /\ r \in Seq(V) /\ Len(r) = n /\ ToSet(r) = {items[i] : i \in 1 .. n}
    /\ \E at \in [1 .. n -> 1 .. n] :
          /\ \A k \in 1 .. n : r[k] = items[at[k]]
          /\ \A k, j \in 1 .. n : k < j => keys[at[k]] >= keys[at[j]]

LEMMA RankedFalls ==
    ASSUME NEW n \in Nat, NEW keys \in [1 .. n -> Int], NEW V, NEW items \in [1 .. n -> V]
    PROVE Falls(Ranked(items, keys), items, keys, n, V)
  <1> DEFINE I == 1 .. n
             R == Falling(keys, n)
             l == Ranked(items, keys)
  <1>1. PICK at : Enumerates(at, I, R) /\ Listing(l, items, at, I)
    BY RankedOrder
  <1>2. Cardinality(I) = n
    BY FS_Interval
  <1> HIDE DEF R, l
  <1>3. /\ at \in [1 .. n -> I] /\ (\A k, j \in 1 .. n : k < j => <<at[k], at[j]>> \in R)
        /\ \A i \in I : \E k \in 1 .. n : at[k] = i
    BY <1>1, <1>2 DEF Enumerates
  <1>4. l = [k \in 1 .. n |-> items[at[k]]]
    BY <1>1, <1>2 DEF Listing
  <1>5. l \in [1 .. n -> V] /\ DOMAIN l = 1 .. n
    BY <1>3, <1>4
  <1>6. l \in Seq(V)
    BY <1>5, SeqDef
  <1>7. Len(l) = n
    BY <1>5, <1>6
  <1>8. ToSet(l) = {items[i] : i \in 1 .. n}
    BY <1>3, <1>4, <1>5 DEF ToSet
  <1>9. \A k, j \in 1 .. n : k < j => keys[at[k]] >= keys[at[j]]
    <2> SUFFICES ASSUME NEW k \in 1 .. n, NEW j \in 1 .. n, k < j PROVE keys[at[k]] >= keys[at[j]]
      OBVIOUS
    <2>1. at[k] \in 1 .. n /\ at[j] \in 1 .. n /\ <<at[k], at[j]>> \in R
      BY <1>3
    <2>2. keys[at[k]] > keys[at[j]] \/ (keys[at[k]] = keys[at[j]] /\ at[k] < at[j])
      BY <2>1, FallingPairs DEF R
    <2>3. keys[at[k]] \in Int /\ keys[at[j]] \in Int
      BY <2>1
    <2> QED BY <2>2, <2>3
  <1>10. \A k \in 1 .. n : l[k] = items[at[k]]
    BY <1>4
  <1> QED BY <1>3, <1>6, <1>7, <1>8, <1>9, <1>10 DEF Falls, l

\* Sifting keeps the order.
LEMMA SiftedOrder ==
    ASSUME NEW V, NEW s \in Seq(V), NEW I \in SUBSET DOMAIN s
    PROVE \E at \in [DOMAIN Sifted(s, I) -> I] :
             /\ \A k \in DOMAIN Sifted(s, I) : Sifted(s, I)[k] = s[at[k]]
             /\ \A k, j \in DOMAIN Sifted(s, I) : k < j => at[k] < at[j]
  <1> DEFINE l == Sifted(s, I)
             n == Cardinality(I)
  <1>1. DOMAIN s = 1 .. Len(s) /\ Len(s) \in Nat /\ \A i \in DOMAIN s : s[i] \in V
    OBVIOUS
  <1>2. IsFiniteSet(DOMAIN s)
    <2>1. PICK k \in Nat : k = Len(s)
      BY <1>1
    <2>2. IsFiniteSet(1 .. k)
      BY FS_Interval
    <2> QED BY <1>1, <2>1, <2>2
  <1>3. IsFiniteSet(I) /\ n \in Nat
    BY <1>2, FS_Subset, FS_CardinalityType
  <1>4. I \in SUBSET Int /\ \A i \in I : s[i] \in V
    BY <1>1
  <1>5. PICK at : Enumerates(at, I, Less) /\ Listing(l, s, at, I)
    BY <1>3, <1>4, InOrder
  <1> HIDE DEF l, n
  <1>6. l = [k \in 1 .. n |-> s[at[k]]] /\ at \in [1 .. n -> I]
        /\ \A k, j \in 1 .. n : k < j => <<at[k], at[j]>> \in Less
    BY <1>5 DEF Listing, Enumerates, n
  <1>7. DOMAIN l = 1 .. n /\ \A k \in 1 .. n : l[k] = s[at[k]]
    BY <1>6
  <1>8. \A k, j \in 1 .. n : k < j => at[k] < at[j]
    BY <1>6 DEF Less
  <1> QED BY <1>6, <1>7, <1>8 DEF l

LEMMA SiftedChronological ==
    ASSUME NEW s \in Seq(EventRecords), Chronological(s), NEW I \in SUBSET DOMAIN s
    PROVE Chronological(Sifted(s, I))
  <1> DEFINE l == Sifted(s, I)
  <1>1. PICK at \in [DOMAIN l -> I] : /\ \A k \in DOMAIN l : l[k] = s[at[k]]
                                      /\ \A k, j \in DOMAIN l : k < j => at[k] < at[j]
    BY SiftedOrder
  <1> HIDE DEF l
  <1>2. \A k \in DOMAIN l : at[k] \in DOMAIN s
    BY <1>1
  <1>3. Chronological(l)
    BY <1>1, <1>2 DEF Chronological
  <1> QED BY <1>3 DEF l

LEMMA LaidSays ==
    ASSUME NEW s \in Seq(EventRecords)
    PROVE Laid(s) \in Seq(EventRecords) /\ ToSet(Laid(s)) = ToSet(s) /\ Chronological(Laid(s))
  <1> DEFINE timed == Sifted(s, {i \in DOMAIN s : s[i].t # None})
             rest == Sifted(s, {i \in DOMAIN s : s[i].t = None})
             keys == [i \in DOMAIN timed |-> -timed[i].t]
             r == Ranked(timed, keys)
             l == r \o rest
             n == Len(timed)
  <1>1. Laid(s) = l
    BY DEF Laid, Those
  <1>2. timed \in Seq(EventRecords) /\ ToSet(timed) = {s[i] : i \in {i \in DOMAIN s : s[i].t # None}}
    BY SiftedSays
  <1>3. rest \in Seq(EventRecords) /\ ToSet(rest) = {s[i] : i \in {i \in DOMAIN s : s[i].t = None}}
    BY SiftedSays
  <1>4. ToSet(timed) \cup ToSet(rest) = ToSet(s) /\ (\A e \in ToSet(timed) : e.t # None)
          /\ \A e \in ToSet(rest) : e.t = None
    BY <1>2, <1>3 DEF ToSet
  <1> HIDE DEF timed, rest, n
  <1>5. n \in Nat /\ DOMAIN timed = 1 .. n /\ timed \in [1 .. n -> EventRecords]
        /\ (\A i \in 1 .. n : timed[i] \in ToSet(timed)) /\ ToSet(timed) = {timed[i] : i \in 1 .. n}
    BY <1>2 DEF n, ToSet
  <1>6. \A i \in 1 .. n : timed[i].t \in Int /\ timed[i] \in EventRecords
    BY <1>4, <1>5, EventFields
  <1>7. keys \in [1 .. n -> Int] /\ \A i \in 1 .. n : keys[i] = -timed[i].t
    BY <1>5, <1>6
  <1> HIDE DEF keys
  <1>8. Falls(r, timed, keys, n, EventRecords)
    BY <1>5, <1>7, RankedFalls
  <1> HIDE DEF r
  <1>9. r \in Seq(EventRecords) /\ Len(r) = n /\ ToSet(r) = ToSet(timed)
    BY <1>5, <1>8 DEF Falls
  <1>10. PICK at \in [1 .. n -> 1 .. n] : /\ \A k \in 1 .. n : r[k] = timed[at[k]]
                                         /\ \A k, j \in 1 .. n : k < j => keys[at[k]] >= keys[at[j]]
    BY <1>8 DEF Falls
  <1>11. \A k \in 1 .. n : r[k].t \in Int /\ r[k].t # None
    <2> SUFFICES ASSUME NEW k \in 1 .. n PROVE r[k].t \in Int /\ r[k].t # None
      OBVIOUS
    <2>1. at[k] \in 1 .. n /\ r[k] = timed[at[k]]
      BY <1>10
    <2> QED BY <1>4, <1>5, <1>6, <2>1
  <1>12. \A k, j \in 1 .. n : k < j => r[k].t <= r[j].t
    <2> SUFFICES ASSUME NEW k \in 1 .. n, NEW j \in 1 .. n, k < j PROVE r[k].t <= r[j].t
      OBVIOUS
    <2>1. at[k] \in 1 .. n /\ at[j] \in 1 .. n /\ keys[at[k]] >= keys[at[j]]
      BY <1>10
    <2>2. -timed[at[k]].t >= -timed[at[j]].t /\ timed[at[k]].t \in Int /\ timed[at[j]].t \in Int
      BY <1>6, <1>7, <2>1
    <2>3. timed[at[k]].t <= timed[at[j]].t
      BY <2>2
    <2> QED BY <1>10, <2>3
  <1>13. l \in Seq(EventRecords) /\ ToSet(l) = ToSet(s)
    <2>1. r \in Seq(EventRecords) /\ rest \in Seq(EventRecords)
      BY <1>3, <1>9
    <2>2. l \in Seq(EventRecords) /\ ToSet(l) = ToSet(r) \cup ToSet(rest)
      BY <2>1, ToSetConcat
    <2> HIDE DEF l
    <2> QED BY <1>4, <1>9, <2>2
  <1> DEFINE m == Len(rest)
  <1>14. /\ m \in Nat /\ DOMAIN l = 1 .. n + m
         /\ \A i \in 1 .. n + m : l[i] = IF i <= n THEN r[i] ELSE rest[i - n]
         /\ \A i \in 1 .. m : rest[i] \in ToSet(rest)
    <2>1. m \in Nat /\ \A i \in 1 .. m : rest[i] \in ToSet(rest)
      BY <1>3 DEF ToSet
    <2>2. Len(l) = n + m /\ \A i \in 1 .. n + m : l[i] = IF i <= n THEN r[i] ELSE rest[i - n]
      BY <1>3, <1>9, ConcatProperties
    <2>3. DOMAIN l = 1 .. Len(l)
      BY <1>13
    <2> QED BY <2>1, <2>2, <2>3
  <1> HIDE DEF m, l
  <1>15. Chronological(l)
    <2> SUFFICES ASSUME NEW i \in 1 .. n + m, NEW j \in 1 .. n + m, i < j
                 PROVE l[j].t = None \/ (l[i].t # None /\ l[i].t <= l[j].t)
      BY <1>14 DEF Chronological
    <2>1. CASE j <= n
      <3>1. i \in 1 .. n /\ j \in 1 .. n /\ l[i] = r[i] /\ l[j] = r[j]
        BY <1>5, <1>14, <2>1
      <3> QED BY <1>11, <1>12, <3>1
    <2>2. CASE ~(j <= n)
      <3>1. j - n \in 1 .. m /\ l[j] = rest[j - n]
        BY <1>5, <1>14, <2>2
      <3> QED BY <1>4, <1>14, <3>1
    <2> QED BY <2>1, <2>2
  <1> QED BY <1>1, <1>13, <1>15

\* What the bound of the document keeps is as severe as what it drops.
LEMMA BoundedSays ==
    ASSUME NEW s \in Seq(EventRecords)
    PROVE /\ Bounded(s) \in Seq(EventRecords) /\ Len(Bounded(s)) <= Len(s)
          /\ ToSet(Bounded(s)) \subseteq ToSet(s)
          /\ Chronological(s) => Chronological(Bounded(s))
          /\ \A x \in ToSet(s), y \in ToSet(Bounded(s)) : x \notin ToSet(Bounded(s)) => y.severity <= x.severity
  <1> DEFINE better(i, j) == s[i].severity < s[j].severity \/ (s[i].severity = s[j].severity /\ i > j)
             above(i) == {j \in DOMAIN s : better(j, i)}
             I == {i \in DOMAIN s : Cardinality(above(i)) < RetainedMax}
             b == Sifted(s, I)
  <1>1. Bounded(s) = b
    BY DEF Bounded
  <1>2. DOMAIN s = 1 .. Len(s) /\ Len(s) \in Nat /\ \A i \in DOMAIN s : s[i] \in EventRecords
          /\ s[i].severity \in Int /\ i \in Int
    BY EventFields
  <1>3. \A i \in DOMAIN s : IsFiniteSet(above(i)) /\ Cardinality(above(i)) \in Nat
    <2>1. IsFiniteSet(DOMAIN s)
      <3>1. PICK k \in Nat : k = Len(s)
        BY <1>2
      <3>2. IsFiniteSet(1 .. k)
        BY FS_Interval
      <3> QED BY <1>2, <3>1, <3>2
    <2>2. \A i \in DOMAIN s : above(i) \in SUBSET DOMAIN s
      OBVIOUS
    <2> HIDE DEF above
    <2> QED BY <2>1, <2>2, FS_Subset, FS_CardinalityType
  <1>4. ASSUME NEW i \in DOMAIN s, NEW j \in DOMAIN s, s[i].severity < s[j].severity PROVE above(i) \subseteq above(j)
    <2> SUFFICES ASSUME NEW k \in DOMAIN s, better(k, i) PROVE better(k, j)
      OBVIOUS
    <2> QED BY <1>2, <1>4
  <1> HIDE DEF above
  <1>5. I \in SUBSET DOMAIN s
    OBVIOUS
  <1>6. ASSUME NEW i \in DOMAIN s, NEW j \in DOMAIN s, i \notin I, j \in I PROVE s[j].severity <= s[i].severity
    <2> SUFFICES ASSUME s[i].severity < s[j].severity PROVE FALSE
      BY <1>2
    <2>1. above(i) \subseteq above(j)
      BY <1>4
    <2>2. Cardinality(above(i)) <= Cardinality(above(j))
      BY <1>3, <2>1, FS_Subset
    <2>3. Cardinality(above(j)) < RetainedMax /\ ~(Cardinality(above(i)) < RetainedMax)
      BY <1>6
    <2> QED BY <1>3, <2>2, <2>3, BoundsAssumption
  <1> HIDE DEF I
  <1>7. b \in Seq(EventRecords) /\ Len(b) <= Len(s) /\ ToSet(b) = {s[i] : i \in I}
    BY <1>5, SiftedSays
  <1>8. Chronological(s) => Chronological(b)
    BY <1>5, SiftedChronological
  <1> HIDE DEF b
  <1>9. ToSet(s) = {s[i] : i \in DOMAIN s}
    BY DEF ToSet
  <1>10. ToSet(b) \subseteq ToSet(s)
    BY <1>5, <1>7, <1>9
  <1>11. ASSUME NEW x \in ToSet(s), NEW y \in ToSet(b), x \notin ToSet(b) PROVE y.severity <= x.severity
    <2>1. PICK i \in DOMAIN s : x = s[i]
      BY <1>9
    <2>2. PICK j \in I : y = s[j]
      BY <1>7
    <2>3. i \notin I /\ j \in DOMAIN s
      BY <1>5, <1>7, <1>11, <2>1
    <2> QED BY <1>6, <2>1, <2>2, <2>3
  <1> QED BY <1>1, <1>7, <1>8, <1>10, <1>11

-----------------------------------------------------------------------------
(* The timeline of what was parsed.                                        *)

\* No event is lost to a less severe one of its source.
WorstKept(p, events) ==
    \A j \in 1 .. Len(p) :
        \/ NumberedOf(p, j) \in ToSet(events)
        \/ \A y \in ToSet(events) : y.source = p[j].source => y.severity <= p[j].severity

LEMMA TimelineSays ==
    ASSUME NEW p \in Seq(EventRecords)
    PROVE LET sink == FoldLeft(Add, NoSink, p)
              events == Bounded(Laid(Materialized(sink)))
          IN /\ sink.count = Len(p) /\ Len(events) \in Nat
             /\ events \in Seq(EventRecords) /\ Chronological(events) /\ WorstKept(p, events)
             /\ \A y \in ToSet(events) : \E j \in 1 .. Len(p) : y = NumberedOf(p, j)
  <1> DEFINE k == FoldLeft(Add, NoSink, p)
             m == Materialized(k)
             l == Laid(m)
             b == Bounded(l)
             n == Len(p)
  <1>1. k \in Sinks /\ Accounts(k, p, n)
    BY SinkAccounts
  <1> HIDE DEF k
  <1>2. m \in Seq(EventRecords) /\ \A e : e \in ToSet(m) <=> \E s \in DOMAIN k.heaps : e \in ToSet(k.heaps[s])
    BY <1>1, MaterializedSays
  <1> HIDE DEF m
  <1>3. l \in Seq(EventRecords) /\ ToSet(l) = ToSet(m) /\ Chronological(l)
    BY <1>2, LaidSays
  <1> HIDE DEF l
  <1>4. /\ b \in Seq(EventRecords) /\ ToSet(b) \subseteq ToSet(l) /\ Chronological(b)
        /\ \A x \in ToSet(l), y \in ToSet(b) : x \notin ToSet(b) => y.severity <= x.severity
    BY <1>3, BoundedSays
  <1> HIDE DEF b
  <1>5. /\ k.count = n
        /\ \A j \in 1 .. n : Accounted(k, p, j)
        /\ \A s \in DOMAIN k.heaps : \A y \in ToSet(k.heaps[s]) : \E j \in 1 .. n : y = NumberedOf(p, j)
    BY <1>1 DEF Accounts
  <1>6. \A y \in ToSet(b) : \E s \in DOMAIN k.heaps : y \in ToSet(k.heaps[s]) /\ y.source = s
    <2>1. \A s \in DOMAIN k.heaps : Retains(k.heaps[s], s, k.count)
      BY <1>1, SinkFields
    <2>2. \A s \in DOMAIN k.heaps : \A y \in ToSet(k.heaps[s]) : y.source = s
      BY <2>1 DEF Retains
    <2> QED BY <1>2, <1>3, <1>4, <2>2
  <1>7. \A y \in ToSet(b) : \E j \in 1 .. n : y = NumberedOf(p, j)
    BY <1>5, <1>6
  <1>8. WorstKept(p, b)
    <2> SUFFICES ASSUME NEW j \in 1 .. n, NumberedOf(p, j) \notin ToSet(b),
                        NEW y \in ToSet(b), y.source = p[j].source
                 PROVE y.severity <= p[j].severity
      BY DEF WorstKept
    <2> DEFINE s == p[j].source
               x == NumberedOf(p, j)
    <2>1. /\ s \in DOMAIN k.heaps
          /\ x \in ToSet(k.heaps[s]) \/ \A z \in ToSet(k.heaps[s]) : z.severity <= p[j].severity
      BY <1>5 DEF Accounted
    <2>2. y \in ToSet(k.heaps[s])
      BY <1>6
    <2>3. CASE x \in ToSet(k.heaps[s])
      <3>1. x \in ToSet(l)
        BY <1>2, <1>3, <2>1, <2>3
      <3>2. y.severity <= x.severity
        BY <1>4, <3>1
      <3>3. x.severity = p[j].severity
        <4>1. p[j] \in EventRecords /\ j - 1 \in Nat
          BY LenProperties
        <4> QED BY <4>1, EntrySays DEF NumberedOf
      <3> QED BY <3>2, <3>3
    <2>4. CASE x \notin ToSet(k.heaps[s])
      BY <2>1, <2>2, <2>4
    <2> QED BY <2>3, <2>4
  <1>9. Len(b) \in Nat
    BY <1>4
  <1> QED BY <1>4, <1>5, <1>7, <1>8, <1>9 DEF b, l, m, k

-----------------------------------------------------------------------------
(* What the parsers emit.                                                  *)

\* Events as a parser emits them: a frame spike has a length, and the pause a GC
\* event names is that of one of the lines.
Genuine(lines) ==
    {e \in EventRecords :
       /\ e.seq = 0
       /\ e.kind = "frame_spike" => e.value \in Int
       /\ (e.kind = "gc" /\ e.said # None) => \E l \in ToSet(lines) : l.ms = e.said}

LEMMA EventGenuine ==
    ASSUME NEW lines, NEW source \in Origins, NEW kind \in EventKinds, NEW severity \in 0 .. 2,
           NEW t \in Int \cup {None}, NEW value \in Int \cup {None}, NEW said \in Int \cup {None}, NEW line \in Int,
           kind = "frame_spike" => value \in Int,
           (kind = "gc" /\ said # None) => \E l \in ToSet(lines) : l.ms = said
    PROVE Event(source, kind, severity, t, value, said, line) \in Genuine(lines)
  <1> DEFINE e == Event(source, kind, severity, t, value, said, line)
  <1>1. e \in EventRecords
    <2>1. 0 \in Nat
      OBVIOUS
    <2> QED BY <2>1, Zenon DEF EventRecords, Event
  <1>2. e.kind = kind /\ e.value = value /\ e.said = said /\ e.seq = 0
    BY Zenon DEF Event
  <1> HIDE DEF e
  <1> QED BY <1>1, <1>2, Zenon DEF Genuine, e

LEMMA NoEvents == ASSUME NEW V PROVE <<>> \in Seq(V)
  OBVIOUS

LEMMA OneEvent == ASSUME NEW V, NEW e \in V PROVE <<e>> \in Seq(V)
  OBVIOUS

LEMMA LinesGenuine ==
    ASSUME NEW evidence, NEW lines, NEW artifact \in Origins, NEW kind \in EventKinds \ {"frame_spike"},
           NEW n \in Nat, NEW said \in [1 .. n -> Int \cup {None}],
           kind = "gc" => \A i \in 1 .. n : \E l \in ToSet(lines) : l.ms = said[i]
    PROVE BtLines(evidence, artifact, kind, said) \in Seq(Genuine(lines))
  <1> DEFINE b == [i \in DOMAIN said |-> Event(artifact, kind, Warn, None, None, said[i], i)]
             V == Genuine(lines)
  <1>1. DOMAIN said = 1 .. n /\ DOMAIN b = 1 .. n
    OBVIOUS
  <1>2. ASSUME NEW i \in 1 .. n PROVE b[i] \in V
    <2>1. said[i] \in Int \cup {None} /\ i \in Int /\ Warn \in 0 .. 2
      BY DEF Warn
    <2>2. Event(artifact, kind, Warn, None, None, said[i], i) \in V
      BY <2>1, EventGenuine
    <2> QED BY <1>1, <2>2, Zenon
  <1>3. b \in [1 .. n -> V]
    <2> HIDE DEF V
    <2> QED BY <1>1, <1>2, Zenon
  <1> HIDE DEF V, b
  <1>4. b \in Seq(V) /\ <<>> \in Seq(V)
    BY <1>3
  <1> QED BY <1>4, Zenon DEF BtLines, V, b

LEMMA CounterGenuine ==
    ASSUME NEW evidence, NEW lines, NEW artifact \in Origins, NEW total \in Int \cup {None}, NEW nth \in Int
    PROVE BtCounter(evidence, artifact, total, nth) \in Seq(Genuine(lines))
  <1> DEFINE e == Event(artifact, "counter", Info, None, total, None, nth)
             V == Genuine(lines)
  <1>1. e \in V
    <2>1. Info \in 0 .. 2 /\ "counter" \in EventKinds /\ None \in Int \cup {None}
      BY DEF Info, EventKinds
    <2> QED BY <2>1, EventGenuine
  <1> HIDE DEF V, e
  <1>2. <<e>> \in Seq(V) /\ <<>> \in Seq(V)
    BY <1>1
  <1> QED BY <1>2, Zenon DEF BtCounter, V, e

LEMMA RepeatedSays == ASSUME NEW n \in Nat PROVE Repeated(n) \in [1 .. n -> Int \cup {None}]
  BY DEF Repeated

\* The numbers the parsers read.
LEMMA Countables ==
    ASSUME NEW evidence, WellFormed(evidence)
    PROVE /\ evidence.futex.slow \in Nat /\ evidence.io.slowBlock \in Nat /\ evidence.io.mainIo \in Nat
          /\ evidence.futex.waits \in Int \cup {None} /\ evidence.gc.lines \in Seq(GcLines)
          /\ evidence.gc.little \in Int \cup {None} /\ evidence.gc.collect \in Int \cup {None}
          /\ evidence.app.replies \in Seq(ReplyRecords)
          /\ evidence.threads \in Seq(ThreadSamples) /\ evidence.proc \in Seq(ProcSamples)
  <1>1. PICK ids : evidence \in EvidenceRecords(ids)
    BY DEF WellFormed
  <1>2. /\ evidence.futex \in [slow : Nat, waitMs : Nat, waits : Nat \cup {None}]
        /\ evidence.io \in [slowBlock : Nat, mainIo : Nat, slowRead : BOOLEAN, fsync : BOOLEAN]
        /\ evidence.gc \in [lines : Seq(GcLines), little : Nat \cup {None}, collect : Nat \cup {None}]
        /\ evidence.app \in [ok : BOOLEAN, tick : BOOLEAN, replies : Seq(ReplyRecords)]
        /\ evidence.threads \in Seq(ThreadSamples) /\ evidence.proc \in Seq(ProcSamples)
    BY <1>1, Zenon DEF EvidenceRecords, GcLines, ThreadSamples, ProcSamples
  <1>3. /\ evidence.futex.slow \in Nat /\ evidence.io.slowBlock \in Nat /\ evidence.io.mainIo \in Nat
        /\ evidence.futex.waits \in Nat \cup {None} /\ evidence.gc.lines \in Seq(GcLines)
        /\ evidence.gc.little \in Nat \cup {None} /\ evidence.gc.collect \in Nat \cup {None}
        /\ evidence.app.replies \in Seq(ReplyRecords)
    BY <1>2, Zenon
  <1>4. Nat \cup {None} \in SUBSET (Int \cup {None})
    OBVIOUS
  <1> QED BY <1>2, <1>3, <1>4, Zenon

LEMMA GcGenuine ==
    ASSUME NEW evidence, WellFormed(evidence)
    PROVE GcEvents(evidence) \in Seq(Genuine(evidence.gc.lines))
  <1> DEFINE lines == evidence.gc.lines
             n == Len(lines)
             said == [i \in DOMAIN lines |-> lines[i].ms]
             V == Genuine(lines)
             a == BtLines(evidence, "mono_gc", "gc", said)
             b == BtCounter(evidence, "mono_gc", evidence.gc.little, 1)
             c == BtCounter(evidence, "mono_gc", evidence.gc.collect, 2)
  <1>1. lines \in Seq(GcLines) /\ evidence.gc.little \in Int \cup {None} /\ evidence.gc.collect \in Int \cup {None}
    BY Countables
  <1>2. n \in Nat /\ DOMAIN lines = 1 .. n /\ \A i \in 1 .. n : lines[i] \in GcLines /\ lines[i].ms \in Int
    <2>1. \A l \in GcLines : l.ms \in Int
      BY DEF GcLines
    <2> HIDE DEF lines
    <2> QED BY <1>1, <2>1
  <1>3. said \in [1 .. n -> Int \cup {None}] /\ \A i \in 1 .. n : said[i] = lines[i].ms
    <2> HIDE DEF lines, n
    <2> QED BY <1>2
  <1>4. \A i \in 1 .. n : \E l \in ToSet(lines) : l.ms = said[i]
    <2> HIDE DEF lines, n, said
    <2> QED BY <1>2, <1>3 DEF ToSet
  <1>5. "mono_gc" \in Origins /\ "gc" \in EventKinds \ {"frame_spike"}
    BY DEF Origins, EventKinds
  <1>6. GcEvents(evidence) = a \o b \o c
    BY DEF GcEvents
  <1> HIDE DEF n, said
  <1>7. a \in Seq(V)
    <2> HIDE DEF lines
    <2>1. n \in Nat
      BY <1>2
    <2> QED BY <1>3, <1>4, <1>5, <2>1, LinesGenuine
  <1>8. b \in Seq(V) /\ c \in Seq(V)
    <2>1. 1 \in Int /\ 2 \in Int
      OBVIOUS
    <2>2. b \in Seq(V)
      BY <1>1, <1>5, <2>1, CounterGenuine
    <2>3. c \in Seq(V)
      BY <1>1, <1>5, <2>1, CounterGenuine
    <2> QED BY <2>2, <2>3
  <1> HIDE DEF a, b, c, V
  <1>9. a \o b \in Seq(V)
    BY <1>7, <1>8, ToSetConcat
  <1>10. a \o b \o c \in Seq(V)
    BY <1>8, <1>9, ToSetConcat
  <1> QED BY <1>6, <1>10 DEF V, lines

LEMMA FutexGenuine ==
    ASSUME NEW evidence, WellFormed(evidence), NEW lines
    PROVE FutexEvents(evidence) \in Seq(Genuine(lines))
  <1> DEFINE V == Genuine(lines)
             a == BtLines(evidence, "futex", "futex", Repeated(evidence.futex.slow))
             b == BtCounter(evidence, "futex", evidence.futex.waits, 1)
  <1>1. "futex" \in Origins /\ "futex" \in EventKinds \ {"frame_spike"} /\ "futex" # "gc"
    BY DEF Origins, EventKinds
  <1>2. evidence.futex.slow \in Nat /\ evidence.futex.waits \in Int \cup {None}
    BY Countables
  <1>3. Repeated(evidence.futex.slow) \in [1 .. evidence.futex.slow -> Int \cup {None}]
    BY <1>2, RepeatedSays
  <1>4. a \in Seq(V)
    BY <1>1, <1>2, <1>3, LinesGenuine
  <1>5. b \in Seq(V)
    <2>1. 1 \in Int
      OBVIOUS
    <2> QED BY <1>1, <1>2, <2>1, CounterGenuine
  <1>6. FutexEvents(evidence) = a \o b
    BY DEF FutexEvents
  <1> HIDE DEF a, b, V
  <1>7. a \o b \in Seq(V)
    BY <1>4, <1>5, ToSetConcat
  <1> QED BY <1>6, <1>7 DEF V

SpikeRecords == [t : Nat \cup {None}, ms : Nat]

LEMMA SpikesGenuine ==
    ASSUME NEW evidence, WellFormed(evidence), NEW lines
    PROVE SpikeEvents(evidence) \in Seq(Genuine(lines))
  <1> DEFINE V == Genuine(lines)
  <1>1. CASE ~Readable(evidence)
    <2>1. SpikeEvents(evidence) = <<>>
      BY <1>1 DEF SpikeEvents
    <2> QED BY <2>1, NoEvents
  <1>2. CASE Readable(evidence)
    <2> DEFINE spikes == evidence.snap.spikes
               n == Len(spikes)
               of(s, i) == Event("apm_app.json", "frame_spike", IF s.ms >= 200 THEN Error ELSE Warn, s.t, s.ms, None, i)
               b == [i \in DOMAIN spikes |-> of(spikes[i], i)]
    <2>1. spikes \in Seq(SpikeRecords)
      <3>1. evidence.snap \in SnapshotRecords
        BY <1>2, ReadableSnapshot
      <3> QED BY <3>1, Zenon DEF SnapshotRecords, SpikeRecords
    <2>2. SpikeEvents(evidence) = b
      BY <1>2 DEF SpikeEvents
    <2>3. ASSUME NEW s \in SpikeRecords, NEW i \in Nat PROVE of(s, i) \in V
      <3>1. /\ s.t \in Int \cup {None} /\ s.ms \in Int \cup {None} /\ s.ms \in Int /\ i \in Int
            /\ (IF s.ms >= 200 THEN Error ELSE Warn) \in 0 .. 2
        BY DEF Error, Warn, SpikeRecords
      <3>2. "apm_app.json" \in Origins /\ "frame_spike" \in EventKinds
        BY DEF Origins, EventKinds
      <3>3. None \in Int \cup {None}
        OBVIOUS
      <3> QED BY <3>1, <3>2, <3>3, EventGenuine
    <2> HIDE DEF spikes, V
    <2>4. n \in Nat /\ DOMAIN spikes = 1 .. n /\ \A i \in 1 .. n : spikes[i] \in SpikeRecords
      BY <2>1
    <2> HIDE DEF n
    <2>5. \A i \in 1 .. n : of(spikes[i], i) \in V
      BY <2>3, <2>4
    <2>6. b \in [1 .. n -> V]
      <3> HIDE DEF of
      <3> QED BY <2>4, <2>5
    <2> HIDE DEF b
    <2>7. b \in Seq(V)
      BY <2>4, <2>6
    <2> QED BY <2>2, <2>7 DEF V
  <1> QED BY <1>1, <1>2

LEMMA FoundRows ==
    ASSUME NEW evidence, NEW artifact, NEW V, NEW rows \in Seq(V)
    PROVE Found(evidence, artifact, rows, <<>>) \in Seq(V)
  <1>1. <<>> \in Seq(V)
    OBVIOUS
  <1> QED BY <1>1 DEF Found

LEMMA FlattenedSay ==
    ASSUME NEW V, NEW n \in Nat, NEW f \in [1 .. n -> Seq(V)]
    PROVE FlattenSeq(f) \in Seq(V)
  <1> DEFINE W == Seq(V)
  <1>1. f \in [1 .. n -> W]
    OBVIOUS
  <1> HIDE DEF W
  <1>2. f \in Seq(W)
    BY <1>1
  <1>3. f \in Seq(Seq(V))
    BY <1>2 DEF W
  <1> QED BY <1>3, FlattenSays

\* The last known RSS before a sample.
LEMMA LastKnown ==
    ASSUME NEW rows \in Seq(ProcSamples), NEW i \in 1 .. Len(rows)
    PROVE LET known == {j \in 1 .. i - 1 : rows[j].rss # None}
          IN known # {} => rows[Max(known)].rss \in Int
  <1> DEFINE known == {j \in 1 .. i - 1 : rows[j].rss # None}
  <1>1. ASSUME known # {} PROVE Max(known) \in known
    <2>1. IsFiniteSet(1 .. i - 1)
      BY FS_Interval
    <2>2. IsFiniteSet(known) /\ known \in SUBSET Int
      BY <2>1, FS_Subset
    <2> HIDE DEF known
    <2> QED BY <1>1, <2>2, MaxOf
  <1>2. \A j \in known : rows[j].rss \in Int
    <2>1. \A x \in ProcSamples : x.rss \in Nat \cup {None}
      BY DEF ProcSamples
    <2>2. \A j \in known : rows[j] \in ProcSamples /\ rows[j].rss # None
      OBVIOUS
    <2> HIDE DEF known
    <2> QED BY <2>1, <2>2
  <1> HIDE DEF known
  <1> QED BY <1>1, <1>2 DEF known

LEMMA ProcGenuine ==
    ASSUME NEW evidence, WellFormed(evidence), NEW lines
    PROVE ProcEvents(evidence) \in Seq(Genuine(lines))
  <1> DEFINE V == Genuine(lines)
             rows == Found(evidence, "proc", evidence.proc, <<>>)
             n == Len(rows)
             lastRss(i) == LET known == {j \in 1 .. i - 1 : rows[j].rss # None} IN
                           IF known = {} THEN None ELSE rows[Max(known)].rss
             jumps(i) == rows[i].rss # None /\ lastRss(i) # None /\ rows[i].rss - lastRss(i) > 50
             busy(i) == IF rows[i].cpu > 150
                        THEN <<Event("proc.jsonl", "cpu_spike", Warn, rows[i].t, rows[i].cpu, None, 2 * i)>> ELSE <<>>
             jumped(i) == IF jumps(i)
                          THEN <<Event("proc.jsonl", "rss_jump", Warn, rows[i].t, rows[i].rss - lastRss(i), None,
                                       2 * i + 1)>>
                          ELSE <<>>
             f == [i \in DOMAIN rows |-> busy(i) \o jumped(i)]
  <1>1. rows \in Seq(ProcSamples)
    BY Countables, FoundRows
  <1>2. ProcEvents(evidence) = FlattenSeq(f)
    BY DEF ProcEvents
  <1> HIDE DEF rows
  <1>3. n \in Nat /\ DOMAIN rows = 1 .. n /\ \A i \in 1 .. n : rows[i] \in ProcSamples
    BY <1>1
  <1>4. "proc.jsonl" \in Origins /\ "cpu_spike" \in EventKinds /\ "rss_jump" \in EventKinds /\ Warn \in 0 .. 2
    BY DEF Origins, EventKinds, Warn
  <1>5. ASSUME NEW i \in 1 .. n PROVE busy(i) \o jumped(i) \in Seq(V)
    <2>1. rows[i].t \in Int \cup {None} /\ rows[i].cpu \in Int \cup {None} /\ rows[i].rss \in Int \cup {None}
          /\ 2 * i \in Int /\ 2 * i + 1 \in Int
      BY <1>3 DEF ProcSamples
    <2>2. lastRss(i) # None => lastRss(i) \in Int
      BY <1>1, LastKnown, Zenon
    <2>3. busy(i) \in Seq(V)
      <3> DEFINE e == Event("proc.jsonl", "cpu_spike", Warn, rows[i].t, rows[i].cpu, None, 2 * i)
      <3>1. e \in V
        BY <1>4, <2>1, EventGenuine
      <3> HIDE DEF e, V
      <3>2. <<e>> \in Seq(V) /\ <<>> \in Seq(V)
        BY <3>1
      <3> QED BY <3>2, Zenon DEF e
    <2>4. jumped(i) \in Seq(V)
      <3> HIDE DEF lastRss
      <3> DEFINE d == rows[i].rss - lastRss(i)
                 e == Event("proc.jsonl", "rss_jump", Warn, rows[i].t, d, None, 2 * i + 1)
      <3>1. ASSUME jumps(i) PROVE e \in V
        <4>1. d \in Int /\ d \in Int \cup {None} /\ None \in Int \cup {None}
          BY <2>1, <2>2, <3>1
        <4> HIDE DEF d
        <4> QED BY <1>4, <2>1, <4>1, EventGenuine
      <3> HIDE DEF jumps, e, V
      <3>2. jumps(i) => <<e>> \in Seq(V)
        BY <3>1
      <3>3. <<>> \in Seq(V)
        OBVIOUS
      <3> QED BY <3>2, <3>3, Zenon DEF e
    <2> HIDE DEF busy, jumped, V
    <2> QED BY <2>3, <2>4, ToSetConcat
  <1> DEFINE of(i) == busy(i) \o jumped(i)
  <1>6. f \in [1 .. n -> Seq(V)]
    <2>1. \A i \in 1 .. n : of(i) \in Seq(V)
      BY <1>5
    <2>2. f = [i \in 1 .. n |-> of(i)]
      BY <1>3
    <2> HIDE DEF of, V, f, n
    <2> QED BY <2>1, <2>2, Zenon
  <1> HIDE DEF f, V, n
  <1>7. FlattenSeq(f) \in Seq(V)
    BY <1>3, <1>6, FlattenedSay
  <1> QED BY <1>2, <1>7 DEF V

LEMMA ThreadGenuine ==
    ASSUME NEW evidence, WellFormed(evidence), NEW lines
    PROVE ThreadEvents(evidence) \in Seq(Genuine(lines))
  <1> DEFINE V == Genuine(lines)
             rows == Found(evidence, "threads", evidence.threads, <<>>)
             n == Len(rows)
             e(i, k) == Event("threads.jsonl", "wchan", Info, rows[i].t, rows[i].waiters[k], None, 5 * i + k)
             held(i, k) == k <= 5 /\ rows[i].waiters[k] >= 3
             of(i, k) == IF held(i, k) THEN <<e(i, k)>> ELSE <<>>
             channels(i) == [k \in DOMAIN rows[i].waiters |-> of(i, k)]
             f == [i \in DOMAIN rows |-> FlattenSeq(channels(i))]
  <1>1. rows \in Seq(ThreadSamples)
    BY Countables, FoundRows
  <1>2. ThreadEvents(evidence) = FlattenSeq(f)
    BY DEF ThreadEvents
  <1> HIDE DEF rows
  <1>3. n \in Nat /\ DOMAIN rows = 1 .. n /\ \A i \in 1 .. n : rows[i] \in ThreadSamples
    BY <1>1
  <1>4. "threads.jsonl" \in Origins /\ "wchan" \in EventKinds /\ Info \in 0 .. 2
    BY DEF Origins, EventKinds, Info
  <1>5. ASSUME NEW i \in 1 .. n PROVE FlattenSeq(channels(i)) \in Seq(V)
    <2> DEFINE w == rows[i].waiters
               m == Len(w)
    <2>1. w \in Seq(Nat) /\ rows[i].t \in Int \cup {None}
      BY <1>3 DEF ThreadSamples
    <2>2. m \in Nat /\ DOMAIN w = 1 .. m /\ \A k \in 1 .. m : w[k] \in Int \cup {None}
      <3> HIDE DEF w
      <3> QED BY <2>1
    <2>3. ASSUME NEW k \in 1 .. m PROVE of(i, k) \in Seq(V)
      <3>1. 5 * i + k \in Int /\ None \in Int \cup {None}
        BY <1>3, <2>2
      <3>2. e(i, k) \in V
        BY <1>4, <2>1, <2>2, <3>1, EventGenuine
      <3> HIDE DEF e, V, held
      <3>3. <<e(i, k)>> \in Seq(V) /\ <<>> \in Seq(V)
        BY <3>2
      <3> QED BY <3>3, Zenon
    <2>4. channels(i) \in [1 .. m -> Seq(V)]
      <3>1. channels(i) = [k \in 1 .. m |-> of(i, k)]
        BY <2>2
      <3> HIDE DEF of, V, channels, m
      <3> QED BY <2>3, <3>1, Zenon
    <2> HIDE DEF channels, V, m
    <2> QED BY <2>2, <2>4, FlattenedSay
  <1> DEFINE row(i) == FlattenSeq(channels(i))
  <1>6. f \in [1 .. n -> Seq(V)]
    <2>1. \A i \in 1 .. n : row(i) \in Seq(V)
      BY <1>5
    <2>2. f = [i \in 1 .. n |-> row(i)]
      BY <1>3
    <2> HIDE DEF row, V, f, n
    <2> QED BY <2>1, <2>2, Zenon
  <1> HIDE DEF f, V, n
  <1>7. FlattenSeq(f) \in Seq(V)
    BY <1>3, <1>6, FlattenedSay
  <1> QED BY <1>2, <1>7 DEF V

LEMMA ScrapeGenuine ==
    ASSUME NEW evidence, WellFormed(evidence), NEW lines
    PROVE ScrapeEvents(evidence) \in Seq(Genuine(lines))
  <1> DEFINE V == Genuine(lines)
             rows == Found(evidence, "app", evidence.app.replies, <<>>)
             n == Len(rows)
             d(i) == Event("bridge.jsonl", "managed_bridge_spike", Error, rows[i].t, rows[i].ms, None, 2 * i)
             e(i) == Event("bridge.jsonl", "managed_bridge_slow_update", Warn, rows[i].t, rows[i].avg, None, 2 * i + 1)
             spiked(i) == IF rows[i].spike THEN <<d(i)>> ELSE <<>>
             slowed(i) == IF rows[i].avg >= 33 THEN <<e(i)>> ELSE <<>>
             of(i) == spiked(i) \o slowed(i)
             f == [i \in DOMAIN rows |-> of(i)]
  <1>1. rows \in Seq(ReplyRecords)
    BY Countables, FoundRows
  <1>2. ScrapeEvents(evidence) = FlattenSeq(f)
    BY DEF ScrapeEvents
  <1> HIDE DEF rows
  <1>3. n \in Nat /\ DOMAIN rows = 1 .. n /\ \A i \in 1 .. n : rows[i] \in ReplyRecords
    BY <1>1
  <1>4. /\ "bridge.jsonl" \in Origins /\ "managed_bridge_spike" \in EventKinds
        /\ "managed_bridge_slow_update" \in EventKinds /\ Error \in 0 .. 2 /\ Warn \in 0 .. 2
    BY DEF Origins, EventKinds, Error, Warn
  <1>5. ASSUME NEW i \in 1 .. n PROVE of(i) \in Seq(V)
    <2>1. /\ rows[i].t \in Int \cup {None} /\ rows[i].ms \in Int \cup {None} /\ rows[i].avg \in Int \cup {None}
          /\ 2 * i \in Int /\ 2 * i + 1 \in Int /\ None \in Int \cup {None}
      BY <1>3 DEF ReplyRecords
    <2>2. d(i) \in V /\ e(i) \in V
      BY <1>4, <2>1, EventGenuine
    <2> HIDE DEF d, e, V
    <2>3. <<d(i)>> \in Seq(V) /\ <<e(i)>> \in Seq(V) /\ <<>> \in Seq(V)
      BY <2>2
    <2>4. spiked(i) \in Seq(V) /\ slowed(i) \in Seq(V)
      BY <2>3, Zenon
    <2> HIDE DEF spiked, slowed
    <2> QED BY <2>4, ToSetConcat
  <1>6. f \in [1 .. n -> Seq(V)]
    <2>1. f = [i \in 1 .. n |-> of(i)]
      BY <1>3
    <2> HIDE DEF of, V, f, n
    <2> QED BY <1>5, <2>1, Zenon
  <1> HIDE DEF f, V, n
  <1>7. FlattenSeq(f) \in Seq(V)
    BY <1>3, <1>6, FlattenedSay
  <1> QED BY <1>2, <1>7 DEF V

LEMMA ParsedGenuine ==
    ASSUME NEW evidence, WellFormed(evidence)
    PROVE Parsed(evidence) \in Seq(Genuine(evidence.gc.lines))
  <1> DEFINE lines == evidence.gc.lines
             V == Genuine(lines)
             a == SpikeEvents(evidence)
             b == FutexEvents(evidence)
             c == BtLines(evidence, "block", "block_io", Repeated(evidence.io.slowBlock))
             d == BtLines(evidence, "vfs", "vfs_io", Repeated(evidence.io.mainIo))
             e == GcEvents(evidence)
             f == ProcEvents(evidence)
             g == ThreadEvents(evidence)
             h == ScrapeEvents(evidence)
  <1>1. "block" \in Origins /\ "vfs" \in Origins
    BY DEF Origins
  <1>2. /\ "block_io" \in EventKinds \ {"frame_spike"} /\ "vfs_io" \in EventKinds \ {"frame_spike"}
    BY DEF EventKinds
  <1>3. "block_io" # "gc" /\ "vfs_io" # "gc"
    OBVIOUS
  <1>4. evidence.io.slowBlock \in Nat /\ evidence.io.mainIo \in Nat
    BY Countables
  <1>5. /\ Repeated(evidence.io.slowBlock) \in [1 .. evidence.io.slowBlock -> Int \cup {None}]
        /\ Repeated(evidence.io.mainIo) \in [1 .. evidence.io.mainIo -> Int \cup {None}]
    BY <1>4, RepeatedSays
  <1>6. b \in Seq(V)
    BY FutexGenuine
  <1>7. c \in Seq(V)
    BY <1>1, <1>2, <1>3, <1>4, <1>5, LinesGenuine
  <1>8. d \in Seq(V)
    BY <1>1, <1>2, <1>3, <1>4, <1>5, LinesGenuine
  <1>9. e \in Seq(V)
    BY GcGenuine
  <1>10. a \in Seq(V) /\ f \in Seq(V) /\ g \in Seq(V) /\ h \in Seq(V)
    BY SpikesGenuine, ProcGenuine, ThreadGenuine, ScrapeGenuine
  <1>11. Parsed(evidence) = a \o b \o c \o d \o e \o f \o g \o h
    BY DEF Parsed
  <1> HIDE DEF a, b, c, d, e, f, g, h, V
  <1>12. a \o b \o c \o d \in Seq(V)
    BY <1>6, <1>7, <1>8, <1>10
  <1>13. a \o b \o c \o d \o e \o f \in Seq(V)
    BY <1>9, <1>10, <1>12
  <1>14. a \o b \o c \o d \o e \o f \o g \o h \in Seq(V)
    BY <1>10, <1>13
  <1> QED BY <1>11, <1>14 DEF V, lines

-----------------------------------------------------------------------------
(* The stalls.                                                             *)

\* What is known of an event of a timeline.
Told(e, lines) ==
    /\ e \in EventRecords
    /\ e.kind = "frame_spike" => e.value \in Int
    /\ (e.kind = "gc" /\ e.said # None) => \E l \in ToSet(lines) : l.ms = e.said

Sound(events, lines) ==
    /\ events \in Seq(EventRecords) /\ Chronological(events)
    /\ \A e \in ToSet(events) : Told(e, lines)

LEMMA NumberedTold ==
    ASSUME NEW lines, NEW p \in Seq(Genuine(lines)), NEW j \in 1 .. Len(p)
    PROVE Told(NumberedOf(p, j), lines) /\ [NumberedOf(p, j) EXCEPT !.seq = 0] = p[j]
  <1> DEFINE e == p[j]
             x == [e EXCEPT !.seq = j - 1]
  <1>1. e \in Genuine(lines)
    <2> DEFINE V == Genuine(lines)
    <2> HIDE DEF V
    <2>1. p \in Seq(V)
      BY DEF V
    <2>2. p[j] \in V
      BY <2>1
    <2> QED BY <2>2 DEF V
  <1>2. e \in EventRecords /\ e.seq = 0 /\ j - 1 \in Nat
    <2>1. j - 1 \in Nat
      OBVIOUS
    <2> QED BY <1>1, <2>1 DEF Genuine
  <1>3. NumberedOf(p, j) = x
    BY DEF NumberedOf
  <1>4. /\ e.kind = "frame_spike" => e.value \in Int
        /\ (e.kind = "gc" /\ e.said # None) => \E l \in ToSet(lines) : l.ms = e.said
    BY <1>1 DEF Genuine
  <1> HIDE DEF e
  <1>5. /\ x \in EventRecords /\ x.kind = e.kind /\ x.said = e.said /\ x.value = e.value
        /\ [x EXCEPT !.seq = 0] = e
    BY <1>2, EntrySays
  <1> HIDE DEF x
  <1> QED BY <1>3, <1>4, <1>5 DEF Told, e

LEMMA GenuineRecords == ASSUME NEW lines, NEW p \in Seq(Genuine(lines)) PROVE p \in Seq(EventRecords)
  <1> DEFINE V == Genuine(lines)
  <1>1. V \subseteq EventRecords
    BY DEF Genuine
  <1>2. p \in Seq(V)
    OBVIOUS
  <1> HIDE DEF V
  <1> QED BY <1>1, <1>2

LEMMA TimelineSound ==
    ASSUME NEW evidence, WellFormed(evidence)
    PROVE LET p == Parsed(evidence)
              timeline == TimelineOf(evidence)
          IN /\ Sound(timeline.events, evidence.gc.lines) /\ WorstKept(p, timeline.events)
             /\ timeline.count = Len(p) /\ timeline.count = timeline.dropped + Len(timeline.events)
  <1> DEFINE p == Parsed(evidence)
             lines == evidence.gc.lines
             sink == FoldLeft(Add, NoSink, p)
             events == Bounded(Laid(Materialized(sink)))
             timeline == TimelineOf(evidence)
  <1>1. p \in Seq(Genuine(lines))
    BY ParsedGenuine
  <1>2. timeline.events = events /\ timeline.count = sink.count /\ timeline.dropped = sink.count - Len(events)
    BY DEF TimelineOf
  <1> HIDE DEF p, lines, timeline
  <1>3. p \in Seq(EventRecords)
    BY <1>1, GenuineRecords
  <1>4. /\ sink.count = Len(p) /\ Len(events) \in Nat
        /\ events \in Seq(EventRecords) /\ Chronological(events) /\ WorstKept(p, events)
        /\ \A y \in ToSet(events) : \E j \in 1 .. Len(p) : y = NumberedOf(p, j)
    BY <1>3, TimelineSays
  <1> HIDE DEF sink, events
  <1>5. \A y \in ToSet(events) : Told(y, lines)
    <2> SUFFICES ASSUME NEW j \in 1 .. Len(p) PROVE Told(NumberedOf(p, j), lines)
      BY <1>4, Zenon
    <2> QED BY <1>1, NumberedTold
  <1>6. Len(p) \in Nat
    BY <1>3
  <1>7. sink.count = (sink.count - Len(events)) + Len(events)
    BY <1>4, <1>6
  <1>8. Sound(events, lines)
    BY <1>4, <1>5 DEF Sound
  <1> QED BY <1>2, <1>4, <1>7, <1>8 DEF p, lines, timeline

\* The GC pause a spike is put down to.
Nearly(lines, v) == \E l \in ToSet(lines) : 2 * l.ms \in v .. 3 * v

LEMMA MostOrZero == ASSUME NEW T \in SUBSET Int, IsFiniteSet(T) PROVE Max({0} \cup T) \in {0} \cup T
  <1>1. IsFiniteSet({0})
    BY FS_Singleton
  <1>2. IsFiniteSet({0} \cup T)
    BY <1>1, FS_Union
  <1>3. {0} \cup T \in SUBSET Int /\ {0} \cup T # {}
    OBVIOUS
  <1> QED BY <1>2, <1>3, MaxOf

LEMMA PauseFits ==
    ASSUME NEW v \in Int, v > 0, NEW M \in SUBSET Int, IsFiniteSet(M),
           2 * Max({0} \cup {m \in M : 2 * m - 2 * v \in -v .. v}) >= v
    PROVE \E m \in M : 2 * m \in v .. 3 * v
  <1> DEFINE T == {m \in M : 2 * m - 2 * v \in -v .. v}
             g == Max({0} \cup T)
  <1>1. T \in SUBSET M
    BY Zenon
  <1>2. \A m \in T : m \in M /\ 2 * m - 2 * v \in -v .. v
    BY Zenon
  <1>3. 2 * g >= v
    OBVIOUS
  <1> HIDE DEF T
  <1>4. IsFiniteSet(T) /\ T \in SUBSET Int
    BY <1>1, FS_Subset
  <1>5. g \in {0} \cup T
    BY <1>4, MostOrZero
  <1> HIDE DEF g
  <1>6. g \in T /\ g \in Int
    BY <1>3, <1>4, <1>5
  <1>7. g \in M /\ 2 * g - 2 * v \in -v .. v
    BY <1>2, <1>6
  <1>8. 2 * g \in v .. 3 * v
    BY <1>6, <1>7
  <1> QED BY <1>7, <1>8

Proportionate(stalls, lines) ==
    \A i \in DOMAIN stalls : stalls[i].gc => Nearly(lines, stalls[i].spike.value)

LEMMA StallsProportionate ==
    ASSUME NEW timeline, NEW lines, Sound(timeline.events, lines)
    PROVE Proportionate(Stalls(timeline), lines)
  <1> DEFINE events == timeline.events
             test(e) == e.kind = "frame_spike" /\ e.t # None
             I == {i \in DOMAIN events : test(events[i])}
             timed == Sifted(events, I)
             keys == [i \in DOMAIN timed |-> timed[i].value]
             spikes == Ranked(timed, keys)
             near(s) == {e.kind : e \in {f \in ToSet(events) : f.t # None /\ f # s /\ f.t - s.t \in -2 .. 2}}
             paused(s) == {f \in ToSet(events) : f.kind = "gc" /\ f.said # None}
             pauses(s) == {e.said : e \in {f \in ToSet(events) : f.kind = "gc" /\ f.said # None}}
             gcMs(s) == IF s.value <= 0 THEN 0
                        ELSE Max({0} \cup {m \in pauses(s) : 2 * m - 2 * s.value \in -s.value .. s.value})
             stall(i) == [spike |-> spikes[i], near |-> near(spikes[i]), gcMs |-> gcMs(spikes[i]),
                          gc |-> LikelyGc(spikes[i], gcMs(spikes[i]))]
             last == Min({10, Len(spikes)})
             n == Len(timed)
  <1>1. Those(events, LAMBDA e : e.kind = "frame_spike" /\ e.t # None) = timed
    BY DEF Those
  <1>2. Stalls(timeline) = [i \in 1 .. last |-> stall(i)]
    <2> HIDE DEF near, gcMs
    <2> QED BY <1>1 DEF Stalls, near, gcMs
  <1>3. /\ events \in Seq(EventRecords) /\ \A e \in ToSet(events) : Told(e, lines)
    BY DEF Sound
  <1>4. timed \in Seq(EventRecords) /\ ToSet(timed) = {events[i] : i \in I}
    BY <1>3, SiftedSays
  <1>5. \A e \in ToSet(timed) : e \in ToSet(events) /\ e.kind = "frame_spike"
    <2>1. \A i \in I : events[i] \in ToSet(events) /\ events[i].kind = "frame_spike"
      BY DEF ToSet
    <2> QED BY <1>4, <2>1
  <1> HIDE DEF I, timed
  <1>6. /\ n \in Nat /\ DOMAIN timed = 1 .. n /\ timed \in [1 .. n -> EventRecords]
        /\ \A i \in 1 .. n : timed[i] \in ToSet(timed)
    BY <1>4 DEF ToSet
  <1>7. \A e \in ToSet(timed) : e.value \in Int
    BY <1>3, <1>5 DEF Told
  <1>8. keys \in [1 .. n -> Int]
    BY <1>6, <1>7
  <1> HIDE DEF keys, n
  <1>9. Falls(spikes, timed, keys, n, EventRecords)
    BY <1>6, <1>8, RankedFalls
  <1>10. spikes \in Seq(EventRecords) /\ Len(spikes) = n /\ ToSet(spikes) = {timed[i] : i \in 1 .. n}
    BY <1>9 DEF Falls
  <1> HIDE DEF spikes
  <1>11. 1 .. last \subseteq 1 .. n
    <2>1. 10 \in Int /\ n \in Int
      BY <1>6
    <2>2. last = IF 10 <= n THEN 10 ELSE n
      BY <1>10, <2>1, MinPair
    <2> QED BY <2>1, <2>2
  <1>12. \A i \in 1 .. last : spikes[i] \in ToSet(timed)
    <2>1. \A i \in 1 .. n : spikes[i] \in ToSet(spikes)
      BY <1>10 DEF ToSet
    <2> QED BY <1>6, <1>10, <1>11, <2>1
  <1>13. ASSUME NEW s, s.value \in Int, LikelyGc(s, gcMs(s)) PROVE Nearly(lines, s.value)
    <2> DEFINE v == s.value
               M == pauses(s)
    <2>1. v > 0 /\ v \in Int /\ 2 * gcMs(s) >= v
      BY <1>13 DEF LikelyGc
    <2>2. IsFiniteSet(paused(s))
      <3>1. IsFiniteSet(DOMAIN events)
        <4>1. DOMAIN events = 1 .. Len(events) /\ Len(events) \in Nat
          BY <1>3
        <4> QED BY <4>1, FS_Interval
      <3>2. IsFiniteSet({events[i] : i \in DOMAIN events})
        BY <3>1, ImageFinite
      <3>3. ToSet(events) = {events[i] : i \in DOMAIN events}
        BY DEF ToSet
      <3> QED BY <3>2, <3>3, FS_Subset
    <2>3. IsFiniteSet(M)
      <3> DEFINE g == [e \in paused(s) |-> e.said]
      <3>1. M = {g[e] : e \in paused(s)}
        OBVIOUS
      <3> HIDE DEF g, M, paused
      <3> QED BY <2>2, <3>1, ImageFinite
    <2>4. \A m \in M : m \in Int /\ \E l \in ToSet(lines) : l.ms = m
      <3> SUFFICES ASSUME NEW e \in ToSet(events), e.kind = "gc", e.said # None
                   PROVE e.said \in Int /\ \E l \in ToSet(lines) : l.ms = e.said
        OBVIOUS
      <3>1. Told(e, lines)
        BY <1>3
      <3>2. e.said \in Int \cup {None}
        BY <3>1, EventFields DEF Told
      <3> QED BY <3>1, <3>2 DEF Told
    <2>5. 2 * Max({0} \cup {m \in M : 2 * m - 2 * v \in -v .. v}) >= v
      <3>1. ~(s.value <= 0)
        BY <2>1
      <3>2. gcMs(s) = Max({0} \cup {m \in M : 2 * m - 2 * v \in -v .. v})
        BY <3>1, Zenon
      <3> HIDE DEF gcMs, M, v
      <3> QED BY <2>1, <3>2
    <2> HIDE DEF M, v
    <2>6. PICK m \in M : 2 * m \in v .. 3 * v
      BY <2>1, <2>3, <2>4, <2>5, PauseFits
    <2> QED BY <2>4, <2>6 DEF Nearly, v
  <1> HIDE DEF near, gcMs, last
  <1>14. ASSUME NEW i \in 1 .. last, stall(i).gc PROVE Nearly(lines, stall(i).spike.value)
    <2>1. LikelyGc(spikes[i], gcMs(spikes[i])) /\ spikes[i].value \in Int
      BY <1>7, <1>12, <1>14
    <2> QED BY <1>13, <2>1
  <1> HIDE DEF stall
  <1> QED BY <1>2, <1>14 DEF Proportionate

-----------------------------------------------------------------------------
(* The timeline and the stalls stay those of the evidence.                 *)

EventsSound == docs.events # None => Sound(docs.events.events, ev.gc.lines)

StallsSound == docs.bridge # None => Proportionate(docs.bridge.stalls, ev.gc.lines)

LEMMA EventsSoundStep == ASSUME DocsInv, EventsSound, [Next]_vars PROVE EventsSound'
  <1>1. ev'.gc = ev.gc
    BY RecordStays
  <1>2. docs'.events = docs.events \/ docs'.events = TimelineOf(ev)
    BY DocsStay, WorkWrites DEF Wrote, DocsInv
  <1>3. Sound(TimelineOf(ev).events, ev.gc.lines)
    BY TimelineSound DEF DocsInv, MachineType
  <1>4. EventsSound' = (docs'.events # None => Sound(docs'.events.events, ev'.gc.lines))
    BY DEF EventsSound, Sound, Told, Chronological
  <1>5. CASE docs'.events = docs.events
    BY <1>1, <1>4, <1>5 DEF EventsSound
  <1>6. CASE docs'.events = TimelineOf(ev)
    BY <1>1, <1>3, <1>4, <1>6
  <1> QED BY <1>2, <1>5, <1>6

LEMMA NoStalls == ASSUME NEW lines PROVE Proportionate(<<>>, lines)
  BY DEF Proportionate

LEMMA BridgeStalls ==
    ASSUME DocsInv, EventsSound
    PROVE Proportionate(BridgeOf(ev, docs.summary, docs.events).stalls, ev.gc.lines)
  <1>1. BridgeOf(ev, docs.summary, docs.events).stalls
          = IF docs.events = None THEN <<>> ELSE Stalls(docs.events)
    BY DEF BridgeOf
  <1>2. CASE docs.events = None
    BY <1>1, <1>2, NoStalls
  <1>3. CASE docs.events # None
    BY <1>1, <1>3, StallsProportionate DEF EventsSound
  <1> QED BY <1>2, <1>3

LEMMA StallsSoundStep == ASSUME DocsInv, EventsSound, StallsSound, [Next]_vars PROVE StallsSound'
  <1>1. ev'.gc = ev.gc
    BY RecordStays
  <1>2. docs'.bridge = docs.bridge \/ docs'.bridge = BridgeOf(ev, docs.summary, docs.events)
    BY DocsStay, WorkWrites DEF Wrote, DocsInv
  <1>3. StallsSound' = (docs'.bridge # None => Proportionate(docs'.bridge.stalls, ev'.gc.lines))
    BY DEF StallsSound, Proportionate, Nearly
  <1>4. CASE docs'.bridge = docs.bridge
    BY <1>1, <1>3, <1>4 DEF StallsSound
  <1>5. CASE docs'.bridge = BridgeOf(ev, docs.summary, docs.events)
    BY <1>1, <1>3, <1>5, BridgeStalls
  <1> QED BY <1>2, <1>4, <1>5

TimelineInv == DocsInv /\ SharesKept /\ EventsSound /\ StallsSound

LEMMA TimelineStep == ASSUME TimelineInv, [Next]_vars PROVE TimelineInv'
  BY DocsStep, SharesStep, EventsSoundStep, StallsSoundStep DEF TimelineInv

LEMMA TimelineInit == ASSUME Init PROVE TimelineInv
  <1>1. docs.events = None /\ docs.bridge = None
    BY DEF Init, NoDocs
  <1> QED BY <1>1, DocsInit DEF TimelineInv, SharesKept, EventsSound, StallsSound

\* An event the timeline does not hold is no more severe than those of its source
\* that it holds.
LEMMA LostLess ==
    ASSUME NEW lines, NEW p \in Seq(Genuine(lines)), NEW events, WorstKept(p, events),
           NEW lost \in ToSet(p), \A f \in ToSet(events) : [f EXCEPT !.seq = 0] # lost,
           NEW kept \in ToSet(events), lost.source = kept.source
    PROVE kept.severity <= lost.severity
  <1> DEFINE V == Genuine(lines)
  <1>1. PICK j \in 1 .. Len(p) : lost = p[j]
    <2>1. p \in Seq(V)
      OBVIOUS
    <2> HIDE DEF V
    <2>2. DOMAIN p = 1 .. Len(p)
      BY <2>1
    <2> QED BY <2>2 DEF ToSet
  <1>2. [NumberedOf(p, j) EXCEPT !.seq = 0] = p[j]
    BY NumberedTold
  <1>3. NumberedOf(p, j) \notin ToSet(events)
    BY <1>1, <1>2
  <1> QED BY <1>1, <1>3 DEF WorstKept

LEMMA KeepsState == ASSUME DocsInv PROVE TimelineKeepsWorst
  <1> DEFINE timeline == docs.events
             p == Parsed(ev)
  <1> SUFFICES ASSUME timeline # None, asOf = ev.files, stage = "idle", "events" \notin failed
               PROVE /\ timeline.count = Len(p) /\ timeline.count = timeline.dropped + Len(timeline.events)
                     /\ \A lost \in Lost(timeline), kept \in ToSet(timeline.events) :
                           lost.source = kept.source => kept.severity <= lost.severity
    BY Zenon DEF TimelineKeepsWorst
  <1>1. runs > 0
    <2>1. runs \in Nat /\ (runs = 0 => docs = NoDocs)
      BY DEF DocsInv, MachineType, NothingYet
    <2>2. runs # 0
      BY <2>1 DEF NoDocs
    <2> QED BY <2>1, <2>2
  <1>2. timeline = TimelineOf(ev)
    BY <1>1 DEF DocsInv, EventsKept, Current, Ran, Rest
  <1>3. WellFormed(ev)
    BY DEF DocsInv, MachineType
  <1>4. /\ WorstKept(p, timeline.events)
        /\ timeline.count = Len(p) /\ timeline.count = timeline.dropped + Len(timeline.events)
    BY <1>2, <1>3, TimelineSound
  <1>5. p \in Seq(Genuine(ev.gc.lines))
    BY <1>3, ParsedGenuine
  <1>6. ASSUME NEW lost \in Lost(timeline), NEW kept \in ToSet(timeline.events), lost.source = kept.source
        PROVE kept.severity <= lost.severity
    <2>1. lost \in ToSet(p) /\ \A f \in ToSet(timeline.events) : [f EXCEPT !.seq = 0] # lost
      BY <1>6, Zenon DEF Lost
    <2> HIDE DEF timeline, p
    <2> QED BY <1>4, <1>5, <1>6, <2>1, LostLess
  <1> QED BY <1>4, <1>6

LEMMA OrderState == ASSUME EventsSound PROVE TimelineChronological
  BY DEF EventsSound, Sound, Chronological, TimelineChronological

LEMMA BlameState == ASSUME StallsSound PROVE GcBlameProportionate
  BY DEF StallsSound, Proportionate, Nearly, GcBlameProportionate

\* Whatever one source floods the timeline of a session with, no event of a source is
\* dropped in favour of a less severe one of it, and the timeline is in the order of
\* the stamps (EventSink.add, build_timeline).
THEOREM TimelineStands == Spec => []TimelineFaithful
  <1>1. Init => TimelineInv
    BY TimelineInit
  <1>2. TimelineInv /\ [Next]_vars => TimelineInv'
    BY TimelineStep
  <1>3. TimelineInv => TimelineFaithful
    BY KeepsState, OrderState DEF TimelineInv, TimelineFaithful
  <1> QED BY <1>1, <1>2, <1>3, PTL DEF Spec

\* The shares of the attribution make up the whole but for rounding, no bucket is counted
\* twice, and a spike is put down to the GC only for a pause of about its length
\* (bridge.attribution, stall_correlation).
THEOREM AttributionStands == Spec => []AttributionSound
  <1>1. Init => TimelineInv
    BY TimelineInit
  <1>2. TimelineInv /\ [Next]_vars => TimelineInv'
    BY TimelineStep
  <1>3. TimelineInv => AttributionSound
    BY CountsState, BlameState DEF TimelineInv, AttributionSound
  <1> QED BY <1>1, <1>2, <1>3, PTL DEF Spec

=============================================================================

----------------------------- MODULE SumTheorems -----------------------------
(***************************************************************************)
(* Finite sums, as MapThenSumSet of FiniteSetsExt computes them: a number   *)
(* is added for every element of a finite set, in the order in which CHOOSE *)
(* picks the elements.  The sum exists for every finite set, does not       *)
(* depend on that order, and changes by the summands that change.           *)
(*                                                                          *)
(* The lemmas are about sums of a function's values; a sum over any other   *)
(* expression is the sum of the function with these values (IsTotal).       *)
(***************************************************************************)
EXTENDS Integers, FiniteSets, FiniteSetsExt, FiniteSetTheorems, WellFoundedInduction, TLAPS

\* A set of naturals that is not empty has a least element.
LEMMA NatMin ==
  ASSUME NEW T \in SUBSET Nat, T # {}
  PROVE  \E n \in T : \A m \in T : n <= m
<1> DEFINE R == {ss \in Nat \X Nat : ss[1] < ss[2]}
<1>1. R = OpToRel(<, Nat)
  BY DEF OpToRel
<1>2. IsWellFoundedOn(R, Nat)
  BY <1>1, NatLessThanWellFounded
<1> HIDE DEF R
<1>3. PICK n \in T : \A m \in T : ~ (<<m, n>> \in R)
  BY <1>2, WFMin
<1>4. \A m \in T : m < n => <<m, n>> \in R
  BY DEF R
<1>5. \A m \in T : ~ (m < n)
  BY <1>3, <1>4
<1>6. \A m \in T : n <= m
  BY <1>5
<1> QED
  BY <1>6

\* Induction over the naturals, stated for the set of numbers that have a
\* property: it is every number when 0 is in it and the next of each.
LEMMA InductiveSetIsNat ==
  ASSUME NEW T \in SUBSET Nat, 0 \in T, \A n \in T : n + 1 \in T
  PROVE  T = Nat
<1> SUFFICES ASSUME Nat \ T # {} PROVE FALSE
  OBVIOUS
<1>1. PICK n \in Nat \ T : \A m \in Nat \ T : n <= m
  BY NatMin, Nat \ T \in SUBSET Nat
<1>2. n # 0 /\ n - 1 \in Nat
  BY <1>1
<1>3. n - 1 \in T
  BY <1>1, <1>2
<1>4. (n - 1) + 1 \in T
  BY <1>3
<1> QED
  BY <1>1, <1>4

-----------------------------------------------------------------------------
\* The element MapThenSumSet adds next.
Pick(s) == CHOOSE x \in s : TRUE

\* The element picked is one of the set's.
LEMMA PickIn == ASSUME NEW s, s # {} PROVE Pick(s) \in s
BY DEF Pick

\* The subsets of S of at most n elements.
Upto(S, n) == {s \in SUBSET S : Cardinality(s) <= n}

\* `it' is the iteration of MapThenSumSet over f's values, on the sets in D.
SumsOver(it, f, D) ==
  it = [s \in D |-> IF s = {} THEN 0 ELSE f[Pick(s)] + it[s \ {Pick(s)}]]

\* f has numbers on S, a finite set.
Summable(f, S) == IsFiniteSet(S) /\ \A x \in S : f[x] \in Int

\* The sum of f over S, and the iteration behind it.
Total(f, S) == MapThenSumSet(LAMBDA x : f[x], S)
SumOf(f, S) == CHOOSE it : SumsOver(it, f, SUBSET S)

\* The sum is the iteration's value at the whole set.
LEMMA TotalDef ==
  ASSUME NEW f, NEW S
  PROVE  Total(f, S) = SumOf(f, S)[S]
BY Zenon DEF Total, MapThenSumSet, MapThenFoldSet, SumsOver, SumOf, Pick

\* Taking the picked element out makes a subset smaller by one.
LEMMA WithoutPick ==
  ASSUME NEW S, IsFiniteSet(S), NEW s \in SUBSET S, s # {}, NEW n \in Nat,
         Cardinality(s) <= n + 1
  PROVE  /\ Pick(s) \in s /\ Pick(s) \in S
         /\ s \ {Pick(s)} \in Upto(S, n)
<1>1. IsFiniteSet(s) /\ Cardinality(s) \in Nat
  BY FS_Subset, FS_CardinalityType
<1>2. Pick(s) \in s
  BY PickIn
<1>3. Cardinality(s \ {Pick(s)}) = Cardinality(s) - 1
  BY <1>1, <1>2, FS_RemoveElement
<1> QED
  BY <1>1, <1>2, <1>3 DEF Upto

\* The empty set is the only one without an element, and every subset is among
\* those of at most as many elements as it has.
LEMMA UptoFacts ==
  ASSUME NEW S, IsFiniteSet(S)
  PROVE  /\ Upto(S, 0) = {{}}
         /\ \A s \in SUBSET S : Cardinality(s) \in Nat /\ s \in Upto(S, Cardinality(s))
         /\ Cardinality(S) \in Nat /\ Upto(S, Cardinality(S)) = SUBSET S
         /\ \A n \in Nat : Upto(S, n) \subseteq Upto(S, n + 1)
<1>1. \A s \in SUBSET S : Cardinality(s) \in Nat /\ (Cardinality(s) = 0 <=> s = {})
  BY FS_Subset, FS_CardinalityType, FS_EmptySet
<1>2. Cardinality(S) \in Nat /\ Upto(S, Cardinality(S)) = SUBSET S
  BY FS_CardinalityType, FS_Subset DEF Upto
<1> QED
  BY <1>1, <1>2 DEF Upto

\* The iteration exists: on the subsets of at most n elements, for every n.
LEMMA SumsExist ==
  ASSUME NEW S, NEW f, Summable(f, S)
  PROVE  \E it \in [SUBSET S -> Int] : SumsOver(it, f, SUBSET S)
<1> DEFINE T == {n \in Nat : \E it \in [Upto(S, n) -> Int] : SumsOver(it, f, Upto(S, n))}
<1>a. IsFiniteSet(S) /\ \A x \in S : f[x] \in Int
  BY DEF Summable
<1>1. 0 \in T
  <2>1. [s \in {{}} |-> 0] \in [Upto(S, 0) -> Int]
    BY <1>a, UptoFacts
  <2>2. SumsOver([s \in {{}} |-> 0], f, Upto(S, 0))
    BY <1>a, UptoFacts DEF SumsOver
  <2> QED
    BY <2>1, <2>2
<1>2. ASSUME NEW n \in T PROVE n + 1 \in T
  <2>0. n \in Nat
    OBVIOUS
  <2>1. PICK g \in [Upto(S, n) -> Int] : SumsOver(g, f, Upto(S, n))
    OBVIOUS
  <2> DEFINE h == [s \in Upto(S, n + 1) |->
                     IF s = {} THEN 0 ELSE f[Pick(s)] + g[s \ {Pick(s)}]]
  <2>2. \A s \in Upto(S, n + 1) : s # {} =>
           Pick(s) \in S /\ s \ {Pick(s)} \in Upto(S, n)
    BY WithoutPick, <1>a, <2>0 DEF Upto
  <2>3. h \in [Upto(S, n + 1) -> Int]
    BY <2>2, <1>a
  <2>4. \A s \in Upto(S, n) : s \in Upto(S, n + 1) /\ h[s] = g[s]
    <3>1. \A s \in Upto(S, n) : s \in Upto(S, n + 1)
      BY UptoFacts, <1>a, <2>0
    <3>2. \A s \in Upto(S, n) : g[s] = IF s = {} THEN 0 ELSE f[Pick(s)] + g[s \ {Pick(s)}]
      BY <2>1 DEF SumsOver
    <3> QED
      BY <3>1, <3>2
  <2>5. \A s \in Upto(S, n + 1) : h[s] = IF s = {} THEN 0 ELSE f[Pick(s)] + h[s \ {Pick(s)}]
    BY <2>2, <2>4
  <2>6. SumsOver(h, f, Upto(S, n + 1))
    BY <2>5 DEF SumsOver
  <2> HIDE DEF h
  <2> QED
    BY <2>3, <2>6, <2>0
<1>3. T = Nat
  BY <1>1, <1>2, InductiveSetIsNat
<1>4. Cardinality(S) \in T
  BY <1>3, <1>a, UptoFacts
<1> QED
  BY <1>4, <1>a, UptoFacts

\* There is only one: two iterations that start from functions equal on S agree
\* wherever both are defined.
LEMMA SumsUnique ==
  ASSUME NEW S, NEW f, Summable(f, S), NEW D, NEW E, NEW g, NEW h, NEW k,
         SUBSET S \subseteq D, SumsOver(g, f, D),
         SUBSET S \subseteq E, SumsOver(h, k, E), \A x \in S : f[x] = k[x]
  PROVE  \A s \in SUBSET S : g[s] = h[s]
<1> DEFINE T == {n \in Nat : \A s \in Upto(S, n) : g[s] = h[s]}
<1>a. IsFiniteSet(S)
  BY DEF Summable
<1>b. /\ \A s \in SUBSET S : g[s] = IF s = {} THEN 0 ELSE f[Pick(s)] + g[s \ {Pick(s)}]
      /\ \A s \in SUBSET S : h[s] = IF s = {} THEN 0 ELSE k[Pick(s)] + h[s \ {Pick(s)}]
  BY DEF SumsOver
<1>1. 0 \in T
  BY <1>a, UptoFacts, <1>b
<1>2. ASSUME NEW n \in T PROVE n + 1 \in T
  <2>1. \A s \in Upto(S, n + 1) : s \in SUBSET S /\
           (s # {} => Pick(s) \in S /\ s \ {Pick(s)} \in Upto(S, n))
    BY <1>a, WithoutPick DEF Upto
  <2>2. ASSUME NEW s \in Upto(S, n + 1) PROVE g[s] = h[s]
    <3>1. s # {} => g[s \ {Pick(s)}] = h[s \ {Pick(s)}] /\ f[Pick(s)] = k[Pick(s)]
      BY <2>1
    <3> QED
      BY <1>b, <2>1, <3>1
  <2> QED
    BY <2>2
<1>3. T = Nat
  BY <1>1, <1>2, InductiveSetIsNat
<1>4. ASSUME NEW s \in SUBSET S PROVE g[s] = h[s]
  BY <1>a, <1>3, UptoFacts
<1> QED
  BY <1>4

\* The chosen iteration is one, with numbers for values.
LEMMA SumOfSums ==
  ASSUME NEW S, NEW f, Summable(f, S)
  PROVE  /\ SumsOver(SumOf(f, S), f, SUBSET S)
         /\ \A s \in SUBSET S : SumOf(f, S)[s] \in Int
<1>1. PICK it \in [SUBSET S -> Int] : SumsOver(it, f, SUBSET S)
  BY SumsExist
<1>2. SumsOver(SumOf(f, S), f, SUBSET S)
  BY <1>1 DEF SumOf
<1>3. \A s \in SUBSET S : it[s] = SumOf(f, S)[s]
  BY <1>1, <1>2, SumsUnique
<1> QED
  BY <1>1, <1>2, <1>3

\* On a subset, the iteration behind a sum gives the subset's own sum.
LEMMA SumOfSubset ==
  ASSUME NEW S, NEW f, Summable(f, S), NEW s \in SUBSET S
  PROVE  Summable(f, s) /\ SumOf(f, S)[s] = Total(f, s)
<1>1. Summable(f, s)
  BY FS_Subset DEF Summable
<1>2. SumsOver(SumOf(f, S), f, SUBSET S) /\ SumsOver(SumOf(f, s), f, SUBSET s)
  BY <1>1, SumOfSums
<1>3. SumOf(f, S)[s] = SumOf(f, s)[s]
  BY <1>1, <1>2, SumsUnique
<1> QED
  BY <1>1, <1>3, TotalDef

-----------------------------------------------------------------------------
\* Whatever iterates like MapThenSumSet over values that f has computes the sum
\* of f: how a sum over another expression is brought into the form Total(f, S).
LEMMA IsTotal ==
  ASSUME NEW S, NEW f, Summable(f, S), NEW it, SumsOver(it, f, SUBSET S)
  PROVE  it[S] = Total(f, S)
<1>1. SumsOver(SumOf(f, S), f, SUBSET S)
  BY SumOfSums
<1>2. it[S] = SumOf(f, S)[S]
  BY <1>1, SumsUnique
<1> QED
  BY <1>2, TotalDef

\* A finite sum of numbers is a number, and nothing sums to 0.
LEMMA TotalType ==
  ASSUME NEW S, NEW f, Summable(f, S)
  PROVE  Total(f, S) \in Int
BY SumOfSums, TotalDef

\* The empty sum.
LEMMA TotalEmpty ==
  ASSUME NEW f
  PROVE  Total(f, {}) = 0
<1>1. Summable(f, {})
  BY FS_EmptySet DEF Summable
<1>2. SumsOver(SumOf(f, {}), f, SUBSET {})
  BY <1>1, SumOfSums
<1> QED
  BY <1>2, TotalDef DEF SumsOver

\* Functions equal on the set have the same sum.
LEMMA TotalEqual ==
  ASSUME NEW S, NEW f, Summable(f, S), NEW g, \A x \in S : f[x] = g[x]
  PROVE  Summable(g, S) /\ Total(f, S) = Total(g, S)
<1>1. Summable(g, S)
  BY DEF Summable
<1>2. SumsOver(SumOf(f, S), f, SUBSET S) /\ SumsOver(SumOf(g, S), g, SUBSET S)
  BY <1>1, SumOfSums
<1>3. SumOf(f, S)[S] = SumOf(g, S)[S]
  BY <1>2, SumsUnique
<1> QED
  BY <1>1, <1>3, TotalDef

\* Which element is picked first makes no difference: any one may come last.
LEMMA SumOfAdd ==
  ASSUME NEW S, NEW f, Summable(f, S), NEW s \in SUBSET S, NEW e \in S \ s
  PROVE  SumOf(f, S)[s \cup {e}] = SumOf(f, S)[s] + f[e]
<1>0. PICK it : it = SumOf(f, S)
  OBVIOUS
<1> DEFINE T == {n \in Nat : \A u \in Upto(S, n) : \A x \in S \ u :
                               it[u \cup {x}] = it[u] + f[x]}
<1>a. IsFiniteSet(S) /\ \A x \in S : f[x] \in Int
  BY DEF Summable
<1>b. /\ \A u \in SUBSET S : it[u] = IF u = {} THEN 0 ELSE f[Pick(u)] + it[u \ {Pick(u)}]
      /\ \A u \in SUBSET S : it[u] \in Int
  <2>1. SumsOver(it, f, SUBSET S) /\ \A u \in SUBSET S : it[u] \in Int
    BY <1>0, SumOfSums
  <2> QED
    BY <2>1 DEF SumsOver
<1>1. 0 \in T
  <2>1. ASSUME NEW x \in S PROVE it[{} \cup {x}] = it[{}] + f[x]
    <3>1. Pick({x}) = x
      BY PickIn
    <3>2. {x} \in SUBSET S /\ {} \in SUBSET S /\ {x} # {} /\ {x} \ {x} = {}
      OBVIOUS
    <3>3. it[{x}] = f[x] + it[{}] /\ it[{}] = 0
      BY <1>b, <3>1, <3>2
    <3> QED
      BY <3>3, <1>a, {} \cup {x} = {x}
  <2> QED
    BY <2>1, <1>a, UptoFacts
<1>2. ASSUME NEW n \in T PROVE n + 1 \in T
  <2>1. ASSUME NEW u \in Upto(S, n + 1), NEW x \in S \ u
        PROVE  it[u \cup {x}] = it[u] + f[x]
    <3>0. PICK v, p, w : v = u \cup {x} /\ p = Pick(v) /\ w = u \ {p}
      OBVIOUS
    <3>1. v \in SUBSET S /\ v # {} /\ u \in SUBSET S /\ it[u] \in Int /\ f[x] \in Int
      BY <1>a, <1>b, <3>0 DEF Upto
    <3>2. p \in v /\ it[v] = f[p] + it[v \ {p}]
      BY <3>0, <3>1, PickIn, <1>b
    <3>3. CASE p = x
      <4>1. v \ {p} = u
        BY <3>0, <3>3
      <4>2. it[v] = f[x] + it[u]
        BY <3>2, <3>3, <4>1
      <4> QED
        BY <3>0, <3>1, <4>2
    <3>4. CASE p # x
      <4>1. p \in u /\ p \in S /\ v \ {p} = w \cup {x} /\ u = w \cup {p}
        BY <3>0, <3>1, <3>2, <3>4
      <4>2. w \in Upto(S, n)
        <5>1. IsFiniteSet(u) /\ Cardinality(u) \in Nat /\ Cardinality(u) <= n + 1
          BY <3>1, <1>a, FS_Subset, FS_CardinalityType DEF Upto
        <5>2. Cardinality(w) = Cardinality(u) - 1
          <6>1. Cardinality(u \ {p}) = Cardinality(u) - 1
            BY <5>1, <4>1, FS_RemoveElement
          <6> QED
            BY <6>1, <3>0
        <5> QED
          BY <5>1, <5>2, <3>0, <3>1 DEF Upto
      <4>3. w \in SUBSET S /\ x \in S \ w /\ p \in S \ w
        BY <3>0, <3>1, <4>1
      <4>4. it[w \cup {x}] = it[w] + f[x] /\ it[w \cup {p}] = it[w] + f[p]
        BY <4>2, <4>3
      <4>5. it[w] \in Int /\ f[p] \in Int
        BY <1>a, <1>b, <4>1, <4>3
      <4>6. it[v] = f[p] + (it[w] + f[x]) /\ it[u] = it[w] + f[p]
        BY <3>2, <4>1, <4>4
      <4>7. it[v] = it[u] + f[x]
        BY <3>1, <4>5, <4>6
      <4> QED
        BY <3>0, <4>7
    <3> QED
      BY <3>3, <3>4
  <2> QED
    BY <2>1
<1>3. T = Nat
  BY <1>1, <1>2, InductiveSetIsNat
<1>4. Cardinality(s) \in T /\ s \in Upto(S, Cardinality(s))
  BY <1>3, <1>a, UptoFacts
<1>5. it[s \cup {e}] = it[s] + f[e]
  BY <1>4
<1> QED
  BY <1>0, <1>5

\* One more element adds its summand.
LEMMA TotalAdd ==
  ASSUME NEW S, NEW e, e \notin S, NEW f, Summable(f, S), f[e] \in Int
  PROVE  /\ Summable(f, S \cup {e})
         /\ Total(f, S \cup {e}) = Total(f, S) + f[e]
<1>1. Summable(f, S \cup {e})
  BY FS_AddElement DEF Summable
<1>2. SumOf(f, S \cup {e})[S \cup {e}] = SumOf(f, S \cup {e})[S] + f[e]
  BY <1>1, SumOfAdd
<1>3. SumOf(f, S \cup {e})[S] = Total(f, S)
  BY <1>1, SumOfSubset
<1> QED
  BY <1>1, <1>2, <1>3, TotalDef

\* A sum whose range gains an element, the other summands unchanged.
LEMMA TotalGrows ==
  ASSUME NEW S, NEW f, Summable(f, S), NEW g, \A x \in S : g[x] = f[x],
         NEW e, e \notin S, g[e] \in Int
  PROVE  Summable(g, S \cup {e}) /\ Total(g, S \cup {e}) = Total(f, S) + g[e]
<1>1. Summable(g, S) /\ Total(f, S) = Total(g, S)
  BY TotalEqual
<1> QED
  BY <1>1, TotalAdd

\* A sum of one element, and of two.
LEMMA TotalOne ==
  ASSUME NEW e, NEW f, f[e] \in Int
  PROVE  Total(f, {e}) = f[e]
<1>1. Summable(f, {}) /\ Total(f, {}) = 0
  BY FS_EmptySet, TotalEmpty DEF Summable
<1>2. Total(f, {} \cup {e}) = 0 + f[e]
  BY <1>1, TotalAdd
<1> QED
  BY <1>2

\* The sum over two elements.
LEMMA TotalTwo ==
  ASSUME NEW d, NEW e, d # e, NEW f, f[d] \in Int, f[e] \in Int
  PROVE  Total(f, {d, e}) = f[d] + f[e]
<1>1. Summable(f, {d}) /\ Total(f, {d}) = f[d]
  BY FS_Singleton, TotalOne DEF Summable
<1>2. e \notin {d}
  OBVIOUS
<1>3. Total(f, {d} \cup {e}) = f[d] + f[e]
  BY <1>1, <1>2, TotalAdd
<1> QED
  BY <1>3, {d} \cup {e} = {d, e}

\* Only the summand that changes changes the sum.
LEMMA TotalChange ==
  ASSUME NEW S, NEW e \in S, NEW f, Summable(f, S), NEW g, g[e] \in Int,
         \A x \in S \ {e} : g[x] = f[x]
  PROVE  /\ Summable(g, S)
         /\ Total(g, S) = Total(f, S) + (g[e] - f[e])
<1> DEFINE R == S \ {e}
<1>1. Summable(f, R) /\ Summable(g, R) /\ Summable(g, S) /\ f[e] \in Int
  BY FS_Subset DEF Summable
<1>2. Total(f, R) = Total(g, R) /\ Total(f, R) \in Int
  BY <1>1, TotalEqual, TotalType
<1>3. Total(f, R \cup {e}) = Total(f, R) + f[e]
  BY <1>1, TotalAdd
<1>4. Total(g, R \cup {e}) = Total(g, R) + g[e]
  BY <1>1, TotalAdd
<1>5. R \cup {e} = S
  OBVIOUS
<1>6. /\ Total(f, S) = Total(f, R) + f[e]
      /\ Total(g, S) = Total(f, R) + g[e]
  BY <1>2, <1>3, <1>4, <1>5
<1>7. Total(f, R) \in Int /\ f[e] \in Int /\ g[e] \in Int
  BY <1>1, <1>2
<1> HIDE DEF R
<1>8. Total(g, S) = Total(f, S) + (g[e] - f[e])
  BY <1>6, <1>7
<1> QED
  BY <1>1, <1>8

\* The same number for every element sums to that number times how many there
\* are.
LEMMA TotalConstant ==
  ASSUME NEW S, IsFiniteSet(S), NEW c \in Int, NEW f, \A x \in S : f[x] = c
  PROVE  Total(f, S) = c * Cardinality(S)
<1> DEFINE T == {n \in Nat : \A s \in Upto(S, n) : Total(f, s) = c * Cardinality(s)}
<1>1. 0 \in T
  <2>1. Upto(S, 0) = {{}} /\ Total(f, {}) = 0 /\ Cardinality({}) = 0
    BY UptoFacts, TotalEmpty, FS_EmptySet
  <2> QED
    BY <2>1, c * 0 = 0
<1>2. ASSUME NEW n \in T PROVE n + 1 \in T
  <2>1. ASSUME NEW s \in Upto(S, n + 1) PROVE Total(f, s) = c * Cardinality(s)
    <3>1. CASE s = {}
      BY <3>1, TotalEmpty, FS_EmptySet
    <3>2. CASE s # {}
      <4> DEFINE r == s \ {Pick(s)}
      <4>1. Pick(s) \in s /\ Pick(s) \in S /\ r \in Upto(S, n)
        BY <3>2, WithoutPick DEF Upto
      <4>2. IsFiniteSet(s) /\ IsFiniteSet(r) /\ Cardinality(r) \in Nat
            /\ Cardinality(s) \in Nat /\ Cardinality(r) = Cardinality(s) - 1
        BY <4>1, FS_Subset, FS_CardinalityType, FS_RemoveElement DEF Upto
      <4>3. Summable(f, r)
        BY <4>1, <4>2 DEF Summable, Upto
      <4>4. Total(f, r \cup {Pick(s)}) = Total(f, r) + f[Pick(s)]
        BY <4>1, <4>3, TotalAdd
      <4>5. Total(f, r) = c * Cardinality(r)
        BY <4>1
      <4>6. r \cup {Pick(s)} = s /\ f[Pick(s)] = c
        BY <4>1
      <4>7. Total(f, s) = c * (Cardinality(s) - 1) + c
        BY <4>2, <4>4, <4>5, <4>6
      <4> QED
        BY <4>7, <4>2, c * (Cardinality(s) - 1) + c = c * Cardinality(s)
    <3> QED
      BY <3>1, <3>2
  <2> QED
    BY <2>1
<1>3. T = Nat
  BY <1>1, <1>2, InductiveSetIsNat
<1>4. S \in Upto(S, Cardinality(S)) /\ Cardinality(S) \in T
  BY <1>3, UptoFacts
<1> QED
  BY <1>4

\* The sum of sums is the sum of the summands' sums.
LEMMA TotalPlus ==
  ASSUME NEW S, NEW f, Summable(f, S), NEW g, Summable(g, S),
         NEW h, \A x \in S : h[x] = f[x] + g[x]
  PROVE  Summable(h, S) /\ Total(h, S) = Total(f, S) + Total(g, S)
<1> DEFINE T == {n \in Nat : \A s \in Upto(S, n) : Total(h, s) = Total(f, s) + Total(g, s)}
<1>a. IsFiniteSet(S) /\ Summable(h, S) /\ \A x \in S : f[x] \in Int /\ g[x] \in Int
  BY DEF Summable
<1>1. 0 \in T
  <2>1. Upto(S, 0) = {{}} /\ Total(f, {}) = 0 /\ Total(g, {}) = 0 /\ Total(h, {}) = 0
    BY <1>a, UptoFacts, TotalEmpty
  <2> QED
    BY <2>1
<1>2. ASSUME NEW n \in T PROVE n + 1 \in T
  <2>1. ASSUME NEW s \in Upto(S, n + 1) PROVE Total(h, s) = Total(f, s) + Total(g, s)
    <3>1. CASE s = {}
      BY <3>1, TotalEmpty
    <3>2. CASE s # {}
      <4>0. PICK p, r : p = Pick(s) /\ r = s \ {p}
        OBVIOUS
      <4>1. p \in s /\ p \in S /\ r \in Upto(S, n) /\ r \in SUBSET S /\ s = r \cup {p} /\ p \notin r
        BY <1>a, <3>2, <4>0, WithoutPick DEF Upto
      <4>2. Summable(f, r) /\ Summable(g, r) /\ Summable(h, r)
        BY <1>a, <4>1, SumOfSubset
      <4>3. f[p] \in Int /\ g[p] \in Int /\ h[p] = f[p] + g[p] /\ h[p] \in Int
        BY <1>a, <4>1
      <4>4. /\ Total(f, s) = Total(f, r) + f[p]
            /\ Total(g, s) = Total(g, r) + g[p]
            /\ Total(h, s) = Total(h, r) + h[p]
        BY <4>1, <4>2, <4>3, TotalAdd
      <4>5. Total(h, r) = Total(f, r) + Total(g, r)
        BY <4>1
      <4>6. Total(f, r) \in Int /\ Total(g, r) \in Int
        BY <4>2, TotalType
      <4> QED
        BY <4>3, <4>4, <4>5, <4>6
    <3> QED
      BY <3>1, <3>2
  <2> QED
    BY <2>1
<1>3. T = Nat
  BY <1>1, <1>2, InductiveSetIsNat
<1>4. S \in Upto(S, Cardinality(S)) /\ Cardinality(S) \in T
  BY <1>3, <1>a, UptoFacts
<1> QED
  BY <1>a, <1>4
=============================================================================

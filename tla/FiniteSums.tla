----------------------------- MODULE FiniteSums -----------------------------
(***************************************************************************)
(* Sums over finite sets: what the proofs need to know of MapThenSumSet when *)
(* the summand is given by a function.  The library's induction theorems     *)
(* have a predicate for a parameter, which no prover here can instantiate;   *)
(* SubsetInduction has the set of the subsets that satisfy it.               *)
(***************************************************************************)
EXTENDS FiniteSetsExt, FiniteSetTheorems, WellFoundedInduction, NaturalsInduction, TLAPS

(* The sum of g over S.                                                      *)
SumOf(g, S) == MapThenSumSet(LAMBDA x : g[x], S)

-----------------------------------------------------------------------------
(* Induction                                                                 *)

(* A set of naturals that is not empty has a smallest element.               *)
LEMMA LeastNumber ==
  ASSUME NEW S, S \subseteq Nat, S # {}
  PROVE  \E m \in S : \A n \in S : m <= n
<1> DEFINE R == OpToRel(<, Nat)
<1>1. IsWellFoundedOn(R, Nat)
  BY NatLessThanWellFounded
<1>2. \A x, y \in Nat : x < y => <<x, y>> \in R
  BY DEF OpToRel
<1> HIDE DEF R
<1>3. PICK m \in S : \A n \in S : ~ (<<n, m>> \in R)
  BY <1>1, WFMin
<1>4. \A n \in S : m <= n
  <2> TAKE n \in S
  <2>1. ~ (n < m)
    BY <1>2, <1>3
  <2> QED
    BY <2>1
<1> QED
  BY <1>4

(* A set of naturals that has zero and every successor is all of them.       *)
LEMMA EveryNumber ==
  ASSUME NEW P, 0 \in P, \A n \in Nat : n \in P => n + 1 \in P
  PROVE  \A n \in Nat : n \in P
<1> SUFFICES ASSUME NEW n \in Nat \ P PROVE FALSE
  OBVIOUS
<1>1. PICK m \in Nat \ P : \A k \in Nat \ P : m <= k
  <2>1. Nat \ P \subseteq Nat /\ Nat \ P # {}
    OBVIOUS
  <2> QED
    BY <2>1, LeastNumber
<1>2. m - 1 \in Nat /\ (m - 1) + 1 = m
  BY <1>1
<1>3. m - 1 \in P
  BY <1>1, <1>2
<1> QED
  BY <1>1, <1>2, <1>3

(* The subsets of a finite set are finite; what is left of one once an       *)
(* element is taken is smaller.                                              *)
LEMMA Subsets ==
  ASSUME NEW S, IsFiniteSet(S), NEW s \in SUBSET S
  PROVE  /\ IsFiniteSet(s) /\ Cardinality(s) \in Nat /\ Cardinality(s) <= Cardinality(S)
         /\ Cardinality(s) = 0 <=> s = {}
         /\ \A x \in s : /\ s \ {x} \in SUBSET S /\ IsFiniteSet(s \ {x})
                         /\ Cardinality(s \ {x}) = Cardinality(s) - 1
<1>1. IsFiniteSet(s) /\ Cardinality(s) \in Nat /\ Cardinality(s) <= Cardinality(S)
  BY FS_Subset, FS_CardinalityType
<1>2. Cardinality(s) = 0 <=> s = {}
  BY <1>1, FS_EmptySet
<1>3. ASSUME NEW x \in s
      PROVE  /\ s \ {x} \in SUBSET S /\ IsFiniteSet(s \ {x})
             /\ Cardinality(s \ {x}) = Cardinality(s) - 1
  BY <1>1, FS_RemoveElement
<1> QED
  BY <1>1, <1>2, <1>3

(* Among the subsets of a finite set: what holds of the empty one, and of    *)
(* any other when it holds of that set without one of its elements.          *)
LEMMA SubsetInduction ==
  ASSUME NEW S, IsFiniteSet(S), NEW P, {} \in P,
         \A s \in SUBSET S : s # {} /\ (\A x \in s : s \ {x} \in P) => s \in P
  PROVE  SUBSET S \subseteq P
<1> DEFINE Q == {n \in Nat : \A s \in SUBSET S : Cardinality(s) = n => s \in P}
<1>1. 0 \in Q
  BY Subsets
<1>2. ASSUME NEW n \in Nat, n \in Q PROVE n + 1 \in Q
  <2> SUFFICES ASSUME NEW s \in SUBSET S, Cardinality(s) = n + 1 PROVE s \in P
    OBVIOUS
  <2>1. s # {} /\ \A x \in s : s \ {x} \in SUBSET S /\ Cardinality(s \ {x}) = Cardinality(s) - 1
    BY Subsets
  <2>2. \A x \in s : s \ {x} \in P
    BY <1>2, <2>1
  <2> QED
    BY <2>1, <2>2
<1>3. \A n \in Nat : n \in Q
  <2> HIDE DEF Q
  <2> QED
    BY <1>1, <1>2, EveryNumber
<1>4. \A s \in SUBSET S : Cardinality(s) \in Nat
  BY Subsets
<1> QED
  BY <1>3, <1>4

-----------------------------------------------------------------------------
(* Sums                                                                      *)

(* The recursive function MapThenFoldSet defines: the element it takes from  *)
(* a set, what makes a function a table of the sums of the sets in U.        *)
Pick(s) == CHOOSE x \in s : TRUE
IsTable(it, g, U) == it = [s \in U |-> IF s = {} THEN 0 ELSE g[Pick(s)] + it[s \ {Pick(s)}]]
Table(g, S) == CHOOSE it : IsTable(it, g, SUBSET S)

LEMMA SumIsTable ==
  ASSUME NEW g, NEW S
  PROVE  SumOf(g, S) = Table(g, S)[S]
BY DEF SumOf, MapThenSumSet, MapThenFoldSet, Table, IsTable, Pick

Sized(S, n) == {s \in SUBSET S : Cardinality(s) <= n}

(* There is a table of sums for the subsets of a finite set, however large:  *)
(* a table of those of at most n elements gives one of those of at most n + 1.*)
LEMMA TablesExist ==
  ASSUME NEW g, NEW S, IsFiniteSet(S)
  PROVE  IsTable(Table(g, S), g, SUBSET S)
<1> DEFINE P == {n \in Nat : \E it : IsTable(it, g, Sized(S, n))}
<1>1. 0 \in P
  <2>1. \A s \in Sized(S, 0) : s = {}
    BY Subsets DEF Sized
  <2>2. IsTable([s \in Sized(S, 0) |-> 0], g, Sized(S, 0))
    BY <2>1 DEF IsTable
  <2> QED
    BY <2>2
<1>2. ASSUME NEW n \in Nat, n \in P PROVE n + 1 \in P
  <2>1. PICK it : IsTable(it, g, Sized(S, n))
    BY <1>2
  <2> DEFINE more == [s \in Sized(S, n + 1) |-> IF s = {} THEN 0 ELSE g[Pick(s)] + it[s \ {Pick(s)}]]
  <2>2. ASSUME NEW s \in Sized(S, n + 1), s # {} PROVE more[s \ {Pick(s)}] = it[s \ {Pick(s)}]
    <3> DEFINE less == s \ {Pick(s)}
    <3>1. s \in SUBSET S /\ Cardinality(s) <= n + 1 /\ Pick(s) \in s
      BY <2>2 DEF Sized, Pick
    <3>2. less \in Sized(S, n) /\ less \in Sized(S, n + 1)
      BY <3>1, Subsets DEF Sized
    <3>3. it[less] = IF less = {} THEN 0 ELSE g[Pick(less)] + it[less \ {Pick(less)}]
      BY <2>1, <3>2 DEF IsTable
    <3>4. more[less] = IF less = {} THEN 0 ELSE g[Pick(less)] + it[less \ {Pick(less)}]
      BY <3>2
    <3> QED
      BY <3>3, <3>4
  <2>3. \A s \in Sized(S, n + 1) :
          (IF s = {} THEN 0 ELSE g[Pick(s)] + it[s \ {Pick(s)}])
            = (IF s = {} THEN 0 ELSE g[Pick(s)] + more[s \ {Pick(s)}])
    BY <2>2
  <2>4. IsTable(more, g, Sized(S, n + 1))
    BY <2>3, Zenon DEF IsTable
  <2>5. n + 1 \in Nat
    OBVIOUS
  <2> QED
    BY <2>4, <2>5, Zenon
<1>3. \A n \in Nat : n \in P
  <2> HIDE DEF P
  <2> QED
    BY <1>1, <1>2, EveryNumber
<1>4. Cardinality(S) \in Nat /\ Sized(S, Cardinality(S)) = SUBSET S
  BY Subsets, FS_CardinalityType DEF Sized
<1>5. \E it : IsTable(it, g, SUBSET S)
  <2>1. Cardinality(S) \in P
    BY <1>3, <1>4
  <2> QED
    BY <1>4, <2>1
<1> QED
  BY <1>5 DEF Table

(* What a table says of a set.                                               *)
LEMMA TableRow ==
  ASSUME NEW g, NEW S, IsFiniteSet(S), NEW s \in SUBSET S
  PROVE  Table(g, S)[s] = IF s = {} THEN 0 ELSE g[Pick(s)] + Table(g, S)[s \ {Pick(s)}]
<1> DEFINE it == Table(g, S)
<1>1. IsTable(it, g, SUBSET S)
  BY TablesExist
<1> HIDE DEF it
<1>2. it[s] = IF s = {} THEN 0 ELSE g[Pick(s)] + it[s \ {Pick(s)}]
  BY <1>1 DEF IsTable
<1> QED
  BY <1>2 DEF it

(* Two tables agree where both have an entry: the sum of a subset does not   *)
(* depend on the set it is a subset of.                                      *)
LEMMA TablesAgree ==
  ASSUME NEW g, NEW S, IsFiniteSet(S), NEW T \in SUBSET S
  PROVE  Table(g, T)[T] = Table(g, S)[T]
<1> DEFINE P == {s \in SUBSET T : Table(g, T)[s] = Table(g, S)[s]}
<1>1. IsFiniteSet(T)
  BY FS_Subset
<1>2. {} \in P
  BY <1>1, TableRow
<1>3. ASSUME NEW s \in SUBSET T, s # {}, \A x \in s : s \ {x} \in P PROVE s \in P
  <2>1. Pick(s) \in s /\ s \in SUBSET S
    BY <1>3 DEF Pick
  <2>2. Table(g, T)[s \ {Pick(s)}] = Table(g, S)[s \ {Pick(s)}]
    BY <1>3, <2>1
  <2>3. Table(g, T)[s] = g[Pick(s)] + Table(g, T)[s \ {Pick(s)}]
    BY <1>1, <1>3, TableRow
  <2>4. Table(g, S)[s] = g[Pick(s)] + Table(g, S)[s \ {Pick(s)}]
    BY <1>3, <2>1, TableRow
  <2> QED
    BY <2>2, <2>3, <2>4
<1>4. SUBSET T \subseteq P
  <2> HIDE DEF P
  <2> QED
    BY <1>1, <1>2, <1>3, SubsetInduction
<1> QED
  BY <1>4

(* So a sum is zero over the empty set, and else the value of the element    *)
(* taken and the sum of the others.                                          *)
LEMMA SumUnfolds ==
  ASSUME NEW g, NEW S, IsFiniteSet(S)
  PROVE  SumOf(g, S) = IF S = {} THEN 0 ELSE g[Pick(S)] + SumOf(g, S \ {Pick(S)})
<1>1. SumOf(g, S) = IF S = {} THEN 0 ELSE g[Pick(S)] + Table(g, S)[S \ {Pick(S)}]
  BY TableRow, SumIsTable
<1>2. SumOf(g, S \ {Pick(S)}) = Table(g, S)[S \ {Pick(S)}]
  <2>1. S \ {Pick(S)} \in SUBSET S
    OBVIOUS
  <2> QED
    BY <2>1, TablesAgree, SumIsTable
<1> QED
  BY <1>1, <1>2

LEMMA SumOfNone ==
  ASSUME NEW g
  PROVE  SumOf(g, {}) = 0
BY SumUnfolds, FS_EmptySet

(* A sum of integers is one.                                                 *)
LEMMA SumType ==
  ASSUME NEW g, NEW S, IsFiniteSet(S), \A x \in S : g[x] \in Int
  PROVE  SumOf(g, S) \in Int
<1> DEFINE P == {s \in SUBSET S : SumOf(g, s) \in Int}
<1>1. {} \in P
  BY SumOfNone
<1>2. ASSUME NEW s \in SUBSET S, s # {}, \A x \in s : s \ {x} \in P PROVE s \in P
  <2>1. IsFiniteSet(s) /\ Pick(s) \in s
    BY <1>2, FS_Subset DEF Pick
  <2>2. SumOf(g, s \ {Pick(s)}) \in Int /\ g[Pick(s)] \in Int
    BY <1>2, <2>1
  <2>3. SumOf(g, s) = g[Pick(s)] + SumOf(g, s \ {Pick(s)})
    BY <1>2, <2>1, SumUnfolds
  <2> QED
    BY <2>2, <2>3
<1>3. SUBSET S \subseteq P
  <2> HIDE DEF P
  <2> QED
    BY <1>1, <1>2, SubsetInduction
<1> QED
  BY <1>3

(* Any element can be taken first: addition is commutative.                  *)
LEMMA SumWithout ==
  ASSUME NEW g, NEW S, IsFiniteSet(S), \A x \in S : g[x] \in Int, NEW y \in S
  PROVE  SumOf(g, S) = g[y] + SumOf(g, S \ {y})
<1> DEFINE P == {s \in SUBSET S : \A x \in s : SumOf(g, s) = g[x] + SumOf(g, s \ {x})}
<1>0. \A s \in SUBSET S : SumOf(g, s) \in Int
  BY Subsets, SumType
<1>1. {} \in P
  OBVIOUS
<1>2. ASSUME NEW s \in SUBSET S, s # {}, \A x \in s : s \ {x} \in P PROVE s \in P
  <2> SUFFICES ASSUME NEW x \in s
               PROVE  SumOf(g, s) = g[x] + SumOf(g, s \ {x})
    OBVIOUS
  <2> DEFINE p == Pick(s)
  <2>1. IsFiniteSet(s) /\ p \in s
    BY <1>2, FS_Subset DEF Pick
  <2>2. SumOf(g, s) = g[p] + SumOf(g, s \ {p})
    BY <1>2, <2>1, SumUnfolds
  <2> HIDE DEF p
  <2>3. CASE x = p
    BY <2>2, <2>3
  <2>4. CASE x # p
    <3> DEFINE rest == SumOf(g, (s \ {x}) \ {p})
    <3>1. SumOf(g, s \ {p}) = g[x] + SumOf(g, (s \ {p}) \ {x})
      BY <1>2, <2>1, <2>4
    <3>2. SumOf(g, s \ {x}) = g[p] + rest
      BY <1>2, <2>1, <2>4
    <3>3. (s \ {p}) \ {x} = (s \ {x}) \ {p} /\ (s \ {x}) \ {p} \in SUBSET S
      OBVIOUS
    <3>4. SumOf(g, s) = g[p] + (g[x] + rest)
      BY <2>2, <3>1, <3>3
    <3>5. g[x] \in Int /\ g[p] \in Int /\ rest \in Int
      BY <1>0, <2>1, <3>3
    <3>6. g[p] + (g[x] + rest) = g[x] + (g[p] + rest)
      <4> HIDE DEF rest
      <4> QED
        BY <3>5
    <3> QED
      BY <3>2, <3>4, <3>6
  <2> QED
    BY <2>3, <2>4
<1>3. SUBSET S \subseteq P
  <2> HIDE DEF P
  <2> QED
    BY <1>1, <1>2, SubsetInduction
<1> QED
  BY <1>3

(* One element more.                                                         *)
LEMMA SumWith ==
  ASSUME NEW g, NEW S, IsFiniteSet(S), NEW y, y \notin S, \A x \in S \cup {y} : g[x] \in Int
  PROVE  SumOf(g, S \cup {y}) = g[y] + SumOf(g, S)
<1>1. IsFiniteSet(S \cup {y}) /\ (S \cup {y}) \ {y} = S
  BY FS_AddElement
<1> QED
  BY <1>1, SumWithout

(* A sum depends on nothing but the values over its set.                     *)
LEMMA SumOfSame ==
  ASSUME NEW g, NEW h, NEW S, IsFiniteSet(S), \A x \in S : g[x] = h[x]
  PROVE  SumOf(g, S) = SumOf(h, S)
<1> DEFINE P == {s \in SUBSET S : SumOf(g, s) = SumOf(h, s)}
<1>1. {} \in P
  BY SumOfNone
<1>2. ASSUME NEW s \in SUBSET S, s # {}, \A x \in s : s \ {x} \in P PROVE s \in P
  <2>1. IsFiniteSet(s) /\ Pick(s) \in s
    BY <1>2, FS_Subset DEF Pick
  <2>2. SumOf(g, s \ {Pick(s)}) = SumOf(h, s \ {Pick(s)}) /\ g[Pick(s)] = h[Pick(s)]
    BY <1>2, <2>1
  <2> QED
    BY <1>2, <2>1, <2>2, SumUnfolds
<1>3. SUBSET S \subseteq P
  <2> HIDE DEF P
  <2> QED
    BY <1>1, <1>2, SubsetInduction
<1> QED
  BY <1>3

(* A sum of values of at least c is at least c for each element.             *)
LEMMA SumAtLeast ==
  ASSUME NEW g, NEW S, IsFiniteSet(S), NEW c \in Int, \A x \in S : g[x] \in Int /\ g[x] >= c
  PROVE  SumOf(g, S) >= c * Cardinality(S)
<1> DEFINE P == {s \in SUBSET S : SumOf(g, s) >= c * Cardinality(s)}
<1>1. {} \in P
  BY SumOfNone, FS_EmptySet
<1>2. ASSUME NEW s \in SUBSET S, s # {}, \A x \in s : s \ {x} \in P PROVE s \in P
  <2>1. PICK x \in s : TRUE
    BY <1>2
  <2> DEFINE less == SumOf(g, s \ {x})
             n == Cardinality(s \ {x})
  <2>2. less >= c * n
    BY <1>2
  <2>3. IsFiniteSet(s) /\ IsFiniteSet(s \ {x})
    BY Subsets
  <2>4. Cardinality(s) = n + 1 /\ n \in Nat
    BY <2>3, Subsets, FS_CardinalityType
  <2>5. SumOf(g, s) = g[x] + less
    BY <2>3, SumWithout
  <2>6. less \in Int /\ g[x] \in Int /\ g[x] >= c
    BY <2>3, SumType
  <2> HIDE DEF less, n
  <2>7. c * (n + 1) = c * n + c /\ c * n \in Int
    BY <2>4
  <2>8. g[x] + less >= c * n + c
    BY <2>2, <2>6, <2>7
  <2> QED
    BY <2>4, <2>5, <2>7, <2>8
<1>3. SUBSET S \subseteq P
  <2> HIDE DEF P
  <2> QED
    BY <1>1, <1>2, SubsetInduction
<1> QED
  BY <1>3

-----------------------------------------------------------------------------
(* Counting                                                                  *)

(* Where no value is taken more than q times, a set has no more than q       *)
(* elements for each value.                                                  *)
LEMMA Fibers ==
  ASSUME NEW S, IsFiniteSet(S), NEW V, IsFiniteSet(V), NEW f, \A x \in S : f[x] \in V,
         NEW q \in Nat, \A v \in V : Cardinality({x \in S : f[x] = v}) <= q
  PROVE  Cardinality(S) <= q * Cardinality(V)
<1> DEFINE Over(U) == {x \in S : f[x] \in U}
           P == {U \in SUBSET V : Cardinality(Over(U)) <= q * Cardinality(U)}
<1>1. {} \in P
  <2>1. Over({}) = {}
    OBVIOUS
  <2> QED
    BY <2>1, FS_EmptySet
<1>2. ASSUME NEW U \in SUBSET V, U # {}, \A v \in U : U \ {v} \in P PROVE U \in P
  <2>1. PICK v \in U : TRUE
    BY <1>2
  <2> DEFINE one  == {x \in S : f[x] = v}
             rest == Over(U \ {v})
             n    == Cardinality(U \ {v})
  <2>2. /\ IsFiniteSet(one) /\ IsFiniteSet(rest) /\ one \cap rest = {}
        /\ Over(U) = one \cup rest
    <3>1. one \in SUBSET S /\ rest \in SUBSET S
      OBVIOUS
    <3> QED
      BY <3>1, FS_Subset
  <2>3. Cardinality(Over(U)) = Cardinality(one) + Cardinality(rest)
    <3> HIDE DEF one, rest, Over
    <3>1. Cardinality(one \cup rest) = Cardinality(one) + Cardinality(rest) - Cardinality(one \cap rest)
      BY <2>2, FS_Union
    <3>2. Cardinality(one \cap rest) = 0 /\ Cardinality(one) \in Nat /\ Cardinality(rest) \in Nat
      BY <2>2, FS_EmptySet, FS_CardinalityType
    <3> QED
      BY <2>2, <3>1, <3>2
  <2>4. Cardinality(one) <= q /\ Cardinality(rest) <= q * n
    BY <1>2
  <2>5. Cardinality(U) = n + 1 /\ n \in Nat
    BY Subsets, FS_CardinalityType
  <2>6. Cardinality(one) \in Nat /\ Cardinality(rest) \in Nat
    BY <2>2, FS_CardinalityType
  <2> HIDE DEF one, rest, n, Over
  <2>7. q * (n + 1) = q * n + q /\ q * n \in Nat
    BY <2>5
  <2>8. Cardinality(Over(U)) <= q * Cardinality(U)
    BY <2>3, <2>4, <2>5, <2>6, <2>7
  <2> QED
    BY <2>8
<1>3. SUBSET V \subseteq P
  <2> HIDE DEF P
  <2> QED
    BY <1>1, <1>2, SubsetInduction
<1>4. Over(V) = S
  OBVIOUS
<1> QED
  BY <1>3, <1>4

(* Where some value is taken fewer than q times and no other one more often  *)
(* than q, there are fewer than q elements for each value.                   *)
LEMMA FewerThan ==
  ASSUME NEW S, IsFiniteSet(S), NEW V, IsFiniteSet(V), NEW f, \A x \in S : f[x] \in V,
         NEW q \in Nat, \A v \in V : Cardinality({x \in S : f[x] = v}) <= q,
         NEW u \in V, Cardinality({x \in S : f[x] = u}) < q
  PROVE  Cardinality(S) < q * Cardinality(V)
<1> DEFINE one  == {x \in S : f[x] = u}
           rest == S \ one
           n    == Cardinality(V \ {u})
<1>1. /\ IsFiniteSet(one) /\ IsFiniteSet(rest) /\ one \cap rest = {} /\ S = one \cup rest
      /\ one \in SUBSET S /\ rest \in SUBSET S
  <2>1. one \in SUBSET S /\ rest \in SUBSET S
    OBVIOUS
  <2> QED
    BY <2>1, FS_Subset
<1>2. Cardinality(S) = Cardinality(one) + Cardinality(rest)
  <2> HIDE DEF one, rest
  <2>1. Cardinality(one \cup rest) = Cardinality(one) + Cardinality(rest) - Cardinality(one \cap rest)
    BY <1>1, FS_Union
  <2>2. Cardinality(one \cap rest) = 0 /\ Cardinality(one) \in Nat /\ Cardinality(rest) \in Nat
    BY <1>1, FS_EmptySet, FS_CardinalityType
  <2> QED
    BY <1>1, <2>1, <2>2
<1>3. IsFiniteSet(V \ {u}) /\ Cardinality(V) = n + 1 /\ n \in Nat
  BY Subsets, FS_CardinalityType
<1>4. Cardinality(rest) <= q * n
  <2>1. \A x \in rest : f[x] \in V \ {u}
    OBVIOUS
  <2>2. \A v \in V \ {u} : Cardinality({x \in rest : f[x] = v}) <= q
    <3> TAKE v \in V \ {u}
    <3>1. {x \in rest : f[x] = v} = {x \in S : f[x] = v}
      OBVIOUS
    <3> QED
      BY <3>1
  <2> HIDE DEF rest
  <2> QED
    BY <1>1, <1>3, <2>1, <2>2, Fibers
<1>5. Cardinality(one) \in Nat /\ Cardinality(rest) \in Nat /\ Cardinality(one) < q
  BY <1>1, FS_CardinalityType
<1> HIDE DEF one, rest, n
<1>6. q * (n + 1) = q * n + q /\ q * n \in Nat
  BY <1>3
<1> QED
  BY <1>2, <1>3, <1>4, <1>5, <1>6

(* Any element of a part of a set can be taken first.                        *)
LEMMA SumTakes ==
  ASSUME NEW g, NEW S, IsFiniteSet(S), \A x \in S : g[x] \in Int, NEW s \in SUBSET S
  PROVE  /\ SumOf(g, s) \in Int
         /\ \A x \in s : /\ SumOf(g, s) = g[x] + SumOf(g, s \ {x})
                         /\ g[x] \in Int /\ SumOf(g, s \ {x}) \in Int
<1>1. IsFiniteSet(s) /\ \A x \in s : g[x] \in Int /\ IsFiniteSet(s \ {x})
  BY Subsets
<1> QED
  BY <1>1, SumType, SumWithout

(* The sum over one element.                                                 *)
LEMMA SumOfOne ==
  ASSUME NEW g, NEW x, g[x] \in Int
  PROVE  SumOf(g, {x}) = g[x]
<1>1. IsFiniteSet({}) /\ {} \cup {x} = {x}
  BY FS_EmptySet
<1>2. SumOf(g, {} \cup {x}) = g[x] + SumOf(g, {})
  BY <1>1, SumWith
<1> QED
  BY <1>1, <1>2, SumOfNone

(* The sum of sums.                                                          *)
LEMMA SumOfBoth ==
  ASSUME NEW g, NEW h, NEW k, NEW S, IsFiniteSet(S),
         \A x \in S : g[x] \in Int /\ h[x] \in Int /\ k[x] = g[x] + h[x]
  PROVE  SumOf(k, S) = SumOf(g, S) + SumOf(h, S)
<1> DEFINE P == {s \in SUBSET S : SumOf(k, s) = SumOf(g, s) + SumOf(h, s)}
<1>1. {} \in P
  BY SumOfNone
<1>2. ASSUME NEW s \in SUBSET S, s # {}, \A x \in s : s \ {x} \in P PROVE s \in P
  <2>1. PICK x \in s : TRUE
    BY <1>2
  <2>2. \A y \in S : k[y] \in Int
    OBVIOUS
  <2>3. /\ SumOf(g, s) = g[x] + SumOf(g, s \ {x}) /\ g[x] \in Int /\ SumOf(g, s \ {x}) \in Int
        /\ SumOf(h, s) = h[x] + SumOf(h, s \ {x}) /\ h[x] \in Int /\ SumOf(h, s \ {x}) \in Int
        /\ SumOf(k, s) = k[x] + SumOf(k, s \ {x})
    BY <2>1, <2>2, SumTakes
  <2>4. SumOf(k, s \ {x}) = SumOf(g, s \ {x}) + SumOf(h, s \ {x}) /\ k[x] = g[x] + h[x]
    BY <1>2, <2>1
  <2> QED
    BY <2>3, <2>4
<1>3. SUBSET S \subseteq P
  <2> HIDE DEF P
  <2> QED
    BY <1>1, <1>2, SubsetInduction
<1> QED
  BY <1>3

(* Two sets without a common element.                                        *)
LEMMA SumOfUnion ==
  ASSUME NEW g, NEW S, IsFiniteSet(S), NEW T, IsFiniteSet(T), S \cap T = {},
         \A x \in S \cup T : g[x] \in Int
  PROVE  SumOf(g, S \cup T) = SumOf(g, S) + SumOf(g, T)
<1> DEFINE P == {s \in SUBSET S : SumOf(g, s \cup T) = SumOf(g, s) + SumOf(g, T)}
<1>0. IsFiniteSet(S \cup T) /\ SumOf(g, T) \in Int
  BY FS_Union, SumType
<1>1. {} \in P
  <2>1. {} \cup T = T
    OBVIOUS
  <2> QED
    BY <1>0, <2>1, SumOfNone
<1>2. ASSUME NEW s \in SUBSET S, s # {}, \A x \in s : s \ {x} \in P PROVE s \in P
  <2>1. PICK x \in s : TRUE
    BY <1>2
  <2>2. SumOf(g, s) = g[x] + SumOf(g, s \ {x}) /\ g[x] \in Int /\ SumOf(g, s \ {x}) \in Int
    BY <2>1, SumTakes
  <2>3. s \cup T \in SUBSET (S \cup T) /\ x \in s \cup T /\ (s \cup T) \ {x} = (s \ {x}) \cup T
    BY <2>1
  <2>4. SumOf(g, s \cup T) = g[x] + SumOf(g, (s \ {x}) \cup T)
    BY <1>0, <2>3, SumTakes
  <2>5. SumOf(g, (s \ {x}) \cup T) = SumOf(g, s \ {x}) + SumOf(g, T)
    BY <1>2, <2>1
  <2> QED
    BY <1>0, <2>2, <2>4, <2>5
<1>3. SUBSET S \subseteq P
  <2> HIDE DEF P
  <2> QED
    BY <1>1, <1>2, SubsetInduction
<1>4. S \in P
  BY <1>3
<1> QED
  BY <1>4

(* Zeros add nothing.                                                        *)
LEMMA SumOfZeros ==
  ASSUME NEW g, NEW S, IsFiniteSet(S), NEW T \in SUBSET S,
         \A x \in T : g[x] \in Int, \A x \in S \ T : g[x] = 0
  PROVE  SumOf(g, S) = SumOf(g, T)
<1> DEFINE P == {s \in SUBSET S : SumOf(g, s) = SumOf(g, s \cap T)}
<1>0. \A x \in S : g[x] \in Int
  OBVIOUS
<1>1. {} \in P
  OBVIOUS
<1>2. ASSUME NEW s \in SUBSET S, s # {}, \A x \in s : s \ {x} \in P PROVE s \in P
  <2>1. PICK x \in s : TRUE
    BY <1>2
  <2>2. SumOf(g, s) = g[x] + SumOf(g, s \ {x}) /\ g[x] \in Int /\ SumOf(g, s \ {x}) \in Int
    BY <1>0, <2>1, SumTakes
  <2>3. SumOf(g, s \ {x}) = SumOf(g, (s \ {x}) \cap T)
    BY <1>2, <2>1
  <2>4. CASE x \in T
    <3>1. s \cap T \in SUBSET S /\ x \in s \cap T /\ (s \cap T) \ {x} = (s \ {x}) \cap T
      BY <2>1, <2>4
    <3>2. SumOf(g, s \cap T) = g[x] + SumOf(g, (s \ {x}) \cap T)
      BY <1>0, <3>1, SumTakes
    <3> QED
      BY <2>2, <2>3, <3>2
  <2>5. CASE x \notin T
    <3>1. (s \ {x}) \cap T = s \cap T /\ g[x] = 0
      BY <2>1, <2>5
    <3>2. SumOf(g, s \ {x}) = SumOf(g, s \cap T)
      BY <2>3, <3>1
    <3>3. SumOf(g, s) = SumOf(g, s \ {x})
      BY <2>2, <3>1
    <3> QED
      BY <3>2, <3>3
  <2> QED
    BY <2>4, <2>5
<1>3. SUBSET S \subseteq P
  <2> HIDE DEF P
  <2> QED
    BY <1>1, <1>2, SubsetInduction
<1>4. S \in P /\ S \cap T = T
  BY <1>3
<1> QED
  BY <1>4

(* A sum in parts: S is divided by the value of f in V, and h has the sum of *)
(* every part.                                                               *)
LEMMA SumOfParts ==
  ASSUME NEW S, IsFiniteSet(S), NEW V, IsFiniteSet(V), NEW f, \A x \in S : f[x] \in V,
         NEW g, \A x \in S : g[x] \in Int,
         NEW part, \A v \in V : part[v] = {x \in S : f[x] = v},
         NEW h, \A v \in V : h[v] = SumOf(g, part[v])
  PROVE  SumOf(h, V) = SumOf(g, S)
<1> DEFINE Over(U) == {x \in S : f[x] \in U}
           Part(v) == {x \in S : f[x] = v}
           P == {U \in SUBSET V : SumOf(h, U) = SumOf(g, Over(U))}
<1>0. /\ \A v \in V : Part(v) \in SUBSET S /\ h[v] \in Int
      /\ \A U \in SUBSET V : Over(U) \in SUBSET S
  <2>1. \A v \in V : Part(v) \in SUBSET S
    OBVIOUS
  <2>2. ASSUME NEW v \in V PROVE h[v] \in Int
    <3>1. SumOf(g, Part(v)) \in Int
      <4> HIDE DEF Part
      <4> QED
        BY <2>1, SumTakes
    <3> QED
      BY <3>1
  <2> QED
    BY <2>1, <2>2
<1>1. {} \in P
  <2>1. Over({}) = {}
    OBVIOUS
  <2> QED
    BY <2>1, SumOfNone
<1>2. ASSUME NEW U \in SUBSET V, U # {}, \A v \in U : U \ {v} \in P PROVE U \in P
  <2>1. PICK v \in U : TRUE
    BY <1>2
  <2>2. SumOf(h, U) = h[v] + SumOf(h, U \ {v})
    BY <1>0, <2>1, SumTakes
  <2>3. /\ Part(v) \cup Over(U \ {v}) = Over(U) /\ Part(v) \cap Over(U \ {v}) = {}
        /\ U \ {v} \in SUBSET V
    BY <2>1
  <2>4. IsFiniteSet(Part(v)) /\ IsFiniteSet(Over(U \ {v})) /\ Part(v) \subseteq S /\ Over(U \ {v}) \subseteq S
    BY <1>0, <2>1, <2>3, Subsets
  <2>5. SumOf(g, Over(U)) = SumOf(g, Part(v)) + SumOf(g, Over(U \ {v}))
    <3> HIDE DEF Part, Over
    <3> DEFINE one == Part(v)
               others == Over(U \ {v})
    <3>1. \A x \in one \cup others : g[x] \in Int
      BY <2>4
    <3>2. IsFiniteSet(one) /\ IsFiniteSet(others) /\ one \cap others = {}
      BY <2>3, <2>4
    <3> HIDE DEF one, others
    <3>3. SumOf(g, one \cup others) = SumOf(g, one) + SumOf(g, others)
      BY <3>1, <3>2, SumOfUnion
    <3> QED
      BY <2>3, <3>3 DEF one, others
  <2>6. SumOf(h, U \ {v}) = SumOf(g, Over(U \ {v})) /\ h[v] = SumOf(g, Part(v))
    BY <1>2, <2>1
  <2> QED
    BY <2>2, <2>5, <2>6
<1>3. SUBSET V \subseteq P
  <2> HIDE DEF P
  <2> QED
    BY <1>1, <1>2, SubsetInduction
<1>4. V \in P /\ Over(V) = S
  BY <1>3
<1> QED
  BY <1>4
=============================================================================

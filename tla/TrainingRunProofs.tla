---------------------------- MODULE TrainingRunProofs ----------------------------
(***************************************************************************)
(* Proofs about training: TrainerInv is inductive, hence the ranks stay    *)
(* together, every valid output is trained on once, failures have causes   *)
(* outside of the trainers and what was asked for is saved, for any case   *)
(* that the assumptions of TrainingState admit: any number of ranks,       *)
(* rollouts, steps, rows and minibatches, and every failure. Each step of a *)
(* rank keeps each part of the invariant for the rank itself; other ranks  *)
(* are not touched; the collective is a step of all.                       *)
(***************************************************************************)
EXTENDS TrainingInvariant, FiniteSetTheorems, WellFoundedInduction, NaturalsInduction, TLAPS

-----------------------------------------------------------------------------
(* Arithmetic, orders and what the assumptions say                          *)

LEMMA MinOfTwo ==
  ASSUME NEW a \in Int, NEW b \in Int
  PROVE  Min({a, b}) = IF a <= b THEN a ELSE b
<1>1. \E x \in {a, b} : \A y \in {a, b} : x <= y
  OBVIOUS
<1>2. Min({a, b}) \in {a, b} /\ \A y \in {a, b} : Min({a, b}) <= y
  BY <1>1 DEF Min
<1> QED BY <1>2

(* Blocks of E rows: as many as fit.                                        *)
LEMMA Blocks ==
  ASSUME NEW n \in Nat, NEW E \in Nat \ {0}
  PROVE  /\ (n * E) \div E = n
         /\ (n + 1) * E = n * E + E
         /\ n * E \in Nat
         /\ n # 0 => n * E > 0
  OBVIOUS

(* And no fewer than none.                                                  *)
LEMMA Quotient ==
  ASSUME NEW n \in Nat, NEW E \in Nat \ {0}
  PROVE  n \div E \in Nat
  OBVIOUS

(* _run_training_loop rounds the number of minibatches up.                  *)
LEMMA Ceiling ==
  ASSUME NEW P \in Nat \ {0}, NEW m \in Nat \ {0}
  PROVE  /\ (P + m - 1) \div m \in Nat \ {0}
         /\ ((P + m - 1) \div m) * m >= P
<1> DEFINE x == P + m - 1
           q == x \div m
<1>1. x \in Nat /\ x >= m
  OBVIOUS
<1>2. q \in Int /\ x % m \in 0 .. m - 1 /\ x = m * q + (x % m)
  OBVIOUS
<1>3. q * m >= P
  BY <1>1, <1>2
<1>4. q > 0
  BY <1>2, <1>3
<1> QED BY <1>2, <1>3, <1>4

(* A strict total order on places, as the set of what goes before each,     *)
(* gives every place a rank, and every rank a place.                        *)
LEMMA Ranking ==
  ASSUME NEW n \in Nat, NEW B \in [1 .. n -> SUBSET (1 .. n)],
         \A i \in 1 .. n : i \notin B[i],
         \A i \in 1 .. n : \A j \in B[i] : B[j] \subseteq B[i],
         \A i, j \in 1 .. n : i # j => i \in B[j] \/ j \in B[i]
  PROVE  /\ \A i, j \in 1 .. n : Cardinality(B[i]) = Cardinality(B[j]) => i = j
         /\ \A k \in 1 .. n : \E i \in 1 .. n : Cardinality(B[i]) = k - 1
<1> DEFINE D == 1 .. n
           rank == [i \in D |-> Cardinality(B[i])]
<1>1. IsFiniteSet(D) /\ Cardinality(D) = n /\ IsFiniteSet(0 .. n - 1) /\ Cardinality(0 .. n - 1) = n
  <2>1. IsFiniteSet(D) /\ Cardinality(D) = IF 1 > n THEN 0 ELSE n - 1 + 1
    BY FS_Interval, 1 \in Int, n \in Int
  <2>2. IsFiniteSet(0 .. n - 1) /\ Cardinality(0 .. n - 1) = IF 0 > n - 1 THEN 0 ELSE n - 1 - 0 + 1
    BY FS_Interval, 0 \in Int, n - 1 \in Int
  <2> HIDE DEF D
  <2> QED
    BY <2>1, <2>2
<1>2. \A i \in D : IsFiniteSet(B[i]) /\ rank[i] \in 0 .. n - 1
  <2> TAKE i \in D
  <2>1. B[i] \subseteq D \ {i}
    OBVIOUS
  <2>2. IsFiniteSet(D \ {i}) /\ Cardinality(D \ {i}) = n - 1
    BY <1>1, FS_RemoveElement
  <2>3. IsFiniteSet(B[i]) /\ Cardinality(B[i]) <= n - 1
    BY <2>1, <2>2, FS_Subset
  <2>4. Cardinality(B[i]) \in Nat
    BY <2>3, FS_CardinalityType
  <2> QED
    BY <2>3, <2>4
<1>3. \A i, j \in D : j \in B[i] => rank[j] < rank[i]
  <2> SUFFICES ASSUME NEW i \in D, NEW j \in D, j \in B[i]
               PROVE  rank[j] < rank[i]
    OBVIOUS
  <2>1. B[j] \subseteq B[i] /\ j \notin B[j]
    OBVIOUS
  <2>2. rank[j] <= rank[i] /\ (rank[i] = rank[j] => B[i] = B[j])
    BY <1>2, <2>1, FS_Subset
  <2> HIDE DEF rank
  <2> QED
    BY <1>2, <2>1, <2>2
<1>4. \A i, j \in D : rank[i] = rank[j] => i = j
  <2> HIDE DEF rank
  <2> QED
    BY <1>2, <1>3
<1>5. rank \in Injection(D, 0 .. n - 1)
  <2>1. rank \in [D -> 0 .. n - 1]
    BY <1>2
  <2> HIDE DEF rank
  <2> QED
    BY <1>4, <2>1 DEF Injection, IsInjective
<1>6. rank \in Surjection(D, 0 .. n - 1)
  <2> HIDE DEF rank, D
  <2> QED
    BY <1>1, <1>5, FS_Injection
<1>7. \A k \in D : \E i \in D : rank[i] = k - 1
  <2> HIDE DEF rank
  <2> QED
    BY <1>6 DEF Surjection
<1> QED
  BY <1>4, <1>7

(* Nothing is counted twice where nothing is there twice.                   *)
LEMMA CountOnce ==
  ASSUME NEW n \in Nat, NEW S, NEW f \in [1 .. n -> S], IsInjective(f), S = Range(f)
  PROVE  IsFiniteSet(S) /\ Cardinality(S) = n
<1>1. f \in Bijection(1 .. n, S)
  BY DEF Bijection, Injection, Surjection, IsInjective, Range
<1>2. ExistsBijection(1 .. n, S)
  BY <1>1 DEF ExistsBijection
<1>3. IsFiniteSet(1 .. n) /\ Cardinality(1 .. n) = n
  BY FS_Interval
<1> QED
  BY <1>2, <1>3, FS_Bijection

(* The configuration of the run at hand.                                    *)
LEMMA CaseFacts ==
  ASSUME case \in Cases
  PROVE  /\ case.ranks \in Nat \ {0} /\ case.expected \in Nat \ {0} /\ case.batch \in Nat \ {0}
         /\ case.mini \in Nat \ {0} /\ case.iterations \in Nat \ {0} /\ case.save \subseteq Nat \ {0}
         /\ case.episodes \in Seq(EpisodeType)
         /\ case.feed \in Seq([1 .. case.ranks -> Seq(DOMAIN case.episodes)])
<1> DEFINE c == case
<1>1. c \in Cases
  OBVIOUS
<1> HIDE DEF c
<1>2. /\ c.ranks \in Nat \ {0} /\ c.episodes \in Seq(EpisodeType)
      /\ c.feed \in Seq([1 .. c.ranks -> Seq(DOMAIN c.episodes)])
      /\ {c.expected, c.batch, c.mini, c.iterations} \subseteq Nat \ {0}
      /\ c.save \subseteq Nat \ {0}
  BY <1>1, TrainingAssumption
<1>3. /\ c.expected \in Nat \ {0} /\ c.batch \in Nat \ {0}
      /\ c.mini \in Nat \ {0} /\ c.iterations \in Nat \ {0}
  BY <1>2
<1> QED
  BY <1>2, <1>3 DEF c

(* An episode of it.                                                        *)
LEMMA EpisodeFacts ==
  ASSUME case \in Cases, NEW e \in Episodes
  PROVE  /\ Version(e) \in Nat /\ Advantage(e) \in Int /\ Outputs(e) \in Seq(OutputKinds)
<1>1. case.episodes \in Seq(EpisodeType)
  BY CaseFacts
<1>2. case.episodes[e] \in EpisodeType
  BY <1>1 DEF Episodes
<1> QED
  BY <1>2 DEF EpisodeType, Version, Advantage, Outputs

(* filter_trainable_rollouts (trainer.py): what is kept of what a rank was  *)
(* sent, the freshest first, is as many rollouts as the rank trains on.      *)
LEMMA FreshFirstIsOrder ==
  ASSUME case \in Cases, NEW s \in Seq(Episodes), IsInjective(s)
  PROVE  /\ FreshFirst(s) \in Seq(Episodes) /\ Len(FreshFirst(s)) = Len(s)
         /\ IsInjective(FreshFirst(s)) /\ Range(FreshFirst(s)) \subseteq Range(s)
<1> DEFINE n == Len(s)
           B == [i \in 1 .. n |-> Fresher(s, i)]
           at(k) == CHOOSE i \in 1 .. n : Cardinality(Fresher(s, i)) = k - 1
<1>1. n \in Nat /\ DOMAIN s = 1 .. n /\ \A i \in 1 .. n : s[i] \in Episodes
  OBVIOUS
<1>2. \A i \in 1 .. n : Version(s[i]) \in Nat
  BY <1>1, EpisodeFacts
<1> HIDE DEF n
<1>3. B \in [1 .. n -> SUBSET (1 .. n)]
  BY <1>1 DEF Fresher
<1>4. \A i \in 1 .. n : B[i] = Fresher(s, i)
  OBVIOUS
<1> HIDE DEF B
<1>5. \A i \in 1 .. n : i \notin B[i]
  BY <1>1, <1>2, <1>4 DEF Fresher
<1>6. \A i \in 1 .. n : \A j \in B[i] : B[j] \subseteq B[i]
  <2> SUFFICES ASSUME NEW i \in 1 .. n, NEW j \in B[i], NEW k \in B[j]
               PROVE  k \in B[i]
    OBVIOUS
  <2>1. j \in 1 .. n /\ k \in 1 .. n
    BY <1>3
  <2>2. /\ Version(s[j]) > Version(s[i]) \/ (Version(s[j]) = Version(s[i]) /\ j < i)
        /\ Version(s[k]) > Version(s[j]) \/ (Version(s[k]) = Version(s[j]) /\ k < j)
    BY <2>1, <1>4 DEF Fresher
  <2>3. Version(s[k]) > Version(s[i]) \/ (Version(s[k]) = Version(s[i]) /\ k < i)
    BY <2>1, <2>2, <1>1, <1>2
  <2> QED
    BY <2>1, <2>3, <1>1, <1>4 DEF Fresher
<1>7. \A i, j \in 1 .. n : i # j => i \in B[j] \/ j \in B[i]
  BY <1>1, <1>2, <1>4 DEF Fresher
<1>8. /\ \A i, j \in 1 .. n : Cardinality(B[i]) = Cardinality(B[j]) => i = j
      /\ \A k \in 1 .. n : \E i \in 1 .. n : Cardinality(B[i]) = k - 1
  BY <1>1, <1>3, <1>5, <1>6, <1>7, Ranking
<1>9. \A k \in 1 .. n : at(k) \in 1 .. n /\ Cardinality(Fresher(s, at(k))) = k - 1
  <2> TAKE k \in 1 .. n
  <2>1. \E i \in 1 .. n : Cardinality(Fresher(s, i)) = k - 1
    BY <1>4, <1>8
  <2> QED
    BY <2>1
<1>10. FreshFirst(s) = [k \in 1 .. n |-> s[at(k)]]
  BY <1>1 DEF FreshFirst
<1> HIDE DEF at
<1>11. FreshFirst(s) \in Seq(Episodes) /\ Len(FreshFirst(s)) = n
  <2>1. \A k \in 1 .. n : s[at(k)] \in Episodes
    BY <1>1, <1>9
  <2> DEFINE g == [k \in 1 .. n |-> s[at(k)]]
  <2>2. g \in [1 .. n -> Episodes]
    BY <2>1
  <2>3. FreshFirst(s) = g
    BY <1>10
  <2> HIDE DEF g
  <2> QED
    BY <1>1, <2>2, <2>3
<1>12. IsInjective(FreshFirst(s))
  <2> SUFFICES ASSUME NEW k \in 1 .. n, NEW m \in 1 .. n, s[at(k)] = s[at(m)]
               PROVE  k = m
    BY <1>10 DEF IsInjective
  <2>1. at(k) = at(m)
    BY <1>1, <1>9 DEF IsInjective
  <2>2. k - 1 = m - 1
    BY <1>9, <2>1
  <2> QED
    BY <2>2, <1>1
<1>13. Range(FreshFirst(s)) \subseteq Range(s)
  BY <1>1, <1>9, <1>10 DEF Range
<1> QED
  BY <1>11, <1>12, <1>13 DEF n

(* The first few of them are as many as a rank trains on, or all.           *)
LEMMA KeptFacts ==
  ASSUME case \in Cases, NEW s \in Seq(Episodes), IsInjective(s)
  PROVE  /\ Kept(s) \in Seq(Episodes) /\ IsInjective(Kept(s)) /\ Range(Kept(s)) \subseteq Range(s)
         /\ Len(Kept(s)) = IF case.batch <= Len(s) THEN case.batch ELSE Len(s)
<1> DEFINE f == FreshFirst(s)
           m == IF case.batch <= Len(s) THEN case.batch ELSE Len(s)
<1>1. case.batch \in Nat \ {0} /\ Len(s) \in Nat
  BY CaseFacts
<1>2. f \in Seq(Episodes) /\ Len(f) = Len(s) /\ IsInjective(f) /\ Range(f) \subseteq Range(s)
  BY FreshFirstIsOrder
<1>3. Kept(s) = SubSeq(f, 1, m) /\ m \in 0 .. Len(s)
  BY <1>1, MinOfTwo DEF Kept
<1> HIDE DEF f, m
<1>4. /\ SubSeq(f, 1, m) \in Seq(Episodes) /\ Len(SubSeq(f, 1, m)) = m
      /\ \A i \in 1 .. m : SubSeq(f, 1, m)[i] = f[i]
  BY <1>1, <1>2, <1>3
<1>5. DOMAIN Kept(s) = 1 .. m /\ DOMAIN f = 1 .. Len(s) /\ \A i \in 1 .. m : Kept(s)[i] = f[i] /\ i \in DOMAIN f
  BY <1>1, <1>2, <1>3, <1>4
<1>6. IsInjective(Kept(s)) /\ Range(Kept(s)) \subseteq Range(f)
  BY <1>5, <1>2 DEF IsInjective, Range
<1> QED
  BY <1>2, <1>3, <1>4, <1>6 DEF m

(* So no rank takes a batch of distinct rollouts for one with a duplicate.  *)
LEMMA NoDuplicate ==
  ASSUME NEW s \in Seq(Episodes), IsInjective(s)
  PROVE  Cardinality({Path(e) : e \in Range(s)}) = Len(s)
<1> DEFINE n == Len(s)
           P == {Path(e) : e \in Range(s)}
           f == [i \in 1 .. n |-> Path(s[i])]
<1>1. n \in Nat /\ DOMAIN s = 1 .. n
  OBVIOUS
<1> HIDE DEF n
<1>2. \A d, e \in Episodes : Path(d) = Path(e) => d = e
  BY DEF Path
<1>3. P = Range(f) /\ f \in [1 .. n -> P]
  BY <1>1 DEF Range
<1>4. IsInjective(f)
  BY <1>1, <1>2 DEF IsInjective
<1> HIDE DEF f, P
<1>5. Cardinality(P) = n
  BY <1>1, <1>3, <1>4, CountOnce
<1> QED
  BY <1>5 DEF n, P

(* A set of naturals that is not empty has a smallest element.              *)
LEMMA LeastNatural ==
  ASSUME NEW S, S \subseteq Nat, S # {}
  PROVE  Min(S) \in S
<1> DEFINE R == OpToRel(<, Nat)
<1>1. IsWellFoundedOn(R, Nat)
  BY NatLessThanWellFounded
<1>2. \A x, y \in Nat : x < y => <<x, y>> \in R
  BY DEF OpToRel
<1> HIDE DEF R
<1>3. PICK m \in S : \A n \in S : ~ (<<n, m>> \in R)
  BY <1>1, WFMin
<1>4. \A n \in S : m <= n
  <2> TAKE n \in S
  <2>1. ~ (n < m)
    BY <1>2, <1>3
  <2> QED
    BY <2>1
<1> QED
  BY <1>4 DEF Min

(* get_policy_input (data_packer): the inputs of a row are those of a step  *)
(* that is there, and of a good one if there is one.                        *)
LEMMA InputsFacts ==
  ASSUME NEW kinds \in Seq(OutputKinds), NEW i \in DOMAIN kinds
  PROVE  /\ InputsOf(kinds, i) \in DOMAIN kinds
         /\ kinds[InputsOf(kinds, i)] = "bad" => GoodSteps(kinds) = {}
<1>1. GoodSteps(kinds) \subseteq Nat /\ GoodSteps(kinds) \subseteq DOMAIN kinds
  BY DEF GoodSteps
<1>2. GoodSteps(kinds) # {} => Min(GoodSteps(kinds)) \in GoodSteps(kinds)
  BY <1>1, LeastNatural
<1>3. CASE kinds[i] = "bad" /\ GoodSteps(kinds) # {}
  BY <1>2, <1>3 DEF InputsOf, GoodSteps
<1>4. CASE ~ (kinds[i] = "bad" /\ GoodSteps(kinds) # {})
  BY <1>4 DEF InputsOf
<1> QED
  BY <1>3, <1>4

(* What the packer finds in an episode that was written is refused, padded  *)
(* and stacked as what the policy recorded would be.                        *)
LEMMA SeenFacts ==
  ASSUME case \in Cases, NEW e \in Episodes, Ships(case, e)
  PROVE  /\ Kinds(e) \in Seq(OutputKinds) /\ DOMAIN Kinds(e) = DOMAIN Outputs(e)
         /\ \A i \in DOMAIN Outputs(e) :
              /\ Kinds(e)[i] = Seen(Outputs(e)[i])
              /\ InputsOf(Kinds(e), i) = InputsOf(Outputs(e), i)
         /\ GoodSteps(Kinds(e)) = GoodSteps(Outputs(e))
         /\ Refused(Kinds(e)) <=> Refused(Outputs(e))
<1> DEFINE n == Len(Outputs(e))
<1>1. Kinds(e) = [i \in DOMAIN Outputs(e) |-> Seen(Outputs(e)[i])]
  BY FidelityAssumption DEF Kinds, Outputs, Episodes
<1>2. Outputs(e) \in Seq(OutputKinds)
  BY EpisodeFacts
<1>3. n \in Nat /\ DOMAIN Outputs(e) = 1 .. n /\ \A i \in 1 .. n : Outputs(e)[i] \in OutputKinds
  BY <1>2
<1> HIDE DEF n
<1>4. \A i \in 1 .. n : Seen(Outputs(e)[i]) \in OutputKinds
  BY <1>3 DEF Seen, OutputKinds
<1>5. Kinds(e) \in [1 .. n -> OutputKinds]
  BY <1>1, <1>3, <1>4
<1>6. Kinds(e) \in Seq(OutputKinds) /\ Len(Kinds(e)) = n
  BY <1>5, <1>3
<1>7. \A i \in 1 .. n : /\ Kinds(e)[i] = Seen(Outputs(e)[i])
                        /\ Kinds(e)[i] = "bad" <=> Outputs(e)[i] = "bad"
                        /\ Kinds(e)[i] = "odd" <=> Outputs(e)[i] = "odd"
                        /\ Kinds(e)[i] = "none" <=> Outputs(e)[i] = "none"
  BY <1>1, <1>3 DEF Seen
<1>8. GoodSteps(Kinds(e)) = GoodSteps(Outputs(e))
  BY <1>7, <1>5, <1>3 DEF GoodSteps
<1>9. \A i \in 1 .. n : InputsOf(Kinds(e), i) = InputsOf(Outputs(e), i)
  BY <1>7, <1>8 DEF InputsOf
<1>10. \A i \in 1 .. n : InputKeys(Kinds(e), i) = InputKeys(Outputs(e), i)
  <2> TAKE i \in 1 .. n
  <2>1. InputsOf(Outputs(e), i) \in 1 .. n
    BY <1>2, <1>3, InputsFacts
  <2> QED
    BY <2>1, <1>7, <1>9 DEF InputKeys
<1>11. Kinds(e) = <<>> <=> Outputs(e) = <<>>
  BY <1>2, <1>3, <1>6
<1>12. Refused(Kinds(e)) <=> Refused(Outputs(e))
  <2>1. n >= 1 => 1 \in 1 .. n
    BY <1>3
  <2>2. n < 1 => 1 .. n = {}
    BY <1>3
  <2>3. (\E i \in 1 .. n : InputKeys(Kinds(e), i) # InputKeys(Kinds(e), 1))
        <=> (\E i \in 1 .. n : InputKeys(Outputs(e), i) # InputKeys(Outputs(e), 1))
    BY <1>10, <2>1, <2>2, <1>3
  <2> QED
    BY <2>3, <1>7, <1>3, <1>5, <1>6, <1>11 DEF Refused, n
<1> QED
  BY <1>3, <1>5, <1>6, <1>7, <1>8, <1>9, <1>12

(* The rows of an episode that is not refused.                              *)
LEMMA RowsOfEpisode ==
  ASSUME case \in Cases, NEW e \in Episodes, NEW kinds \in Seq(OutputKinds), ~ Refused(kinds)
  PROVE  /\ PolicyInput(e, kinds) \in Seq(RowType) /\ Len(PolicyInput(e, kinds)) = case.expected
         /\ DOMAIN PolicyInput(e, kinds) = 1 .. case.expected
         /\ \A j \in 1 .. case.expected :
              /\ PolicyInput(e, kinds)[j].episode = e
              /\ ~ PolicyInput(e, kinds)[j].padding => PolicyInput(e, kinds)[j].output = j
              /\ \E i \in DOMAIN kinds : PolicyInput(e, kinds)[j].inputs = kinds[InputsOf(kinds, i)]
         /\ \A o \in GoodSteps(kinds) :
              /\ o \in 1 .. case.expected
              /\ PolicyInput(e, kinds)[o].output = o /\ ~ PolicyInput(e, kinds)[o].padding
<1> DEFINE n == Len(kinds)
           m == case.expected
           p == PolicyInput(e, kinds)
<1>1. m \in Nat \ {0}
  BY CaseFacts
<1>2. n \in Nat /\ DOMAIN kinds = 1 .. n /\ \A i \in 1 .. n : kinds[i] \in OutputKinds
  OBVIOUS
<1>3. n <= m /\ n # 0
  <2>1. ~ (Len(kinds) > case.expected) /\ kinds # <<>>
    BY DEF Refused
  <2>2. Len(kinds) # 0
    BY <2>1
  <2> QED
    BY <1>1, <1>2, <2>1, <2>2
<1>4. p = [j \in 1 .. m |->
             IF j \in 1 .. n THEN Row(e, j, kinds[j] = "bad", kinds[InputsOf(kinds, j)])
             ELSE Row(e, 0, TRUE, kinds[InputsOf(kinds, 1)])]
  BY <1>2 DEF PolicyInput
<1>5. \A i \in 1 .. n : InputsOf(kinds, i) \in 1 .. n
  BY <1>2, InputsFacts
<1> HIDE DEF n, m, p
<1>6. 1 \in 1 .. n /\ 1 .. n \subseteq 1 .. m
  BY <1>1, <1>2, <1>3
<1>7. \A j \in 1 .. m :
        /\ p[j] \in RowType /\ p[j].episode = e
        /\ ~ p[j].padding => p[j].output = j
        /\ \E i \in 1 .. n : p[j].inputs = kinds[InputsOf(kinds, i)]
  <2> TAKE j \in 1 .. m
  <2>1. CASE j \in 1 .. n
    <3>1. p[j] = [episode |-> e, output |-> j, padding |-> kinds[j] = "bad",
                  inputs |-> kinds[InputsOf(kinds, j)]]
      BY <1>4, <2>1 DEF Row
    <3>2. kinds[InputsOf(kinds, j)] \in OutputKinds /\ j \in Nat /\ (kinds[j] = "bad") \in BOOLEAN
      BY <1>2, <1>5, <2>1
    <3> QED
      BY <2>1, <3>1, <3>2 DEF RowType
  <2>2. CASE j \notin 1 .. n
    <3>1. p[j] = [episode |-> e, output |-> 0, padding |-> TRUE, inputs |-> kinds[InputsOf(kinds, 1)]]
      BY <1>4, <2>2 DEF Row
    <3>2. kinds[InputsOf(kinds, 1)] \in OutputKinds
      BY <1>2, <1>5, <1>6
    <3> QED
      BY <1>6, <3>1, <3>2 DEF RowType
  <2> QED
    BY <2>1, <2>2
<1>8. p \in [1 .. m -> RowType]
  BY <1>4, <1>7
<1>9. p \in Seq(RowType) /\ Len(p) = m /\ DOMAIN p = 1 .. m
  BY <1>1, <1>8
<1>10. \A o \in GoodSteps(kinds) : o \in 1 .. m /\ p[o].output = o /\ ~ p[o].padding
  <2> TAKE o \in GoodSteps(kinds)
  <2>1. o \in 1 .. n /\ kinds[o] # "bad"
    BY <1>2 DEF GoodSteps
  <2>2. p[o] = [episode |-> e, output |-> o, padding |-> FALSE, inputs |-> kinds[InputsOf(kinds, o)]]
    BY <1>4, <1>6, <2>1 DEF Row
  <2> QED
    BY <1>6, <2>1, <2>2
<1>11. \A j \in 1 .. m :
         /\ p[j].episode = e
         /\ ~ p[j].padding => p[j].output = j
         /\ \E i \in DOMAIN kinds : p[j].inputs = kinds[InputsOf(kinds, i)]
  BY <1>2, <1>7
<1> QED
  BY <1>9, <1>10, <1>11 DEF p, m

-----------------------------------------------------------------------------
(* Types and artifacts                                                      *)

(* The run does not change, nor what is computed of it alone.               *)
LEMMA CaseStands ==
  ASSUME case' = case
  PROVE  /\ Ranks' = Ranks /\ Episodes' = Episodes /\ Steps' = Steps /\ RowType' = RowType
         /\ \A e : /\ Path(e)' = Path(e) /\ Advantage(e)' = Advantage(e) /\ Outputs(e)' = Outputs(e)
                   /\ Kinds(e)' = Kinds(e) /\ Spoils(e)' = Spoils(e) /\ Nesting(e)' = Nesting(e)
                   /\ Version(e)' = Version(e)
         /\ \A s : Kept(s)' = Kept(s) /\ Dropped(s)' = Dropped(s)
         /\ \A kinds : Refused(kinds)' = Refused(kinds)
         /\ \A e, kinds : PolicyInput(e, kinds)' = PolicyInput(e, kinds)
<1>1. Ranks' = Ranks /\ Episodes' = Episodes /\ Steps' = Steps
  BY DEF Ranks, Episodes, Steps
<1>2. RowType' = RowType
  BY <1>1 DEF RowType
<1>3. \A e : /\ Path(e)' = Path(e) /\ Advantage(e)' = Advantage(e) /\ Outputs(e)' = Outputs(e)
             /\ Kinds(e)' = Kinds(e) /\ Version(e)' = Version(e)
  BY DEF Path, Advantage, Outputs, Kinds, Version
<1>4. \A e : Spoils(e)' = Spoils(e) /\ Nesting(e)' = Nesting(e)
  BY <1>3 DEF Spoils, Nesting
<1>5. \A s : FreshFirst(s)' = FreshFirst(s)
  <2> TAKE s
  <2> DEFINE Before(c, i) ==
               {j \in DOMAIN s : \/ c.episodes[s[j]].version > c.episodes[s[i]].version
                                 \/ c.episodes[s[j]].version = c.episodes[s[i]].version /\ j < i}
             F(c) == [n \in DOMAIN s |-> s[CHOOSE i \in DOMAIN s : Cardinality(Before(c, i)) = n - 1]]
  <2>1. FreshFirst(s) = F(case) /\ FreshFirst(s)' = F(case')
    BY DEF FreshFirst, Fresher, Version
  <2> HIDE DEF F
  <2> QED
    BY <2>1
<1>6. \A s : Kept(s)' = Kept(s)
  BY <1>5 DEF Kept
<1>7. \A s : Dropped(s)' = Dropped(s)
  BY <1>6 DEF Dropped
<1>8. \A kinds : Refused(kinds)' = Refused(kinds)
  BY DEF Refused
<1>9. \A e, kinds : PolicyInput(e, kinds)' = PolicyInput(e, kinds)
  BY DEF PolicyInput
<1> QED
  BY <1>1, <1>2, <1>3, <1>4, <1>6, <1>7, <1>8, <1>9

(* A step leaves the loops of a rank alone, or not much.                    *)
LEMMA TypesOfWrite ==
  ASSUME TrainerTypes, WriteEpisode
  PROVE  TrainerTypes'
<1>1. case' = case /\ UNCHANGED rankVars
  BY DEF WriteEpisode
<1>2. Ranks' = Ranks /\ Episodes' = Episodes /\ RowType' = RowType
  BY <1>1, CaseStands
<1>3. written' \in 0 .. Len(case'.episodes)
  BY <1>1, CaseFacts DEF TrainerTypes, WriteEpisode, NextWrite, Episodes
<1>4. files' \in [DOMAIN files' -> Episodes]
  BY DEF TrainerTypes, WriteEpisode, NextWrite
<1> QED
  BY <1>1, <1>2, <1>3, <1>4 DEF TrainerTypes, rankVars, loopVars, modelVars

(* The steps of a rank keep the types: constructing the trainer,            *)
LEMMA TypesOfStart ==
  ASSUME TrainerTypes, NEW r \in Ranks, InitTrainer(r) \/ TrainerFails(r)
  PROVE  TrainerTypes'
<1>1. case' = case
  BY DEF InitTrainer, TrainerFails
<1>2. Ranks' = Ranks /\ Episodes' = Episodes /\ RowType' = RowType
  BY <1>1, CaseStands
<1>3. stage' \in [Ranks -> Stages] /\ failure' \in [Ranks -> Reasons]
  BY DEF TrainerTypes, InitTrainer, TrainerFails, Raise, Enter, Stages, Reasons
<1> QED
  BY <1>1, <1>2, <1>3 DEF TrainerTypes, InitTrainer, TrainerFails, workerVars, loopVars, modelVars

(* What a rank is sent.                                                     *)
LEMMA ReceivedFacts ==
  ASSUME case \in Cases, NEW r \in Ranks, NEW s \in Steps
  PROVE  /\ case.feed[s][r] \in Seq(Episodes) /\ IsInjective(case.feed[s][r])
         /\ Range(case.feed[s][r]) \subseteq Episodes
         /\ s \in 1 .. Len(case.feed)
         /\ case.feed[s][r] = <<>> \/ Len(case.feed[s][r]) >= case.batch
<1>1. case.feed[s] \in [Ranks -> Seq(Episodes)] /\ s \in 1 .. Len(case.feed)
  BY CaseFacts DEF Steps, Episodes, Ranks
<1>2. case.feed[s][r] \in Seq(Episodes)
  BY <1>1
<1>3. Range(case.feed[s][r]) \subseteq Episodes
  BY <1>2 DEF Range
<1>4. /\ IsInjective(case.feed[s][r])
      /\ case.feed[s][r] = <<>> \/ Len(case.feed[s][r]) >= case.batch
  BY DispatchAssumption DEF Steps, Ranks
<1> QED
  BY <1>1, <1>2, <1>3, <1>4

(* No rank finds a duplicate in it.                                         *)
LEMMA BeginFacts ==
  ASSUME TrainerTypes, NEW r \in Ranks, BeginStep(r)
  PROVE  /\ step[r] + 1 \in Steps /\ step[r] + 1 \in 0 .. Len(case.feed)
         /\ step' = [step EXCEPT ![r] = step[r] + 1]
         /\ stage[r] = "idle" /\ stage' = [stage EXCEPT ![r] = "load"] /\ failure' = failure
         /\ Received(r) \in Seq(Episodes) /\ IsInjective(Received(r))
         /\ Kept(Received(r)) \in Seq(Episodes)
         /\ kept' = [kept EXCEPT ![r] = Kept(Received(r))]
         /\ files' = [p \in DOMAIN files \ {Path(e) : e \in Dropped(Received(r))} |-> files[p]]
         /\ samples' = [samples EXCEPT ![r] = <<>>] /\ advantages' = [advantages EXCEPT ![r] = <<>>]
<1>1. case \in Cases /\ step[r] + 1 \in Steps
  BY DEF TrainerTypes, BeginStep, Dispatched
<1>2. Received(r) \in Seq(Episodes) /\ IsInjective(Received(r))
  BY <1>1, ReceivedFacts DEF Received
<1>3. Cardinality({Path(e) : e \in Range(Received(r))}) = Len(Received(r))
  BY <1>2, NoDuplicate
<1>4. Kept(Received(r)) \in Seq(Episodes)
  BY <1>1, <1>2, KeptFacts
<1>5. step[r] + 1 \in 0 .. Len(case.feed)
  BY <1>1, ReceivedFacts
<1> QED
  BY <1>1, <1>2, <1>3, <1>4, <1>5 DEF BeginStep, Enter

(* beginning a step,                                                        *)
LEMMA TypesOfBegin ==
  ASSUME TrainerTypes, NEW r \in Ranks, BeginStep(r)
  PROVE  TrainerTypes'
<1>0. /\ step' = [step EXCEPT ![r] = step[r] + 1] /\ step[r] + 1 \in 0 .. Len(case.feed)
      /\ stage' = [stage EXCEPT ![r] = "load"] /\ failure' = failure
      /\ Kept(Received(r)) \in Seq(Episodes) /\ kept' = [kept EXCEPT ![r] = Kept(Received(r))]
      /\ files' = [p \in DOMAIN files \ {Path(e) : e \in Dropped(Received(r))} |-> files[p]]
      /\ samples' = [samples EXCEPT ![r] = <<>>] /\ advantages' = [advantages EXCEPT ![r] = <<>>]
  BY BeginFacts
<1>1. case' = case
  BY DEF BeginStep
<1>2. Ranks' = Ranks /\ Episodes' = Episodes /\ RowType' = RowType
  BY <1>1, CaseStands
<1>3. stage' \in [Ranks -> Stages] /\ failure' \in [Ranks -> Reasons]
      /\ step' \in [Ranks -> 0 .. Len(case.feed)] /\ kept' \in [Ranks -> Seq(Episodes)]
  BY <1>0 DEF TrainerTypes, Stages
<1>4. samples' \in [Ranks -> Seq(RowType)] /\ advantages' \in [Ranks -> Seq(Int)]
  <2>1. <<>> \in Seq(RowType) /\ <<>> \in Seq(Int)
    OBVIOUS
  <2> QED
    BY <1>0, <2>1 DEF TrainerTypes
<1>5. files' \in [DOMAIN files' -> Episodes]
  BY <1>0 DEF TrainerTypes
<1> QED
  BY <1>1, <1>2, <1>3, <1>4, <1>5 DEF TrainerTypes, BeginStep, modelVars

(* What a rank finds where it looks for a rollout.                          *)
LEMMA LoadFacts ==
  ASSUME TrainerTypes, FilesAreKept, NEW r \in Ranks, KeptIsDispatched(r), Bounds(r),
         stage[r] = "load", Loaded(r) < Len(kept[r])
  PROVE  /\ Loaded(r) \in Nat /\ Loaded(r) + 1 \in DOMAIN kept[r]
         /\ ToLoad(r) \in Range(kept[r]) /\ ToLoad(r) \in Episodes /\ ToLoad(r) \in 1 .. written
         /\ Ships(case, ToLoad(r)) /\ Kinds(ToLoad(r)) \in Seq(OutputKinds)
         /\ Path(ToLoad(r)) \in DOMAIN files => files[Path(ToLoad(r))] = ToLoad(r)
<1> DEFINE e == ToLoad(r)
<1>1. case.expected \in Nat \ {0} /\ samples[r] \in Seq(RowType) /\ kept[r] \in Seq(Episodes)
  BY CaseFacts DEF TrainerTypes
<1>2. Loaded(r) \in Nat
  <2>1. Len(samples[r]) \in Nat
    BY <1>1
  <2> QED
    BY <1>1, <2>1, Quotient DEF Loaded
<1>3. Loaded(r) + 1 \in DOMAIN kept[r]
  BY <1>1, <1>2
<1>4. e \in Range(kept[r]) /\ e \in Episodes
  BY <1>1, <1>3 DEF ToLoad, Range
<1>5. e <= written
  BY <1>4 DEF KeptIsDispatched, Stepping
<1>6. e \in 1 .. written
  <2>1. case.episodes \in Seq(EpisodeType)
    BY CaseFacts DEF TrainerTypes
  <2>2. DOMAIN case.episodes = 1 .. Len(case.episodes)
    BY <2>1
  <2>3. e \in 1 .. Len(case.episodes) /\ written \in Nat
    BY <1>4, <2>1, <2>2 DEF TrainerTypes, Episodes
  <2> QED
    BY <1>5, <2>1, <2>3
<1>7. Ships(case, e)
  BY <1>6 DEF FilesAreKept
<1>8. Kinds(e) \in Seq(OutputKinds)
  BY <1>4, <1>7, SeenFacts DEF TrainerTypes
<1>9. Path(e) \in DOMAIN files => files[Path(e)] = e
  BY DEF FilesAreKept, Path
<1> QED
  BY <1>2, <1>3, <1>4, <1>6, <1>7, <1>8, <1>9

(* The artifact of a rollout that is kept was dropped by no rank: those that*)
(* were sent it drop the same.                                              *)
LEMMA ArtifactIsThere ==
  ASSUME TrainerTypes, FilesAreKept, NEW r \in Ranks, KeptIsDispatched(r), Bounds(r),
         stage[r] = "load", Loaded(r) < Len(kept[r])
  PROVE  Path(ToLoad(r)) \in DOMAIN files
<1> DEFINE e == ToLoad(r)
           s == step[r]
<1>1. e \in Range(kept[r]) /\ e \in Episodes /\ e \in 1 .. written
  BY LoadFacts
<1>2. s \in Steps /\ kept[r] = Kept(case.feed[s][r]) /\ case \in Cases
  BY DEF KeptIsDispatched, Stepping, TrainerTypes
<1> HIDE DEF e
<1>4. e \in Range(case.feed[s][r])
  BY <1>1, <1>2, ReceivedFacts, KeptFacts
<1>5. ASSUME WasDropped(e)
      PROVE  FALSE
  <2>1. PICK q \in Ranks : \E t \in 1 .. step[q] : e \in Dropped(case.feed[t][q])
    BY <1>5 DEF WasDropped
  <2>2. PICK t \in 1 .. step[q] : e \in Dropped(case.feed[t][q])
    BY <2>1
  <2>3. case.feed \in Seq([1 .. case.ranks -> Seq(DOMAIN case.episodes)])
    BY <1>2, CaseFacts
  <2>4. t \in Steps
    <3>1. step[q] \in 0 .. Len(case.feed)
      BY DEF TrainerTypes
    <3>2. Len(case.feed) \in Nat /\ Steps = 1 .. Len(case.feed)
      BY <2>3 DEF Steps
    <3> QED
      BY <3>1, <3>2
  <2>5. e \in Range(case.feed[t][q]) /\ e \notin Range(Kept(case.feed[t][q]))
    BY <2>2 DEF Dropped
  <2>6. case.feed[s][r] = case.feed[t][q] \/ Range(case.feed[s][r]) \cap Range(case.feed[t][q]) = {}
    BY <1>2, <2>4, DispatchAssumption DEF Steps, Ranks
  <2> QED
    BY <1>1, <1>2, <1>4, <2>5, <2>6
<1>6. Path(e) \in DOMAIN files
  BY <1>1, <1>5 DEF FilesAreKept
<1> QED
  BY <1>6 DEF e

(* So loading a rollout refuses it, or adds its rows to the pool.           *)
Filled(r, e)   == PolicyInput(e, Kinds(e))
Weighed(r, e)  == [i \in DOMAIN Filled(r, e) |-> IF Filled(r, e)[i].padding THEN 0 ELSE Advantage(e)]

(* What LoadRollout can do where the artifact is there.                     *)
LEMMA LoadCases ==
  ASSUME TrainerTypes, FilesAreKept, NEW r \in Ranks, KeptIsDispatched(r), Bounds(r), LoadRollout(r)
  PROVE  /\ stage[r] = "load" /\ Loaded(r) < Len(kept[r])
         /\ \/ /\ Refused(Kinds(ToLoad(r)))
               /\ stage' = [stage EXCEPT ![r] = "raised"] /\ failure' = [failure EXCEPT ![r] = "refused"]
               /\ samples' = samples /\ advantages' = advantages
            \/ /\ ~ Refused(Kinds(ToLoad(r))) /\ stage' = stage /\ failure' = failure
               /\ samples' = [samples EXCEPT ![r] = @ \o Filled(r, ToLoad(r))]
               /\ advantages' = [advantages EXCEPT ![r] = @ \o Weighed(r, ToLoad(r))]
<1> DEFINE e == ToLoad(r)
<1>1. stage[r] = "load" /\ Loaded(r) < Len(kept[r])
  BY DEF LoadRollout
<1>2. Path(e) \in DOMAIN files /\ files[Path(e)] = e
  BY <1>1, ArtifactIsThere, LoadFacts
<1> HIDE DEF e
<1>3. CASE Refused(Kinds(e))
  BY <1>1, <1>2, <1>3 DEF LoadRollout, Raise, e
<1>4. CASE ~ Refused(Kinds(e))
  BY <1>1, <1>2, <1>4 DEF LoadRollout, Filled, Weighed, e
<1> QED
  BY <1>1, <1>3, <1>4 DEF e

(* What is added.                                                           *)
LEMMA FilledFacts ==
  ASSUME TrainerTypes, NEW r \in Ranks, NEW e \in Episodes, Kinds(e) \in Seq(OutputKinds), ~ Refused(Kinds(e))
  PROVE  /\ Filled(r, e) \in Seq(RowType) /\ Weighed(r, e) \in Seq(Int)
         /\ Len(Filled(r, e)) = case.expected /\ Len(Weighed(r, e)) = case.expected
         /\ DOMAIN Filled(r, e) = 1 .. case.expected /\ DOMAIN Weighed(r, e) = 1 .. case.expected
<1>1. case \in Cases
  BY DEF TrainerTypes
<1>2. /\ Filled(r, e) \in Seq(RowType) /\ Len(Filled(r, e)) = case.expected
      /\ DOMAIN Filled(r, e) = 1 .. case.expected
  BY <1>1, RowsOfEpisode DEF Filled
<1>3. Advantage(e) \in Int /\ case.expected \in Nat
  BY <1>1, EpisodeFacts, CaseFacts
<1>4. Weighed(r, e) \in [1 .. case.expected -> Int]
  BY <1>2, <1>3 DEF Weighed
<1> QED
  BY <1>2, <1>3, <1>4

(* Types: loading a rollout,                                                *)
LEMMA TypesOfLoad ==
  ASSUME TrainerTypes, FilesAreKept, NEW r \in Ranks, KeptIsDispatched(r), Bounds(r), LoadRollout(r)
  PROVE  TrainerTypes'
<1> DEFINE e == ToLoad(r)
<1>1. case' = case
  BY DEF LoadRollout
<1>2. Ranks' = Ranks /\ Episodes' = Episodes /\ RowType' = RowType
  BY <1>1, CaseStands
<1>3. e \in Episodes /\ Kinds(e) \in Seq(OutputKinds)
  BY LoadFacts DEF LoadRollout
<1> HIDE DEF e
<1>4. /\ stage' \in [Ranks -> Stages] /\ failure' \in [Ranks -> Reasons]
      /\ samples' \in [Ranks -> Seq(RowType)] /\ advantages' \in [Ranks -> Seq(Int)]
  <2>1. CASE /\ stage' = [stage EXCEPT ![r] = "raised"] /\ failure' = [failure EXCEPT ![r] = "refused"]
             /\ samples' = samples /\ advantages' = advantages
    BY <2>1 DEF TrainerTypes, Stages, Reasons
  <2>2. CASE /\ ~ Refused(Kinds(e)) /\ stage' = stage /\ failure' = failure
             /\ samples' = [samples EXCEPT ![r] = @ \o Filled(r, e)]
             /\ advantages' = [advantages EXCEPT ![r] = @ \o Weighed(r, e)]
    <3>1. Filled(r, e) \in Seq(RowType) /\ Weighed(r, e) \in Seq(Int)
      BY <1>3, <2>2, FilledFacts
    <3>2. samples[r] \o Filled(r, e) \in Seq(RowType) /\ advantages[r] \o Weighed(r, e) \in Seq(Int)
      BY <3>1 DEF TrainerTypes
    <3> QED
      BY <2>2, <3>2 DEF TrainerTypes
  <2> QED
    BY <2>1, <2>2, LoadCases DEF e
<1> QED
  BY <1>1, <1>2, <1>4 DEF TrainerTypes, LoadRollout, workerVars, modelVars

(* the loops,                                                               *)
LEMMA TypesOfLoop ==
  ASSUME TrainerTypes, NEW r \in Ranks, BeginLoop(r) \/ TrainMinibatch(r) \/ AfterReduce(r)
  PROVE  TrainerTypes'
<1>1. case' = case
  BY DEF BeginLoop, TrainMinibatch, AfterReduce
<1>2. Ranks' = Ranks /\ Episodes' = Episodes /\ RowType' = RowType
  BY <1>1, CaseStands
<1>3. Rows(r) \in SUBSET Nat
  BY DEF TrainerTypes, Rows
<1>. DEFINE Numbers == [Ranks -> Nat]
            Sets    == [Ranks -> SUBSET Nat]
<1>7. /\ iteration \in Numbers /\ minibatch \in Numbers /\ left \in Sets
      /\ reduces \in Numbers /\ updates \in Numbers
  BY DEF TrainerTypes
<1>8. \A f \in Numbers : \A n \in Nat : [f EXCEPT ![r] = n] \in Numbers /\ f[r] \in Nat /\ f[r] + 1 \in Nat
  OBVIOUS
<1>9. \A f \in Sets : \A s \in SUBSET Nat : [f EXCEPT ![r] = s] \in Sets /\ f[r] \in SUBSET Nat
  OBVIOUS
<1>10. 1 \in Nat
  OBVIOUS
<1>4. CASE BeginLoop(r)
  <2>1. stage' \in [Ranks -> Stages] /\ failure' \in [Ranks -> Reasons]
    BY <1>4 DEF TrainerTypes, BeginLoop, Raise, Enter, Stages, Reasons
  <2>2. reference' \in [Ranks -> Nat]
    <3>1. EnsuredReference(r) \in Nat
      BY DEF TrainerTypes, EnsuredReference
    <3> QED
      BY <1>4, <3>1 DEF TrainerTypes, BeginLoop
  <2>3. iteration' \in [Ranks -> Nat] /\ minibatch' \in [Ranks -> Nat] /\ left' \in [Ranks -> SUBSET Nat]
    <3>1. /\ iteration' = iteration \/ iteration' = [iteration EXCEPT ![r] = 1]
          /\ minibatch' = minibatch \/ minibatch' = [minibatch EXCEPT ![r] = 1]
          /\ left' = left \/ left' = [left EXCEPT ![r] = Rows(r)]
      BY <1>4 DEF BeginLoop
    <3> HIDE DEF Numbers, Sets
    <3>2. iteration' \in Numbers /\ minibatch' \in Numbers /\ left' \in Sets
      BY <1>3, <1>7, <1>8, <1>9, <1>10, <3>1
    <3> QED
      BY <3>2 DEF Numbers, Sets
  <2> QED
    BY <1>1, <1>2, <1>4, <2>1, <2>2, <2>3 DEF TrainerTypes, BeginLoop, workerVars
<1>5. CASE TrainMinibatch(r)
  <2>1. stage' \in [Ranks -> Stages] /\ failure' \in [Ranks -> Reasons]
    BY <1>5 DEF TrainerTypes, TrainMinibatch, Raise, Enter, Stages, Reasons
  <2>2. left' \in [Ranks -> SUBSET Nat]
    <3>1. left' = left \/ \E slice : left' = [left EXCEPT ![r] = left[r] \ slice]
      BY <1>5 DEF TrainMinibatch
    <3> QED
      BY <3>1 DEF TrainerTypes
  <2>3. gradient' \in [Ranks -> Gradient]
    <3>1. \A batch : Gradients(batch) \subseteq Gradient
      BY DEF Gradients, Gradient
    <3> QED
      <4>1. gradient' = gradient \/ \E g \in Gradient : gradient' = [gradient EXCEPT ![r] = g]
        BY <1>5, <3>1 DEF TrainMinibatch
      <4> QED
        BY <4>1 DEF TrainerTypes
  <2> QED
    BY <1>1, <1>2, <1>5, <2>1, <2>2, <2>3 DEF TrainerTypes, TrainMinibatch, workerVars, modelVars
<1>6. CASE AfterReduce(r)
  <2>1. stage' \in [Ranks -> Stages] /\ failure' \in [Ranks -> Reasons]
    <3>1. /\ \E at \in Stages : stage' = [stage EXCEPT ![r] = at]
          /\ failure' = failure \/ failure' = [failure EXCEPT ![r] = "gradient"]
      BY <1>6 DEF AfterReduce, NextInLoop, Raise, Enter, Stages
    <3>2. stage' \in [Ranks -> Stages]
      BY <3>1 DEF TrainerTypes
    <3>3. failure' \in [Ranks -> Reasons]
      BY <3>1 DEF TrainerTypes, Reasons
    <3> QED
      BY <3>2, <3>3
  <2>2. iteration' \in [Ranks -> Nat] /\ minibatch' \in [Ranks -> Nat] /\ left' \in [Ranks -> SUBSET Nat]
    <3>1. /\ iteration' = iteration \/ iteration' = [iteration EXCEPT ![r] = iteration[r]]
             \/ iteration' = [iteration EXCEPT ![r] = iteration[r] + 1]
          /\ minibatch' = minibatch \/ minibatch' = [minibatch EXCEPT ![r] = 1]
             \/ minibatch' = [minibatch EXCEPT ![r] = minibatch[r]]
             \/ minibatch' = [minibatch EXCEPT ![r] = minibatch[r] + 1]
          /\ left' = left \/ left' = [left EXCEPT ![r] = Rows(r)] \/ left' = [left EXCEPT ![r] = left[r]]
      BY <1>6 DEF AfterReduce, NextInLoop
    <3> HIDE DEF Numbers, Sets
    <3>2. iteration' \in Numbers /\ minibatch' \in Numbers /\ left' \in Sets
      BY <1>3, <1>7, <1>8, <1>9, <1>10, <3>1
    <3> QED
      BY <3>2 DEF Numbers, Sets
  <2>3. reduces' \in [Ranks -> Nat] /\ updates' \in [Ranks -> Nat]
    <3>1. /\ reduces' = [reduces EXCEPT ![r] = reduces[r] + 1]
          /\ updates' = updates \/ updates' = [updates EXCEPT ![r] = updates[r]]
             \/ updates' = [updates EXCEPT ![r] = updates[r] + 1]
      BY <1>6 DEF AfterReduce
    <3> HIDE DEF Numbers
    <3>2. reduces' \in Numbers /\ updates' \in Numbers
      BY <1>7, <1>8, <1>10, <3>1
    <3> QED
      BY <3>2 DEF Numbers
  <2>4. DOMAIN trained' = Ranks
    BY <1>6 DEF TrainerTypes, AfterReduce, NextInLoop
  <2> QED
    BY <1>1, <1>2, <1>6, <2>1, <2>2, <2>3, <2>4 DEF TrainerTypes, AfterReduce, workerVars
<1> QED
  BY <1>4, <1>5, <1>6

(* and the collective.                                                      *)
LEMMA TypesOfReduce ==
  ASSUME TrainerTypes, Reduce
  PROVE  TrainerTypes'
<1>1. case' = case
  BY DEF Reduce
<1>2. Ranks' = Ranks /\ Episodes' = Episodes /\ RowType' = RowType
  BY <1>1, CaseStands
<1>3. stage' \in [Ranks -> Stages]
  BY DEF TrainerTypes, Reduce, Stages
<1>4. gradient' \in [Ranks -> Gradient]
  BY DEF TrainerTypes, Reduce, Reduced, Sum, Gradient
<1> QED
  BY <1>1, <1>2, <1>3, <1>4 DEF TrainerTypes, Reduce, workerVars, modelVars

(* What a checkpoint leaves.                                                *)
LEMMA TypesOfFinish ==
  ASSUME TrainerTypes, NEW r \in Ranks, FinishStep(r) \/ SaveFails(r)
  PROVE  TrainerTypes'
<1>1. case' = case
  BY DEF FinishStep, SaveFails, ExpertFails
<1>2. Ranks' = Ranks /\ Episodes' = Episodes /\ RowType' = RowType
  BY <1>1, CaseStands
<1>3. stage' \in [Ranks -> Stages] /\ failure' \in [Ranks -> Reasons]
  BY DEF TrainerTypes, FinishStep, SaveFails, ExpertFails, Raise, Enter, Stages, Reasons
<1>4. reference' \in [Ranks -> Nat]
  BY DEF TrainerTypes, FinishStep, SaveFails, ExpertFails
<1>5. saved' \subseteq {"expert", "export", "resume"} \X case.save
  BY DEF TrainerTypes, FinishStep, SaveFails, ExpertFails, Saves, Expert, Exports
<1> QED
  BY <1>1, <1>2, <1>3, <1>4, <1>5 DEF TrainerTypes, FinishStep, SaveFails, ExpertFails, workerVars, loopVars

(* The steps that touch neither artifacts nor the step a rank is at.        *)
LEMMA OtherSteps ==
  ASSUME NEW r \in Ranks, RankSteps(r), ~ BeginStep(r)
  PROVE  case' = case /\ written' = written /\ files' = files /\ step' = step /\ kept' = kept
BY DEF RankSteps, InitTrainer, TrainerFails, LoadRollout, BeginLoop, TrainMinibatch, AfterReduce,
       FinishStep, SaveFails, ExpertFails, workerVars, loopVars

(* No step changes the run.                                                 *)
LEMMA CaseIsFixed ==
  ASSUME TrainerNext
  PROVE  case' = case
BY OtherSteps DEF TrainerNext, WriteEpisode, Reduce, BeginStep

(* Every artifact that is gone was dropped.                                 *)
LEMMA FilesStep ==
  ASSUME TrainerTypes, FilesAreKept, TrainerNext
  PROVE  FilesAreKept'
<1>1. case' = case /\ Ranks' = Ranks /\ case \in Cases
  BY CaseIsFixed, CaseStands DEF TrainerTypes
<1>2. (\A e : Path(e)' = Path(e)) /\ (\A s : Dropped(s)' = Dropped(s))
  BY <1>1, CaseStands
<1>3. \A d, e : Path(d) = Path(e) => d = e
  BY DEF Path
<1>4. written \in Nat
  <2>1. Len(case.episodes) \in Nat
    BY <1>1, CaseFacts
  <2> QED
    BY <2>1 DEF TrainerTypes
<1>5. CASE WriteEpisode
  <2> DEFINE n == NextWrite
  <2>1. /\ written' = n /\ n = written + 1 /\ Ships(case, n) /\ step' = step
        /\ files' = [p \in DOMAIN files \cup {Path(n)} |-> IF p = Path(n) THEN n ELSE files[p]]
    BY <1>5 DEF WriteEpisode, WriterHasEnded, NextWrite, rankVars
  <2>2. \A e \in 1 .. written' : e = n \/ e \in 1 .. written
    BY <1>4, <2>1
  <2>3. n \in 1 .. written' /\ 1 .. written \subseteq 1 .. written'
    BY <1>4, <2>1
  <2> HIDE DEF n
  <2>4. \A e : WasDropped(e) => WasDropped(e)'
    BY <1>1, <1>2, <2>1 DEF WasDropped
  <2>5. \A e \in 1 .. written' : Ships(case', e)
    BY <1>1, <2>1, <2>2 DEF FilesAreKept
  <2>6. \A p \in DOMAIN files' : files'[p] \in 1 .. written' /\ p = Path(files'[p])
    BY <2>1, <2>3 DEF FilesAreKept
  <2>7. \A e \in 1 .. written' : Path(e) \in DOMAIN files' \/ WasDropped(e)'
    BY <2>1, <2>2, <2>4 DEF FilesAreKept
  <2> QED
    BY <1>2, <2>5, <2>6, <2>7 DEF FilesAreKept
<1>6. ASSUME NEW r \in Ranks, BeginStep(r)
      PROVE  FilesAreKept'
  <2> DEFINE s == Received(r)
  <2>1. /\ step' = [step EXCEPT ![r] = step[r] + 1]
        /\ files' = [p \in DOMAIN files \ {Path(e) : e \in Dropped(s)} |-> files[p]]
    BY <1>6, BeginFacts
  <2>2. step \in [Ranks -> Nat] /\ written' = written
    <3>1. Len(case.feed) \in Nat
      BY <1>1, CaseFacts
    <3> QED
      BY <1>6, <3>1 DEF TrainerTypes, BeginStep
  <2>3. s = case.feed[step'[r]][r] /\ step'[r] \in 1 .. step'[r]
    BY <2>1, <2>2 DEF Received
  <2> HIDE DEF s
  <2>4. \A e : WasDropped(e) => WasDropped(e)'
    <3> SUFFICES ASSUME NEW e, WasDropped(e)
                 PROVE  WasDropped(e)'
      OBVIOUS
    <3>1. PICK q \in Ranks : \E t \in 1 .. step[q] : e \in Dropped(case.feed[t][q])
      BY DEF WasDropped
    <3>2. 1 .. step[q] \subseteq 1 .. step'[q]
      BY <2>1, <2>2
    <3> QED
      BY <1>1, <1>2, <3>1, <3>2 DEF WasDropped
  <2>5. \A e \in Dropped(s) : WasDropped(e)'
    BY <1>1, <1>2, <2>3 DEF WasDropped
  <2>6. \A e \in 1 .. written : Path(e) \in DOMAIN files' \/ WasDropped(e)'
    BY <1>3, <2>1, <2>4, <2>5 DEF FilesAreKept
  <2>7. \A p \in DOMAIN files' : files'[p] \in 1 .. written' /\ p = Path(files'[p])
    BY <2>1, <2>2 DEF FilesAreKept
  <2>8. \A e \in 1 .. written' : Ships(case', e)
    BY <1>1, <2>2 DEF FilesAreKept
  <2> QED
    BY <1>2, <2>2, <2>6, <2>7, <2>8 DEF FilesAreKept
<1>7. ASSUME written' = written, files' = files, step' = step
      PROVE  FilesAreKept'
  <2>1. \A e : WasDropped(e) => WasDropped(e)'
    BY <1>1, <1>2, <1>7 DEF WasDropped
  <2> QED
    BY <1>1, <1>2, <1>7, <2>1 DEF FilesAreKept
<1>8. Reduce => written' = written /\ files' = files /\ step' = step
  BY DEF Reduce, workerVars
<1> QED
  BY <1>5, <1>6, <1>7, <1>8, OtherSteps DEF TrainerNext

(* What was asked for stays saved.                                          *)
LEMMA SavesStep ==
  ASSUME TrainerTypes, SavesStand, \A r \in Ranks : Bounds(r), TrainerNext
  PROVE  SavesStand'
<1>1. case' = case /\ Ranks' = Ranks /\ case \in Cases /\ 1 \in Ranks
  <2>1. case' = case /\ Ranks' = Ranks /\ case \in Cases
    BY CaseIsFixed, CaseStands DEF TrainerTypes
  <2> QED
    BY <2>1, CaseFacts DEF Ranks
<1>2. step \in [Ranks -> Nat] /\ case.save \subseteq Nat
  <2>1. Len(case.feed) \in Nat /\ case.save \subseteq Nat
    BY <1>1, CaseFacts
  <2> QED
    BY <2>1 DEF TrainerTypes
<1>3. ASSUME step' = step, saved \subseteq saved', stage'[1] = "idle" => stage[1] = "idle" \/ step[1] = 0
      PROVE  SavesStand'
  <2>1. \A s \in case.save : s # 0
    BY <1>1, CaseFacts
  <2> QED
    BY <1>1, <1>2, <1>3, <2>1 DEF SavesStand
<1>4. ASSUME NEW r \in Ranks, BeginStep(r)
      PROVE  SavesStand'
  <2>1. /\ step' = [step EXCEPT ![r] = step[r] + 1] /\ stage[r] = "idle"
        /\ stage' = [stage EXCEPT ![r] = "load"] /\ saved' = saved
    BY <1>4, BeginFacts DEF BeginStep, modelVars
  <2>2. CASE r = 1
    <3>1. \A s \in case.save : s < step'[1] => s < step[1] \/ s = step[1]
      BY <1>1, <1>2, <2>1, <2>2
    <3>2. stage'[1] # "idle"
      BY <1>1, <2>1, <2>2 DEF TrainerTypes
    <3> QED
      BY <1>1, <2>1, <2>2, <3>1, <3>2 DEF SavesStand
  <2>3. CASE r # 1
    <3>1. step'[1] = step[1] /\ stage'[1] = stage[1]
      BY <1>1, <2>1, <2>3 DEF TrainerTypes
    <3> QED
      BY <1>1, <2>1, <3>1 DEF SavesStand
  <2> QED
    BY <2>2, <2>3
<1>5. ASSUME NEW r \in Ranks, FinishStep(r) \/ SaveFails(r)
      PROVE  SavesStand'
  <2>1. step' = step /\ saved \subseteq saved'
    BY <1>5 DEF FinishStep, SaveFails, ExpertFails
  <2>2. CASE r # 1
    BY <1>1, <1>3, <1>5, <2>1, <2>2 DEF FinishStep, SaveFails, ExpertFails, Enter, Raise, TrainerTypes
  <2>3. CASE r = 1 /\ stage'[1] = "idle"
    <3>1. step[1] \in case.save => saved' \cap {<<"expert", step[1]>>, <<"resume", step[1]>>} # {}
      BY <1>1, <1>5, <2>3 DEF FinishStep, SaveFails, ExpertFails, Saves, Master, Tolerated, Expert, Raise,
                              TrainerTypes
    <3> QED
      BY <1>1, <1>2, <2>1, <3>1 DEF SavesStand
  <2>4. CASE stage'[1] # "idle"
    BY <1>3, <2>1, <2>4
  <2> QED
    BY <2>2, <2>3, <2>4
<1>6. ASSUME NEW r \in Ranks, RankSteps(r), ~ BeginStep(r), ~ (FinishStep(r) \/ SaveFails(r))
      PROVE  SavesStand'
  <2>1. step' = step /\ saved' = saved
    BY <1>6 DEF RankSteps, InitTrainer, TrainerFails, LoadRollout, BeginLoop, TrainMinibatch, AfterReduce,
       modelVars
  <2>2. CASE InitTrainer(r)
    <3>1. stage'[1] = "idle" => stage[1] = "idle" \/ step[1] = 0
      BY <1>1, <2>2 DEF InitTrainer, Enter, TrainerTypes, Bounds
    <3> QED
      BY <1>3, <2>1, <3>1
  <2>3. CASE ~ InitTrainer(r)
    <3>1. stage'[1] = "idle" => stage[1] = "idle"
      <4>1. TrainerFails(r) \/ LoadRollout(r) \/ BeginLoop(r) \/ TrainMinibatch(r) \/ AfterReduce(r)
        BY <1>6, <2>3 DEF RankSteps
      <4>2. stage' = stage \/ \E at \in Stages \ {"idle"} : stage' = [stage EXCEPT ![r] = at]
        BY <4>1 DEF TrainerFails, LoadRollout, BeginLoop, TrainMinibatch, AfterReduce, NextInLoop,
           Raise, Enter, Stages
      <4> QED
        BY <1>1, <4>2 DEF TrainerTypes
    <3> QED
      BY <1>3, <2>1, <3>1
  <2> QED
    BY <2>2, <2>3
<1>7. WriteEpisode => step' = step /\ saved' = saved /\ stage' = stage
  BY DEF WriteEpisode, rankVars, modelVars
<1>8. Reduce => step' = step /\ saved' = saved /\ (stage'[1] = "idle" => stage[1] = "idle")
  BY <1>1 DEF Reduce, modelVars, TrainerTypes
<1> QED
  BY <1>3, <1>4, <1>5, <1>6, <1>7, <1>8 DEF TrainerNext

-----------------------------------------------------------------------------
(* What each rank has to itself: kept rollouts, pool, loops                 *)

(* A rank that a step does not touch.                                       *)
SamePool(q) == kept'[q] = kept[q] /\ samples'[q] = samples[q] /\ advantages'[q] = advantages[q]
SameLoop(q) ==
  /\ iteration'[q] = iteration[q] /\ minibatch'[q] = minibatch[q]
  /\ left'[q] = left[q] /\ trained'[q] = trained[q]
SameModel(q) == reduces'[q] = reduces[q] /\ updates'[q] = updates[q] /\ reference'[q] = reference[q]
SameRank(q) ==
  /\ stage'[q] = stage[q] /\ step'[q] = step[q] /\ failure'[q] = failure[q]
  /\ SamePool(q) /\ SameLoop(q)

(* What is computed of a pool that is left alone,                           *)
LEMMA PoolStands ==
  ASSUME case' = case, NEW q, SamePool(q)
  PROVE  /\ Rows(q)' = Rows(q) /\ Loaded(q)' = Loaded(q)
         /\ MiniBatchSize(q)' = MiniBatchSize(q) /\ NumMiniBatches(q)' = NumMiniBatches(q)
         /\ \A i, k, j : IsRow(q, i, k, j)' <=> IsRow(q, i, k, j)
<1>1. Rows(q)' = Rows(q) /\ Loaded(q)' = Loaded(q) /\ MiniBatchSize(q)' = MiniBatchSize(q)
  BY DEF Rows, Loaded, MiniBatchSize, SamePool
<1>2. NumMiniBatches(q)' = NumMiniBatches(q)
  BY <1>1 DEF NumMiniBatches, SamePool
<1>3. \A i, k, j : IsRow(q, i, k, j)' <=> IsRow(q, i, k, j)
  BY CaseStands DEF IsRow, SamePool
<1> QED
  BY <1>1, <1>2, <1>3

(* and of its rollouts: writing more episodes does not change them.         *)
LEMMA KeptStands ==
  ASSUME case' = case, NEW q \in Ranks, KeptIsDispatched(q), written' >= written, written \in Nat, written' \in Nat,
         kept[q] \in Seq(Episodes), Episodes \subseteq Nat,
         step'[q] = step[q], kept'[q] = kept[q], stage'[q] \in Stepping => stage[q] \in Stepping
  PROVE  KeptIsDispatched(q)'
<1>1. Steps' = Steps /\ \A s : Kept(s)' = Kept(s)
  BY CaseStands
<1>2. \A e \in Range(kept[q]) : e \in Nat
  <2>1. \A i \in DOMAIN kept[q] : kept[q][i] \in Episodes
    OBVIOUS
  <2> QED
    BY <2>1 DEF Range
<1>3. \A e \in Range(kept[q]) : e <= written => e <= written'
  BY <1>2
<1> QED
  BY <1>1, <1>3 DEF KeptIsDispatched

(* A pool that is left alone stays packed,                                  *)
LEMMA PackedStands ==
  ASSUME case' = case, NEW q \in Ranks, PoolIsPacked(q), SamePool(q),
         stage'[q] \in Stepping => stage[q] \in Stepping
  PROVE  PoolIsPacked(q)'
<1>1. Loaded(q)' = Loaded(q) /\ Rows(q)' = Rows(q) /\ \A i, k, j : IsRow(q, i, k, j)' <=> IsRow(q, i, k, j)
  BY PoolStands
<1>2. \A e : Kinds(e)' = Kinds(e)
  BY CaseStands
<1>3. \A kinds : Refused(kinds)' <=> Refused(kinds)
  BY CaseStands
<1>4. \A k : Refused(Kinds(kept[q][k]))' <=> Refused(Kinds(kept[q][k]))
  BY <1>2, <1>3 DEF SamePool
<1> QED
  BY <1>1, <1>4 DEF PoolIsPacked, SamePool

(* and loops that are left alone stay counted, the collective passed or     *)
(* not.                                                                     *)
LEMMA LoopStands ==
  ASSUME case' = case, NEW q \in Ranks, LoopIsCounted(q), SamePool(q), SameLoop(q),
         stage'[q] = stage[q] \/ (stage[q] = "reduce" /\ stage'[q] = "reduced") \/ stage'[q] = "raised"
         \/ (stage[q] \notin Looping \cup {"raised"} /\ stage'[q] \notin Looping)
  PROVE  LoopIsCounted(q)'
<1>1. /\ Rows(q)' = Rows(q) /\ Loaded(q)' = Loaded(q)
      /\ MiniBatchSize(q)' = MiniBatchSize(q) /\ NumMiniBatches(q)' = NumMiniBatches(q)
  BY PoolStands
<1>2. stage'[q] = stage[q] => SlicesSoFar(q)' = SlicesSoFar(q)
  BY DEF SlicesSoFar, SameLoop
<1>3. stage[q] = "reduce" /\ stage'[q] = "reduced" => SlicesSoFar(q)' = SlicesSoFar(q)
  BY DEF SlicesSoFar, SameLoop
<1>4. CASE stage'[q] = stage[q] \/ (stage[q] = "reduce" /\ stage'[q] = "reduced")
  BY <1>1, <1>2, <1>3, <1>4 DEF LoopIsCounted, SamePool, SameLoop, Looping
<1>5. CASE stage'[q] = "raised"
  BY <1>5 DEF LoopIsCounted, Looping
<1>6. CASE stage[q] \notin Looping \cup {"raised"} /\ stage'[q] \notin Looping
  BY <1>6 DEF LoopIsCounted, SameLoop
<1> QED
  BY <1>4, <1>5, <1>6

(* A failure keeps its cause.                                               *)
LEMMA CausesStand ==
  ASSUME case' = case, NEW q \in Ranks, Causes(q), SamePool(q), failure'[q] = failure[q],
         stage'[q] = "raised" <=> stage[q] = "raised"
  PROVE  Causes(q)'
<1>1. \A e : Outputs(e)' = Outputs(e) /\ Nesting(e)' = Nesting(e)
  BY CaseStands
<1>2. \A kinds : Refused(kinds)' <=> Refused(kinds)
  BY CaseStands
<1>3. \A e : Refused(Outputs(e))' <=> Refused(Outputs(e))
  BY <1>1, <1>2
<1> QED
  BY <1>1, <1>3 DEF Causes, SaveCause, SamePool

(* So a rank that is left alone keeps its part of the invariant.            *)
LEMMA RankStands ==
  ASSUME TrainerTypes, case' = case, written' \in Nat, written' >= written,
         NEW q \in Ranks, RankInv(q), SameRank(q), updates'[q] = updates[q], reduces'[q] = reduces[q]
  PROVE  RankInv(q)'
<1>1. written \in Nat /\ kept[q] \in Seq(Episodes) /\ Episodes \subseteq Nat
  <2>1. case.episodes \in Seq(EpisodeType)
    BY CaseFacts DEF TrainerTypes
  <2>2. Len(case.episodes) \in Nat /\ Episodes = 1 .. Len(case.episodes)
    BY <2>1 DEF Episodes
  <2> QED
    BY <2>2 DEF TrainerTypes
<1>2. SamePool(q) /\ SameLoop(q) /\ stage'[q] = stage[q] /\ step'[q] = step[q] /\ failure'[q] = failure[q]
  BY DEF SameRank
<1>3. KeptIsDispatched(q)'
  BY <1>1, <1>2, KeptStands DEF RankInv, SamePool
<1>4. PoolIsPacked(q)'
  BY <1>2, PackedStands DEF RankInv
<1>5. LoopIsCounted(q)'
  BY <1>2, LoopStands DEF RankInv
<1>6. Causes(q)'
  BY <1>2, CausesStand DEF RankInv
<1>7. Bounds(q)'
  BY <1>2, PoolStands DEF RankInv, Bounds, SamePool, SameLoop
<1> QED
  BY <1>3, <1>4, <1>5, <1>6, <1>7 DEF RankInv

(* A step of one rank touches no other.                                     *)
LEMMA Untouched ==
  ASSUME TrainerTypes, NEW r \in Ranks, RankSteps(r), NEW q \in Ranks \ {r}
  PROVE  /\ SameRank(q) /\ SameModel(q) /\ gradient'[q] = gradient[q] /\ written' = written
         /\ stage' \in [Ranks -> Stages]
<1>1. CASE InitTrainer(r) \/ TrainerFails(r)
  BY <1>1 DEF TrainerTypes, InitTrainer, TrainerFails, Enter, Raise, SameRank, SamePool, SameLoop, SameModel,
     workerVars, loopVars, modelVars, Stages
<1>2. CASE BeginStep(r)
  <2>1. /\ step' = [step EXCEPT ![r] = step[r] + 1]
        /\ stage' = [stage EXCEPT ![r] = "load"] /\ failure' = failure
        /\ kept' = [kept EXCEPT ![r] = Kept(Received(r))]
        /\ samples' = [samples EXCEPT ![r] = <<>>] /\ advantages' = [advantages EXCEPT ![r] = <<>>]
    BY <1>2, BeginFacts
  <2> QED
    BY <1>2, <2>1 DEF TrainerTypes, BeginStep, SameRank, SamePool, SameLoop, SameModel, modelVars, Stages
<1>3. CASE LoadRollout(r)
  <2>1. /\ stage' = stage \/ stage' = [stage EXCEPT ![r] = "raised"]
        /\ failure' = failure \/ \E why : failure' = [failure EXCEPT ![r] = why]
        /\ samples' = samples \/ \E s : samples' = [samples EXCEPT ![r] = s]
        /\ advantages' = advantages \/ \E s : advantages' = [advantages EXCEPT ![r] = s]
    BY <1>3 DEF LoadRollout, Raise
  <2> QED
    BY <1>3, <2>1 DEF TrainerTypes, LoadRollout, SameRank, SamePool, SameLoop, SameModel, workerVars, modelVars,
       Stages
<1>4. CASE BeginLoop(r)
  <2>1. /\ stage' = [stage EXCEPT ![r] = "train"] \/ stage' = [stage EXCEPT ![r] = "raised"]
        /\ failure' = failure \/ failure' = [failure EXCEPT ![r] = "empty"]
        /\ reference' = reference \/ reference' = [reference EXCEPT ![r] = EnsuredReference(r)]
        /\ iteration' = iteration \/ iteration' = [iteration EXCEPT ![r] = 1]
        /\ minibatch' = minibatch \/ minibatch' = [minibatch EXCEPT ![r] = 1]
        /\ left' = left \/ left' = [left EXCEPT ![r] = Rows(r)]
        /\ trained' = trained \/ \E t : trained' = [trained EXCEPT ![r] = t]
    BY <1>4 DEF BeginLoop, Enter, Raise
  <2> QED
    BY <1>4, <2>1 DEF TrainerTypes, BeginLoop, SameRank, SamePool, SameLoop, SameModel, workerVars, Stages
<1>5. CASE TrainMinibatch(r)
  <2>1. /\ stage' = [stage EXCEPT ![r] = "reduce"] \/ stage' = [stage EXCEPT ![r] = "raised"]
        /\ failure' = failure \/ failure' = [failure EXCEPT ![r] = "collate"]
        /\ left' = left \/ \E s : left' = [left EXCEPT ![r] = s]
        /\ trained' = trained \/ \E t : trained' = [trained EXCEPT ![r] = t]
        /\ gradient' = gradient \/ \E g : gradient' = [gradient EXCEPT ![r] = g]
    BY <1>5 DEF TrainMinibatch, Enter, Raise
  <2> QED
    BY <1>5, <2>1 DEF TrainerTypes, TrainMinibatch, SameRank, SamePool, SameLoop, SameModel,
       workerVars, modelVars, Stages
<1>6. CASE AfterReduce(r)
  BY <1>6 DEF TrainerTypes, AfterReduce, NextInLoop, Enter, Raise, SameRank, SamePool, SameLoop, SameModel,
     workerVars, Stages
<1>7. CASE FinishStep(r) \/ SaveFails(r)
  BY <1>7 DEF TrainerTypes, FinishStep, SaveFails, ExpertFails, Enter, Raise, SameRank, SamePool, SameLoop,
     SameModel, workerVars, loopVars, Stages
<1> QED
  BY <1>1, <1>2, <1>3, <1>4, <1>5, <1>6, <1>7 DEF RankSteps

(* A sequence and what is appended to it.                                   *)
LEMMA Joined ==
  ASSUME NEW X, NEW s \in Seq(X), NEW t \in Seq(X)
  PROVE  /\ Len(s \o t) = Len(s) + Len(t) /\ DOMAIN (s \o t) = 1 .. Len(s) + Len(t)
         /\ \A i \in 1 .. Len(s) : (s \o t)[i] = s[i]
         /\ \A j \in 1 .. Len(t) : (s \o t)[Len(s) + j] = t[j]
<1>1. Len(s) \in Nat /\ Len(t) \in Nat /\ Len(s \o t) = Len(s) + Len(t) /\ s \o t \in Seq(X)
  OBVIOUS
<1>2. DOMAIN (s \o t) = 1 .. Len(s) + Len(t)
  BY <1>1
<1>3. \A i \in 1 .. Len(s) : (s \o t)[i] = s[i]
  OBVIOUS
<1>4. ASSUME NEW j \in 1 .. Len(t)
      PROVE  (s \o t)[Len(s) + j] = t[j]
  <2>1. Len(s) + j \in 1 .. Len(s) + Len(t) /\ ~ (Len(s) + j <= Len(s)) /\ Len(s) + j - Len(s) = j
    BY <1>1
  <2> QED
    BY <2>1
<1> QED
  BY <1>1, <1>2, <1>3, <1>4

(* The rollouts a rank works on.                                            *)
LEMMA KeptRollouts ==
  ASSUME TrainerTypes, FilesAreKept, NEW r \in Ranks, KeptIsDispatched(r), stage[r] \in Stepping
  PROVE  /\ IsInjective(kept[r]) /\ kept[r] \in Seq(Episodes)
         /\ kept[r] = <<>> \/ Len(kept[r]) = case.batch
         /\ \A e \in Range(kept[r]) : e \in Episodes /\ Ships(case, e) /\ Kinds(e) \in Seq(OutputKinds)
<1>1. /\ case \in Cases /\ kept[r] \in Seq(Episodes) /\ step[r] \in Steps
      /\ kept[r] = Kept(case.feed[step[r]][r])
      /\ \A e \in Range(kept[r]) : e <= written
  BY DEF TrainerTypes, KeptIsDispatched
<1> DEFINE s == case.feed[step[r]][r]
<1>2. s \in Seq(Episodes) /\ IsInjective(s) /\ (s = <<>> \/ Len(s) >= case.batch)
  BY <1>1, ReceivedFacts
<1>3. case.batch \in Nat \ {0} /\ case.episodes \in Seq(EpisodeType)
  BY <1>1, CaseFacts
<1> HIDE DEF s
<1>4. IsInjective(Kept(s)) /\ Len(Kept(s)) = IF case.batch <= Len(s) THEN case.batch ELSE Len(s)
  BY <1>1, <1>2, KeptFacts
<1>5. kept[r] = <<>> \/ Len(kept[r]) = case.batch
  <2>1. CASE s = <<>>
    <3>1. Len(s) = 0
      BY <2>1
    <3>2. Len(kept[r]) = 0
      BY <1>1, <1>3, <1>4, <3>1 DEF s
    <3> QED
      BY <1>1, <3>2
  <2>2. CASE Len(s) >= case.batch
    BY <1>1, <1>2, <1>3, <1>4, <2>2 DEF s
  <2> QED
    BY <1>2, <2>1, <2>2
<1>6. ASSUME NEW e \in Range(kept[r])
      PROVE  e \in Episodes /\ Ships(case, e) /\ Kinds(e) \in Seq(OutputKinds)
  <2>1. e \in Episodes /\ Episodes = 1 .. Len(case.episodes)
    <3>1. \A i \in DOMAIN kept[r] : kept[r][i] \in Episodes
      BY <1>1
    <3> QED
      BY <1>3, <3>1 DEF Range, Episodes
  <2>2. e \in 1 .. written
    BY <1>1, <2>1 DEF TrainerTypes
  <2>3. Ships(case, e)
    BY <2>2 DEF FilesAreKept
  <2> QED
    BY <1>1, <2>1, <2>3, SeenFacts
<1> QED
  BY <1>1, <1>4, <1>5, <1>6 DEF s

(* The rows of a rollout that is loaded are added to the pool, and are of no*)
(* rollout that was loaded before.                                          *)
LEMMA PoolOfLoad ==
  ASSUME TrainerTypes, FilesAreKept, NEW r \in Ranks, KeptIsDispatched(r), Bounds(r), PoolIsPacked(r),
         stage[r] = "load", Loaded(r) < Len(kept[r]), case' = case, kept' = kept,
         ~ Refused(Kinds(ToLoad(r))),
         samples' = [samples EXCEPT ![r] = @ \o Filled(r, ToLoad(r))],
         advantages' = [advantages EXCEPT ![r] = @ \o Weighed(r, ToLoad(r))]
  PROVE  /\ Len(samples'[r]) = Loaded(r)' * case.expected /\ Loaded(r)' <= Len(kept[r])
         /\ PoolIsPacked(r)' /\ Len(advantages'[r]) = Len(samples'[r]) /\ Rows(r) \subseteq Rows(r)'
<1> DEFINE E == case.expected
           n == Loaded(r)
           m == n * E
           e == ToLoad(r)
           S == samples[r]
           T == samples'[r]
           A == advantages[r]
           B == advantages'[r]
           F == Filled(r, e)
           W == Weighed(r, e)
           K(k) == kept[r][k]
           P(k) == PolicyInput(K(k), Kinds(K(k)))
           IsOf(X, Y, i, k, j) == X[i] = P(k)[j] /\ Y[i] = IF X[i].padding THEN 0 ELSE Advantage(K(k))
<1>1. /\ IsInjective(kept[r]) /\ kept[r] \in Seq(Episodes)
      /\ \A d \in Range(kept[r]) : d \in Episodes /\ Ships(case, d) /\ Kinds(d) \in Seq(OutputKinds)
  BY KeptRollouts DEF Stepping
<1>2. n \in Nat /\ n + 1 \in DOMAIN kept[r] /\ e = K(n + 1) /\ e \in Episodes
      /\ Kinds(e) \in Seq(OutputKinds)
  BY LoadFacts DEF ToLoad
<1>3. case \in Cases /\ E \in Nat \ {0} /\ S \in Seq(RowType) /\ A \in Seq(Int)
      /\ samples \in [Ranks -> Seq(RowType)] /\ advantages \in [Ranks -> Seq(Int)]
  BY CaseFacts DEF TrainerTypes
<1>4. /\ Len(S) = m /\ Len(A) = m /\ Rows(r) = DOMAIN S
      /\ \A k \in 1 .. n : ~ Refused(Kinds(K(k)))
      /\ \A i \in Rows(r) : \E k \in 1 .. n, j \in 1 .. E : IsOf(S, A, i, k, j)
      /\ \A k \in 1 .. n, j \in 1 .. E : \E i \in Rows(r) : IsOf(S, A, i, k, j)
      /\ \A i, j \in Rows(r) :
         /\ ~ S[i].padding /\ ~ S[j].padding
         /\ S[i].episode = S[j].episode /\ S[i].output = S[j].output
         => i = j
  BY DEF PoolIsPacked, IsRow, Bounds, Stepping, Rows
<1>5. /\ F \in Seq(RowType) /\ W \in Seq(Int) /\ Len(F) = E /\ Len(W) = E
      /\ DOMAIN F = 1 .. E /\ F = P(n + 1)
      /\ \A j \in 1 .. E : W[j] = IF F[j].padding THEN 0 ELSE Advantage(e)
  BY <1>2, FilledFacts DEF Filled, Weighed
<1>7. T = S \o F /\ B = A \o W
  BY <1>3
<1> HIDE DEF n, E, e, S, T, A, B, F, W, K, P
<1>6. m \in Nat /\ (n + 1) * E = m + E /\ ((n + 1) * E) \div E = n + 1
  <2>1. n + 1 \in Nat
    BY <1>2
  <2> QED
    BY <1>2, <1>3, <2>1, Blocks
<1> HIDE DEF m
<1>8. /\ Len(T) = m + E /\ Len(B) = m + E /\ DOMAIN T = 1 .. m + E
      /\ \A i \in 1 .. m : T[i] = S[i] /\ B[i] = A[i]
      /\ \A j \in 1 .. E : T[m + j] = F[j] /\ B[m + j] = W[j]
      /\ DOMAIN S = 1 .. m
  <2>0. /\ S \in Seq(RowType) /\ A \in Seq(Int) /\ F \in Seq(RowType) /\ W \in Seq(Int)
        /\ Len(S) = m /\ Len(A) = m /\ Len(F) = E /\ Len(W) = E
    BY <1>3, <1>4, <1>5
  <2>1. /\ Len(T) = m + E /\ DOMAIN T = 1 .. m + E
        /\ \A i \in 1 .. m : T[i] = S[i]
        /\ \A j \in 1 .. E : T[m + j] = F[j]
    <3>1. /\ Len(S \o F) = Len(S) + Len(F) /\ DOMAIN (S \o F) = 1 .. Len(S) + Len(F)
          /\ \A i \in 1 .. Len(S) : (S \o F)[i] = S[i]
          /\ \A j \in 1 .. Len(F) : (S \o F)[Len(S) + j] = F[j]
      BY <2>0, Joined
    <3> QED
      BY <2>0, <1>7, <3>1, Zenon
  <2>2. /\ Len(B) = m + E
        /\ \A i \in 1 .. m : B[i] = A[i]
        /\ \A j \in 1 .. E : B[m + j] = W[j]
    <3>1. /\ Len(A \o W) = Len(A) + Len(W)
          /\ \A i \in 1 .. Len(A) : (A \o W)[i] = A[i]
          /\ \A j \in 1 .. Len(W) : (A \o W)[Len(A) + j] = W[j]
      <4> DEFINE X == Int
      <4>1. A \in Seq(X) /\ W \in Seq(X)
        BY <2>0
      <4> HIDE DEF X
      <4> QED
        BY <4>1, Joined
    <3> QED
      BY <2>0, <1>7, <3>1, Zenon
  <2>3. DOMAIN S = 1 .. m
    BY <2>0
  <2> QED
    BY <2>1, <2>2, <2>3
<1>9. Loaded(r)' = n + 1 /\ Rows(r)' = 1 .. m + E /\ Rows(r) = 1 .. m
  <2>1. Loaded(r)' = Len(T) \div E
    BY DEF Loaded, T, E
  <2>2. Rows(r)' = DOMAIN T
    BY DEF Rows, T
  <2> QED
    BY <1>4, <1>6, <1>8, <2>1, <2>2
<1>10. \A i, k, j : IsRow(r, i, k, j)' <=> IsOf(T, B, i, k, j)
  <2>1. \A k : P(k)' = P(k)
    BY CaseStands DEF P, K
  <2>2. \A d : Advantage(d)' = Advantage(d)
    BY CaseStands
  <2> QED
    BY <2>1, <2>2 DEF IsRow, T, B, K, P
<1>11. \A k \in 1 .. n + 1 : k \in 1 .. n \/ k = n + 1
  BY <1>2
<1>12. \A k \in 1 .. n + 1 : Refused(Kinds(K(k)))' <=> Refused(Kinds(K(k)))
  BY CaseStands DEF K
<1>13. \A k \in 1 .. n + 1 : K(k) \in Range(kept[r]) /\ K(k) \in Episodes /\ Kinds(K(k)) \in Seq(OutputKinds)
  <2>1. \A k \in 1 .. n + 1 : k \in DOMAIN kept[r]
    BY <1>1, <1>2
  <2> QED
    BY <1>1, <2>1 DEF Range, K
<1>14. \A k \in 1 .. n + 1 : ~ Refused(Kinds(K(k)))
  BY <1>2, <1>4, <1>11 DEF e, K
<1>15. \A k \in 1 .. n + 1 : \A j \in 1 .. E :
         P(k)[j].episode = K(k) /\ (~ P(k)[j].padding => P(k)[j].output = j)
  BY <1>3, <1>13, <1>14, RowsOfEpisode DEF P, E
<1>16. \A i \in 1 .. m + E : i \in 1 .. m \/ \E j \in 1 .. E : i = m + j
  <2> TAKE i \in 1 .. m + E
  <2>1. ~ (i \in 1 .. m) => i - m \in 1 .. E /\ i = m + (i - m)
    BY <1>3, <1>6
  <2> QED
    BY <2>1
<1>17. \A j \in 1 .. E : IsOf(T, B, m + j, n + 1, j)
  BY <1>2, <1>5, <1>8
<1>18. \A i \in 1 .. m : \A k, j : IsOf(S, A, i, k, j) => IsOf(T, B, i, k, j)
  BY <1>8
<1>19. /\ n + 1 \in 1 .. n + 1 /\ 1 .. n \subseteq 1 .. n + 1 /\ 1 .. m \subseteq 1 .. m + E
       /\ \A j \in 1 .. E : m + j \in 1 .. m + E
  <2>1. n \in Nat /\ m \in Nat /\ E \in Nat
    BY <1>2, <1>3, <1>6
  <2> QED
    BY <2>1
<1> HIDE DEF IsOf
<1>20. \A i \in 1 .. m + E : \E k \in 1 .. n + 1, j \in 1 .. E : IsOf(T, B, i, k, j)
  <2> TAKE i \in 1 .. m + E
  <2>1. CASE i \in 1 .. m
    <3>1. PICK k \in 1 .. n, j \in 1 .. E : IsOf(S, A, i, k, j)
      BY <1>4, <1>9, <2>1
    <3> QED
      BY <1>18, <1>19, <2>1, <3>1
  <2>2. CASE \E j \in 1 .. E : i = m + j
    BY <1>17, <1>19, <2>2
  <2> QED
    BY <1>16, <2>1, <2>2
<1>21. \A k \in 1 .. n + 1, j \in 1 .. E : \E i \in 1 .. m + E : IsOf(T, B, i, k, j)
  <2> TAKE k \in 1 .. n + 1, j \in 1 .. E
  <2>1. CASE k \in 1 .. n
    <3>1. PICK i \in 1 .. m : IsOf(S, A, i, k, j)
      BY <1>4, <1>9, <2>1
    <3> QED
      BY <1>18, <1>19, <3>1
  <2>2. CASE k = n + 1
    BY <1>17, <1>19, <2>2
  <2> QED
    BY <1>11, <2>1, <2>2
<1>22. \A i \in 1 .. m : \E k \in 1 .. n : S[i].episode = K(k)
  <2> TAKE i \in 1 .. m
  <2>1. PICK k \in 1 .. n, j \in 1 .. E : IsOf(S, A, i, k, j)
    BY <1>4, <1>9
  <2> QED
    BY <1>15, <1>19, <2>1 DEF IsOf
<1>23. \A i \in 1 .. m : S[i].episode # e
  <2> SUFFICES ASSUME NEW i \in 1 .. m, S[i].episode = e
               PROVE  FALSE
    OBVIOUS
  <2>1. PICK k \in 1 .. n : e = K(k)
    BY <1>22
  <2>2. k \in DOMAIN kept[r] /\ kept[r][k] = kept[r][n + 1]
    BY <1>1, <1>2, <2>1 DEF K
  <2>3. k = n + 1
    BY <1>1, <1>2, <2>2 DEF IsInjective
  <2> QED
    BY <1>2, <2>3
<1>24. ASSUME NEW i \in 1 .. m + E, NEW j \in 1 .. m + E, ~ T[i].padding, ~ T[j].padding,
              T[i].episode = T[j].episode, T[i].output = T[j].output
       PROVE  i = j
  <2>1. \A g \in 1 .. E : T[m + g].episode = e /\ (~ T[m + g].padding => T[m + g].output = g)
    <3>1. \A g \in 1 .. E : P(n + 1)[g].episode = K(n + 1) /\ (~ P(n + 1)[g].padding => P(n + 1)[g].output = g)
      BY <1>15, <1>19
    <3>2. \A g \in 1 .. E : T[m + g] = P(n + 1)[g]
      BY <1>5, <1>8
    <3>3. K(n + 1) = e
      BY <1>2
    <3> QED
      BY <3>1, <3>2, <3>3
  <2>2. CASE i \in 1 .. m /\ j \in 1 .. m
    BY <1>4, <1>8, <1>9, <1>24, <2>2
  <2>3. CASE i \notin 1 .. m /\ j \notin 1 .. m
    BY <1>16, <1>24, <2>1, <2>3
  <2>4. CASE (i \in 1 .. m /\ j \notin 1 .. m) \/ (i \notin 1 .. m /\ j \in 1 .. m)
    BY <1>8, <1>16, <1>23, <1>24, <2>1, <2>4
  <2> QED
    BY <2>2, <2>3, <2>4
<1>25. Len(T) = Loaded(r)' * E /\ Loaded(r)' <= Len(kept[r])
  BY <1>1, <1>2, <1>6, <1>8, <1>9
<1>26. PoolIsPacked(r)'
  <2>1. \A i \in Rows(r)' : \E k \in 1 .. Loaded(r)', j \in 1 .. E : IsRow(r, i, k, j)'
    BY <1>9, <1>10, <1>20
  <2>2. \A k \in 1 .. Loaded(r)', j \in 1 .. E : \E i \in Rows(r)' : IsRow(r, i, k, j)'
    BY <1>9, <1>10, <1>21
  <2>3. \A k \in 1 .. Loaded(r)' : ~ Refused(Kinds(kept[r][k]))'
    BY <1>9, <1>12, <1>14 DEF K
  <2>4. \A i, j \in Rows(r)' : /\ ~ T[i].padding /\ ~ T[j].padding
                               /\ T[i].episode = T[j].episode /\ T[i].output = T[j].output
                               => i = j
    BY <1>9, <1>24
  <2> QED
    BY <1>25, <2>1, <2>2, <2>3, <2>4 DEF PoolIsPacked, T, E
<1>27. Len(B) = Len(T) /\ Rows(r) \subseteq Rows(r)'
  BY <1>8, <1>9, <1>19
<1> QED
  BY <1>25, <1>26, <1>27 DEF T, B, E

(* How many places there are.                                               *)
LEMMA Places ==
  ASSUME NEW n \in Nat
  PROVE  IsFiniteSet(1 .. n) /\ Cardinality(1 .. n) = n
<1>1. IsFiniteSet(1 .. n) /\ Cardinality(1 .. n) = IF 1 > n THEN 0 ELSE n - 1 + 1
  BY FS_Interval, 1 \in Int, n \in Int
<1> QED
  BY <1>1

(* The minibatches cover the pool.                                          *)
LEMMA MinibatchFacts ==
  ASSUME TrainerTypes, NEW r \in Ranks, samples[r] # <<>>
  PROVE  /\ Len(samples[r]) \in Nat \ {0} /\ MiniBatchSize(r) \in Nat \ {0}
         /\ NumMiniBatches(r) \in Nat \ {0} /\ NumMiniBatches(r) * MiniBatchSize(r) >= Len(samples[r])
<1> DEFINE L == Len(samples[r])
           b == MiniBatchSize(r)
<1>1. samples[r] \in Seq(RowType) /\ case.mini \in Nat \ {0}
  BY CaseFacts DEF TrainerTypes
<1>2. L \in Nat \ {0}
  BY <1>1
<1>3. b = Min({case.mini, L})
  BY DEF MiniBatchSize
<1>4. NumMiniBatches(r) = (L + b - 1) \div b
  BY DEF NumMiniBatches
<1> HIDE DEF L, b
<1>5. b \in Nat \ {0}
  BY <1>1, <1>2, <1>3, MinOfTwo
<1>6. NumMiniBatches(r) \in Nat \ {0} /\ NumMiniBatches(r) * b >= L
  BY <1>2, <1>4, <1>5, Ceiling
<1> QED
  BY <1>2, <1>5, <1>6 DEF L, b

(* A pool that is not empty is that of as many rollouts as a rank trains on.*)
LEMMA PoolIsFull ==
  ASSUME TrainerTypes, FilesAreKept, NEW r \in Ranks, KeptIsDispatched(r), PoolIsPacked(r),
         stage[r] \in Stepping, Loaded(r) = Len(kept[r]), samples[r] # <<>>
  PROVE  Loaded(r) = case.batch
<1>1. Len(samples[r]) = Loaded(r) * case.expected /\ Len(samples[r]) \in Nat \ {0}
  BY MinibatchFacts DEF PoolIsPacked
<1>2. case.expected \in Nat
  BY CaseFacts DEF TrainerTypes
<1>3. Loaded(r) # 0
  BY <1>1, <1>2
<1>4. kept[r] # <<>>
  BY <1>3
<1> QED
  BY <1>4, KeptRollouts

(* _run_training_loop begins with the whole pool left.                      *)
LEMMA LoopOfBegin ==
  ASSUME TrainerTypes, FilesAreKept, NEW r \in Ranks, RankInv(r), BeginLoop(r)
  PROVE  LoopIsCounted(r)'
<1>1. /\ stage[r] = "load" /\ Loaded(r) = Len(kept[r]) /\ case' = case
      /\ kept' = kept /\ samples' = samples /\ advantages' = advantages
  BY DEF BeginLoop
<1>2. CASE samples[r] = <<>>
  <2>1. stage'[r] = "raised" /\ SameLoop(r)
    BY <1>2 DEF BeginLoop, Raise, SameLoop, TrainerTypes
  <2> QED
    BY <2>1 DEF LoopIsCounted, Looping
<1>3. CASE samples[r] # <<>>
  <2>1. /\ Len(samples[r]) \in Nat \ {0} /\ MiniBatchSize(r) \in Nat \ {0} /\ NumMiniBatches(r) \in Nat \ {0}
    BY <1>3, MinibatchFacts
  <2>2. Loaded(r) = case.batch
    BY <1>1, <1>3, PoolIsFull DEF RankInv, Stepping
  <2>3. /\ Rows(r)' = Rows(r) /\ Loaded(r)' = Loaded(r)
        /\ MiniBatchSize(r)' = MiniBatchSize(r) /\ NumMiniBatches(r)' = NumMiniBatches(r)
    BY <1>1, PoolStands DEF SamePool
  <2>4. /\ stage'[r] = "train" /\ iteration'[r] = 1 /\ minibatch'[r] = 1 /\ left'[r] = Rows(r)
        /\ trained'[r] = [i \in Rows(r) |-> 0]
    BY <1>3 DEF BeginLoop, Enter, TrainerTypes
  <2>5. case.iterations \in Nat \ {0}
    BY CaseFacts DEF TrainerTypes
  <2>6. Rows(r) = 1 .. Len(samples[r])
    BY DEF Rows, TrainerTypes
  <2>7. Cardinality(Rows(r)) = Len(samples[r])
    BY <2>1, <2>6, Places
  <2>8. SlicesSoFar(r)' * MiniBatchSize(r) = 0
    BY <2>1, <2>4 DEF SlicesSoFar
  <2>9. Min({0, Len(samples[r])}) = 0
    BY <2>1, MinOfTwo
  <2>10. Cardinality(left'[r]) = Len(samples'[r]) - Min({SlicesSoFar(r)' * MiniBatchSize(r)', Len(samples'[r])})
    <3>1. Min({SlicesSoFar(r)' * MiniBatchSize(r)', Len(samples'[r])}) = 0
      BY <1>1, <2>3, <2>8, <2>9
    <3> QED
      BY <1>1, <2>1, <2>4, <2>7, <3>1
  <2>11. trained'[r] = [i \in Rows(r)' |-> IF i \in left'[r] THEN 0 ELSE 1]
    BY <2>3, <2>4
  <2>12. iteration'[r] \in 1 .. case.iterations /\ minibatch'[r] \in 1 .. NumMiniBatches(r)
    BY <2>1, <2>4, <2>5
  <2> QED
    BY <1>1, <2>2, <2>3, <2>4, <2>10, <2>11, <2>12 DEF LoopIsCounted, Looping
<1> QED
  BY <1>2, <1>3

(* How much a slice takes off what is left.                                 *)
LEMMA SliceCounts ==
  ASSUME NEW L \in Nat, NEW b \in Nat \ {0}, NEW m \in Nat \ {0}, NEW S, IsFiniteSet(S),
         Cardinality(S) = L - Min({(m - 1) * b, L}),
         NEW T \in kSubset(Min({m * b, L}) - (m - 1) * b, S)
  PROVE  T \subseteq S /\ Cardinality(S \ T) = L - Min({m * b, L})
<1>1. T \subseteq S /\ Cardinality(T) = Min({m * b, L}) - (m - 1) * b
  BY DEF kSubset
<1>2. IsFiniteSet(T) /\ Cardinality(T) \in Nat
  BY <1>1, FS_Subset, FS_CardinalityType
<1>3. Cardinality(S \ T) = Cardinality(S) - Cardinality(T)
  <2>1. S \cap T = T
    BY <1>1
  <2>2. Cardinality(S \ T) = Cardinality(S) - Cardinality(S \cap T)
    BY FS_Difference
  <2> QED
    BY <2>1, <2>2
<1>4. (m - 1) * b \in Nat /\ m * b \in Nat
  OBVIOUS
<1>5. /\ Min({m * b, L}) = IF m * b <= L THEN m * b ELSE L
      /\ Min({(m - 1) * b, L}) = IF (m - 1) * b <= L THEN (m - 1) * b ELSE L
  BY <1>4, MinOfTwo
<1> DEFINE x == (m - 1) * b
           y == m * b
<1> HIDE DEF x, y
<1>6. Cardinality(S \ T) = L - Min({y, L})
  BY <1>1, <1>2, <1>3, <1>4, <1>5 DEF x, y
<1> QED
  BY <1>1, <1>6 DEF y

(* Every minibatch takes its slice off it.                                  *)
LEMMA LoopOfTrain ==
  ASSUME TrainerTypes, NEW r \in Ranks, RankInv(r), TrainMinibatch(r)
  PROVE  LoopIsCounted(r)'
<1>1. /\ stage[r] = "train" /\ case' = case /\ kept' = kept /\ samples' = samples /\ advantages' = advantages
      /\ iteration' = iteration /\ minibatch' = minibatch
  BY DEF TrainMinibatch
<1>2. /\ Rows(r)' = Rows(r) /\ Loaded(r)' = Loaded(r)
      /\ MiniBatchSize(r)' = MiniBatchSize(r) /\ NumMiniBatches(r)' = NumMiniBatches(r)
  BY <1>1, PoolStands DEF SamePool
<1>3. PICK slice \in kSubset(SliceSize(r), left[r]) :
        \/ stage' = [stage EXCEPT ![r] = "raised"]
        \/ /\ stage' = [stage EXCEPT ![r] = "reduce"]
           /\ left' = [left EXCEPT ![r] = @ \ slice]
           /\ trained' = [trained EXCEPT ![r] = [i \in Rows(r) |-> @[i] + (IF i \in slice THEN 1 ELSE 0)]]
  BY DEF TrainMinibatch, Enter, Raise
<1>4. CASE stage' = [stage EXCEPT ![r] = "raised"]
  <2>1. stage'[r] = "raised"
    BY <1>4 DEF TrainerTypes
  <2> QED
    BY <2>1 DEF LoopIsCounted, Looping
<1>5. CASE /\ stage' = [stage EXCEPT ![r] = "reduce"]
           /\ left' = [left EXCEPT ![r] = @ \ slice]
           /\ trained' = [trained EXCEPT ![r] = [i \in Rows(r) |-> @[i] + (IF i \in slice THEN 1 ELSE 0)]]
  <2> DEFINE L == Len(samples[r])
             b == MiniBatchSize(r)
             m == minibatch[r]
  <2>1. /\ Loaded(r) = case.batch /\ Loaded(r) = Len(kept[r])
        /\ iteration[r] \in 1 .. case.iterations /\ m \in 1 .. NumMiniBatches(r)
        /\ left[r] \subseteq Rows(r) /\ Cardinality(left[r]) = L - Min({(m - 1) * b, L})
        /\ trained[r] = [i \in Rows(r) |-> IF i \in left[r] THEN 0 ELSE 1]
    BY <1>1 DEF RankInv, LoopIsCounted, Looping, SlicesSoFar
  <2>2. samples[r] # <<>>
    <3>1. case.batch \in Nat \ {0} /\ case.expected \in Nat \ {0}
      BY CaseFacts DEF TrainerTypes
    <3>2. Len(samples[r]) = case.batch * case.expected
      BY <1>1, <2>1 DEF RankInv, PoolIsPacked, Stepping, Looping
    <3>3. Len(samples[r]) # 0
      BY <3>1, <3>2, Blocks
    <3> QED
      BY <3>3
  <2>3. L \in Nat \ {0} /\ b \in Nat \ {0} /\ NumMiniBatches(r) \in Nat \ {0}
    BY <2>2, MinibatchFacts
  <2>4. m \in Nat \ {0}
    BY <2>1, <2>3
  <2>5. IsFiniteSet(left[r])
    <3>1. IsFiniteSet(Rows(r))
      <4>1. Rows(r) = 1 .. L
        BY DEF Rows, TrainerTypes
      <4> HIDE DEF L
      <4> QED
        BY <4>1, <2>3, Places
    <3> QED
      BY <2>1, <3>1, FS_Subset
  <2>6. SliceSize(r) = Min({m * b, L}) - (m - 1) * b
    BY DEF SliceSize
  <2>7. /\ stage'[r] = "reduce" /\ left'[r] = left[r] \ slice
        /\ trained'[r] = [i \in Rows(r) |-> trained[r][i] + (IF i \in slice THEN 1 ELSE 0)]
    BY <1>5 DEF TrainerTypes
  <2> HIDE DEF L, b, m
  <2>8. slice \subseteq left[r] /\ Cardinality(left[r] \ slice) = L - Min({m * b, L})
    <3>1. slice \in kSubset(Min({m * b, L}) - (m - 1) * b, left[r])
      BY <1>3, <2>6
    <3>2. L \in Nat
      BY <2>3
    <3>3. Cardinality(left[r]) = L - Min({(m - 1) * b, L})
      BY <2>1
    <3> QED
      BY <2>3, <2>4, <2>5, <3>1, <3>2, <3>3, SliceCounts, Zenon
  <2>9. trained'[r] = [i \in Rows(r) |-> IF i \in left'[r] THEN 0 ELSE 1]
    BY <2>1, <2>7, <2>8
  <2>10. SlicesSoFar(r)' = m
    BY <1>1, <2>7 DEF SlicesSoFar, m
  <2> QED
    BY <1>1, <1>2, <2>1, <2>7, <2>8, <2>9, <2>10 DEF LoopIsCounted, Looping, L, b, m
<1> QED
  BY <1>3, <1>4, <1>5

(* In the loops every rank has the same number of rows and of minibatches.  *)
LEMMA LoopingFacts ==
  ASSUME TrainerTypes, NEW r \in Ranks, PoolIsPacked(r), LoopIsCounted(r), stage[r] \in Looping
  PROVE  /\ Len(samples[r]) \in Nat \ {0} /\ Len(samples[r]) = case.batch * case.expected
         /\ MiniBatchSize(r) \in Nat \ {0} /\ NumMiniBatches(r) \in Nat \ {0}
         /\ NumMiniBatches(r) * MiniBatchSize(r) >= Len(samples[r])
         /\ Rows(r) = 1 .. Len(samples[r]) /\ IsFiniteSet(left[r])
         /\ Cardinality(Rows(r)) = Len(samples[r])
         /\ iteration[r] \in 1 .. case.iterations /\ minibatch[r] \in 1 .. NumMiniBatches(r)
         /\ case.iterations \in Nat \ {0}
<1> DEFINE L == Len(samples[r])
<1>1. case.batch \in Nat \ {0} /\ case.expected \in Nat \ {0} /\ case.iterations \in Nat \ {0}
  BY CaseFacts DEF TrainerTypes
<1>2. /\ Loaded(r) = case.batch /\ left[r] \subseteq Rows(r)
      /\ iteration[r] \in 1 .. case.iterations /\ minibatch[r] \in 1 .. NumMiniBatches(r)
  BY DEF LoopIsCounted
<1>3. L = case.batch * case.expected
  BY <1>2 DEF PoolIsPacked, Stepping
<1>4. L # 0
  BY <1>1, <1>3, Blocks
<1>5. samples[r] # <<>>
  BY <1>4
<1>6. Rows(r) = 1 .. L
  BY DEF Rows, TrainerTypes
<1>7. /\ L \in Nat \ {0} /\ MiniBatchSize(r) \in Nat \ {0} /\ NumMiniBatches(r) \in Nat \ {0}
      /\ NumMiniBatches(r) * MiniBatchSize(r) >= L
  BY <1>5, MinibatchFacts
<1> HIDE DEF L
<1>8. IsFiniteSet(Rows(r)) /\ Cardinality(Rows(r)) = L
  BY <1>6, <1>7, Places
<1>9. IsFiniteSet(left[r])
  BY <1>2, <1>8, FS_Subset
<1> QED
  BY <1>1, <1>2, <1>3, <1>6, <1>7, <1>8, <1>9 DEF L

(* After the last minibatch nothing is left.                                *)
LEMMA NothingIsLeft ==
  ASSUME TrainerTypes, NEW r \in Ranks, PoolIsPacked(r), LoopIsCounted(r),
         stage[r] \in {"reduce", "reduced"}, minibatch[r] = NumMiniBatches(r)
  PROVE  left[r] = {}
<1> DEFINE L == Len(samples[r])
           x == NumMiniBatches(r) * MiniBatchSize(r)
<1>1. L \in Nat \ {0} /\ x >= L /\ IsFiniteSet(left[r]) /\ x \in Nat
  BY LoopingFacts DEF Looping
<1>2. Cardinality(left[r]) = L - Min({x, L})
  BY DEF LoopIsCounted, Looping, SlicesSoFar
<1> HIDE DEF L, x
<1>3. Cardinality(left[r]) = 0
  BY <1>1, <1>2, MinOfTwo
<1> QED
  BY <1>1, <1>3, FS_EmptySet

(* The next minibatch, or the next iteration with the whole pool again.     *)
LEMMA LoopOfAfter ==
  ASSUME TrainerTypes, NEW r \in Ranks, RankInv(r), AfterReduce(r)
  PROVE  LoopIsCounted(r)'
<1>1. /\ stage[r] = "reduced" /\ case' = case /\ kept' = kept /\ samples' = samples /\ advantages' = advantages
  BY DEF AfterReduce
<1>2. /\ Rows(r)' = Rows(r) /\ Loaded(r)' = Loaded(r)
      /\ MiniBatchSize(r)' = MiniBatchSize(r) /\ NumMiniBatches(r)' = NumMiniBatches(r)
  BY <1>1, PoolStands DEF SamePool
<1> DEFINE L == Len(samples[r])
           b == MiniBatchSize(r)
           m == minibatch[r]
           N == NumMiniBatches(r)
<1>3. /\ Loaded(r) = case.batch /\ Loaded(r) = Len(kept[r])
      /\ left[r] \subseteq Rows(r) /\ Cardinality(left[r]) = L - Min({m * b, L})
      /\ trained[r] = [i \in Rows(r) |-> IF i \in left[r] THEN 0 ELSE 1]
  BY <1>1 DEF RankInv, LoopIsCounted, Looping, SlicesSoFar
<1>4. /\ L \in Nat \ {0} /\ b \in Nat \ {0} /\ N \in Nat \ {0} /\ Cardinality(Rows(r)) = L
      /\ iteration[r] \in 1 .. case.iterations /\ m \in 1 .. N /\ case.iterations \in Nat \ {0}
  BY <1>1, LoopingFacts DEF RankInv, Looping
<1>5. CASE gradient[r] = "nonfinite"
  <2>1. stage'[r] = "raised"
    BY <1>5 DEF AfterReduce, Raise, TrainerTypes
  <2> QED
    BY <2>1 DEF LoopIsCounted, Looping
<1>6. CASE gradient[r] # "nonfinite" /\ m = N /\ iteration[r] < case.iterations
  <2>1. /\ stage'[r] = "train" /\ iteration'[r] = iteration[r] + 1 /\ minibatch'[r] = 1
        /\ left'[r] = Rows(r) /\ trained'[r] = [i \in Rows(r) |-> 0]
    BY <1>6 DEF AfterReduce, NextInLoop, Enter, TrainerTypes
  <2>2. SlicesSoFar(r)' = 0
    BY <2>1 DEF SlicesSoFar
  <2> HIDE DEF L, b, N
  <2>3. 0 * b = 0 /\ Min({0, L}) = 0
    BY <1>4, MinOfTwo
  <2>4. Cardinality(left'[r]) = L - Min({SlicesSoFar(r)' * b, L})
    <3>1. SlicesSoFar(r)' * b = 0
      BY <2>2, <2>3
    <3>2. Min({SlicesSoFar(r)' * b, L}) = 0
      BY <2>3, <3>1, Zenon
    <3> QED
      BY <1>4, <2>1, <3>2
  <2>5. trained'[r] = [i \in Rows(r) |-> IF i \in left'[r] THEN 0 ELSE 1]
    BY <2>1
  <2>6. iteration'[r] \in 1 .. case.iterations /\ minibatch'[r] \in 1 .. N
    BY <1>4, <1>6, <2>1
  <2> QED
    BY <1>1, <1>2, <1>3, <2>1, <2>4, <2>5, <2>6 DEF LoopIsCounted, Looping, L, b, N
<1>7. CASE gradient[r] # "nonfinite" /\ m = N /\ ~ (iteration[r] < case.iterations)
  <2>1. stage'[r] = "finish" /\ left'[r] = left[r]
    BY <1>7 DEF AfterReduce, NextInLoop, Enter, TrainerTypes
  <2>2. left[r] = {}
    BY <1>1, <1>7, NothingIsLeft DEF RankInv
  <2> QED
    BY <2>1, <2>2 DEF LoopIsCounted, Looping
<1>8. CASE gradient[r] # "nonfinite" /\ m # N
  <2>1. /\ stage'[r] = "train" /\ iteration'[r] = iteration[r] /\ minibatch'[r] = m + 1
        /\ left'[r] = left[r] /\ trained'[r] = trained[r]
    BY <1>8 DEF AfterReduce, NextInLoop, Enter, TrainerTypes
  <2>2. SlicesSoFar(r)' = m
    BY <1>4, <2>1 DEF SlicesSoFar
  <2>3. minibatch'[r] \in 1 .. N
    BY <1>4, <1>8, <2>1
  <2> QED
    BY <1>1, <1>2, <1>3, <1>4, <2>1, <2>2, <2>3 DEF LoopIsCounted, Looping
<1> QED
  BY <1>5, <1>6, <1>7, <1>8

(* What a row shows is in the rollout it comes from.                        *)
LEMMA RowsShow ==
  ASSUME TrainerTypes, FilesAreKept, NEW r \in Ranks, KeptIsDispatched(r), PoolIsPacked(r),
         stage[r] \in Stepping, NEW i \in Rows(r)
  PROVE  \E e \in Range(kept[r]) : /\ Nested(samples[r][i]) \in Nesting(e)
                                   /\ ~ Finite(samples[r][i]) => Spoils(e)
<1>1. PICK k \in 1 .. Loaded(r), j \in 1 .. case.expected : IsRow(r, i, k, j)
  BY DEF PoolIsPacked
<1> DEFINE e == kept[r][k]
           row == samples[r][i]
<1>2. case \in Cases /\ kept[r] \in Seq(Episodes) /\ ~ Refused(Kinds(e)) /\ k \in DOMAIN kept[r]
  <2>1. Loaded(r) <= Len(kept[r]) /\ ~ Refused(Kinds(e)) /\ kept[r] \in Seq(Episodes)
    BY DEF PoolIsPacked, TrainerTypes
  <2>2. Loaded(r) \in Int
    BY CaseFacts DEF Loaded, TrainerTypes
  <2> QED
    BY <2>1, <2>2 DEF TrainerTypes
<1>3. e \in Range(kept[r]) /\ e \in Episodes /\ Ships(case, e) /\ Kinds(e) \in Seq(OutputKinds)
  BY <1>2, KeptRollouts DEF Range
<1>4. row = PolicyInput(e, Kinds(e))[j]
  BY <1>1 DEF IsRow
<1> HIDE DEF e, row
<1>5. PICK o \in DOMAIN Kinds(e) : row.inputs = Kinds(e)[InputsOf(Kinds(e), o)]
  BY <1>2, <1>3, <1>4, RowsOfEpisode
<1>6. /\ DOMAIN Kinds(e) = DOMAIN Outputs(e) /\ GoodSteps(Kinds(e)) = GoodSteps(Outputs(e))
      /\ InputsOf(Kinds(e), o) = InputsOf(Outputs(e), o)
      /\ \A n \in DOMAIN Outputs(e) : Kinds(e)[n] = Seen(Outputs(e)[n])
  BY <1>2, <1>3, <1>5, SeenFacts
<1>7. InputsOf(Kinds(e), o) \in DOMAIN Kinds(e)
      /\ (Kinds(e)[InputsOf(Kinds(e), o)] = "bad" => GoodSteps(Kinds(e)) = {})
  BY <1>3, <1>5, InputsFacts
<1>8. (row.inputs = "nested") = (Outputs(e)[InputsOf(Outputs(e), o)] = "nested")
  BY <1>5, <1>6, <1>7 DEF Seen
<1>9. Nested(row) \in Nesting(e)
  BY <1>5, <1>6, <1>8 DEF Nested, Nesting
<1>10. ~ Finite(row) => Spoils(e)
  <2>1. DOMAIN Outputs(e) # {}
    BY <1>5, <1>6
  <2>2. Outputs(e) # <<>>
    BY <2>1
  <2> QED
    BY <1>5, <1>6, <1>7, <2>2 DEF Finite, Spoils
<1> QED
  BY <1>3, <1>9, <1>10 DEF row

(* A batch that does not stack has rows of both sorts.                      *)
LEMMA BothSorts ==
  ASSUME NEW S, S \subseteq {TRUE, FALSE}, ~ (Cardinality(S) <= 1)
  PROVE  TRUE \in S /\ FALSE \in S
<1>1. S = {} \/ S = {TRUE} \/ S = {FALSE} \/ (TRUE \in S /\ FALSE \in S)
  OBVIOUS
<1>2. S # {}
  BY FS_EmptySet
<1>3. ~ \E x : S = {x}
  <2> SUFFICES ASSUME NEW x, S = {x}
               PROVE  FALSE
    OBVIOUS
  <2>1. Cardinality(S) = 1
    BY FS_Singleton
  <2> QED
    BY <2>1
<1> QED
  BY <1>1, <1>2, <1>3

(* So two rollouts of it, or one, have model inputs that do not stack.      *)
LEMMA CollateHasCause ==
  ASSUME TrainerTypes, FilesAreKept, NEW r \in Ranks, KeptIsDispatched(r), PoolIsPacked(r),
         stage[r] \in Stepping, NEW slice, slice \subseteq Rows(r), ~ Stackable(Batch(r, slice))
  PROVE  \E e, d \in Range(kept[r]) : Nesting(e) \cup Nesting(d) = {TRUE, FALSE}
<1> DEFINE S == {Nested(b.row) : b \in Batch(r, slice)}
<1>1. \A x \in S : \E i \in slice : x = Nested(samples[r][i])
  <2> TAKE x \in S
  <2>1. PICK b \in Batch(r, slice) : x = Nested(b.row)
    OBVIOUS
  <2>2. PICK i \in slice : b = [row |-> samples[r][i], advantage |-> advantages[r][i]]
    BY DEF Batch
  <2>3. b.row = samples[r][i]
    BY <2>2
  <2> QED
    BY <2>1, <2>3
<1>2. S \subseteq {TRUE, FALSE}
  BY DEF Nested
<1>3. TRUE \in S /\ FALSE \in S
  <2>1. ~ (Cardinality(S) <= 1)
    BY DEF Stackable
  <2> HIDE DEF S
  <2> QED
    BY <1>2, <2>1, BothSorts
<1>4. PICK i \in slice : Nested(samples[r][i]) = TRUE
  BY <1>1, <1>3
<1>5. PICK j \in slice : Nested(samples[r][j]) = FALSE
  BY <1>1, <1>3
<1>6. PICK e \in Range(kept[r]) : Nested(samples[r][i]) \in Nesting(e)
  BY RowsShow
<1>7. PICK d \in Range(kept[r]) : Nested(samples[r][j]) \in Nesting(d)
  BY RowsShow
<1>8. Nesting(e) \subseteq {TRUE, FALSE} /\ Nesting(d) \subseteq {TRUE, FALSE}
  BY DEF Nesting
<1>9. TRUE \in Nesting(e) /\ FALSE \in Nesting(d)
  BY <1>4, <1>5, <1>6, <1>7
<1>10. Nesting(e) \cup Nesting(d) = {TRUE, FALSE}
  BY <1>8, <1>9
<1> QED
  BY <1>10

(* A step that leaves the pool alone.                                       *)
LEMMA PoolOfOthers ==
  ASSUME TrainerTypes, case' = case, written' = written, NEW r \in Ranks, RankInv(r), SamePool(r),
         step'[r] = step[r], stage'[r] \in Stepping => stage[r] \in Stepping
  PROVE  KeptIsDispatched(r)' /\ PoolIsPacked(r)'
<1>1. written \in Nat /\ kept[r] \in Seq(Episodes) /\ Episodes \subseteq Nat
  <2>1. case.episodes \in Seq(EpisodeType)
    BY CaseFacts DEF TrainerTypes
  <2>2. Len(case.episodes) \in Nat /\ Episodes = 1 .. Len(case.episodes)
    BY <2>1 DEF Episodes
  <2> QED
    BY <2>2 DEF TrainerTypes
<1>2. KeptIsDispatched(r)'
  BY <1>1, KeptStands DEF RankInv, SamePool
<1>3. PoolIsPacked(r)'
  BY PackedStands DEF RankInv
<1> QED
  BY <1>2, <1>3

(* A rank that fails for a reason that needs no more than that.             *)
LEMMA CausesOfRaise ==
  ASSUME case' = case, NEW r \in Ranks, stage'[r] = "raised", failure'[r] \in {"init", "empty", "gradient"}
  PROVE  Causes(r)'
BY DEF Causes

(* A rank keeps its own part of the invariant: constructing the trainer,    *)
LEMMA OwnStart ==
  ASSUME TrainerTypes, NEW r \in Ranks, RankInv(r), InitTrainer(r) \/ TrainerFails(r)
  PROVE  RankInv(r)'
<1>1. /\ case' = case /\ written' = written /\ step'[r] = step[r] /\ stage[r] = "new"
      /\ SamePool(r) /\ SameLoop(r) /\ reduces' = reduces /\ updates' = updates
  BY DEF InitTrainer, TrainerFails, SamePool, SameLoop, workerVars, loopVars, modelVars
<1>2. \/ stage'[r] = "idle" /\ failure'[r] = failure[r]
      \/ stage'[r] = "raised" /\ failure'[r] = "init"
  BY DEF InitTrainer, TrainerFails, Enter, Raise, TrainerTypes
<1>3. KeptIsDispatched(r)' /\ PoolIsPacked(r)'
  BY <1>1, <1>2, PoolOfOthers DEF Stepping, Looping
<1>4. LoopIsCounted(r)'
  BY <1>1, <1>2, LoopStands DEF RankInv, Looping
<1>5. Bounds(r)'
  BY <1>1, <1>2, PoolStands DEF RankInv, Bounds, SamePool, SameLoop
<1>6. Causes(r)'
  BY <1>1, <1>2, CausesStand, CausesOfRaise DEF RankInv
<1> QED
  BY <1>3, <1>4, <1>5, <1>6 DEF RankInv

(* beginning a step, with the freshest rollouts and an empty pool,          *)
LEMMA OwnBegin ==
  ASSUME TrainerTypes, NEW r \in Ranks, RankInv(r), BeginStep(r)
  PROVE  RankInv(r)'
<1>0. /\ step[r] + 1 \in Steps /\ step' = [step EXCEPT ![r] = step[r] + 1]
      /\ stage[r] = "idle" /\ stage' = [stage EXCEPT ![r] = "load"] /\ failure' = failure
      /\ kept' = [kept EXCEPT ![r] = Kept(Received(r))]
      /\ Received(r) \in Seq(Episodes) /\ IsInjective(Received(r))
      /\ samples' = [samples EXCEPT ![r] = <<>>] /\ advantages' = [advantages EXCEPT ![r] = <<>>]
  BY BeginFacts
<1>1. /\ step[r] + 1 \in Steps /\ step'[r] = step[r] + 1
      /\ stage[r] = "idle" /\ stage'[r] = "load" /\ failure'[r] = failure[r]
      /\ kept'[r] = Kept(Received(r)) /\ Received(r) \in Seq(Episodes) /\ IsInjective(Received(r))
      /\ samples'[r] = <<>> /\ advantages'[r] = <<>>
  BY <1>0 DEF TrainerTypes
<1>2. /\ case' = case /\ written' = written /\ SameLoop(r) /\ reduces' = reduces /\ updates' = updates
      /\ \A e \in Range(Received(r)) : e <= written
  BY DEF BeginStep, SameLoop, modelVars, Dispatched, Received
<1>3. /\ Steps' = Steps /\ (\A s : Kept(s)' = Kept(s))
      /\ Received(r) = case.feed[step'[r]][r]
  BY <1>1, <1>2, CaseStands DEF Received
<1>4. Range(Kept(Received(r))) \subseteq Range(Received(r)) /\ kept'[r] \in Seq(Episodes)
  BY <1>1, KeptFacts DEF TrainerTypes
<1>5. KeptIsDispatched(r)'
  BY <1>1, <1>2, <1>3, <1>4 DEF KeptIsDispatched
<1>6. case.expected \in Nat \ {0}
  BY CaseFacts DEF TrainerTypes
<1>7. Loaded(r)' = 0 /\ Rows(r)' = {} /\ Len(samples'[r]) = 0
  <2>1. Len(samples'[r]) = 0 /\ Rows(r)' = {}
    BY <1>1 DEF Rows
  <2>2. 0 * case.expected = 0 /\ (0 * case.expected) \div case.expected = 0
    BY <1>6, Blocks
  <2> QED
    BY <1>2, <2>1, <2>2 DEF Loaded
<1>8. PoolIsPacked(r)'
  <2>1. Len(kept'[r]) \in Nat /\ 0 * case.expected = 0 /\ 1 .. 0 = {}
    BY <1>4, <1>6
  <2> QED
    BY <1>2, <1>7, <2>1 DEF PoolIsPacked
<1>9. left[r] = {} /\ left'[r] = {}
  BY <1>1, <1>2 DEF RankInv, LoopIsCounted, SameLoop, Looping
<1>10. LoopIsCounted(r)'
  BY <1>1, <1>9 DEF LoopIsCounted, Looping
<1>11. Bounds(r)'
  BY <1>1, <1>2, <1>7, <1>9 DEF RankInv, Bounds
<1>12. Causes(r)'
  BY <1>1 DEF RankInv, Causes
<1> QED
  BY <1>5, <1>8, <1>10, <1>11, <1>12 DEF RankInv

(* loading a rollout, which may be refused,                                 *)
LEMMA OwnLoad ==
  ASSUME TrainerTypes, FilesAreKept, NEW r \in Ranks, RankInv(r), LoadRollout(r)
  PROVE  RankInv(r)'
<1> DEFINE e == ToLoad(r)
<1>1. /\ case' = case /\ written' = written /\ step' = step /\ kept' = kept /\ SameLoop(r)
      /\ reduces' = reduces /\ updates' = updates
  BY DEF LoadRollout, SameLoop, workerVars, modelVars
<1>2. stage[r] = "load" /\ Loaded(r) < Len(kept[r])
  BY DEF LoadRollout
<1>3. e \in Range(kept[r]) /\ e \in Episodes /\ Ships(case, e)
  BY <1>2, LoadFacts DEF RankInv
<1>4. CASE /\ Refused(Kinds(e))
           /\ stage' = [stage EXCEPT ![r] = "raised"] /\ failure' = [failure EXCEPT ![r] = "refused"]
           /\ samples' = samples /\ advantages' = advantages
  <2>1. stage'[r] = "raised" /\ failure'[r] = "refused" /\ SamePool(r)
    BY <1>1, <1>4 DEF TrainerTypes, SamePool
  <2>2. KeptIsDispatched(r)' /\ PoolIsPacked(r)'
    BY <1>1, <2>1, PoolOfOthers DEF Stepping, Looping
  <2>3. LoopIsCounted(r)'
    BY <1>1, <2>1, LoopStands DEF RankInv, Looping
  <2>4. Bounds(r)'
    BY <1>1, <2>1, PoolStands DEF RankInv, Bounds, SamePool, SameLoop
  <2>5. PICK d \in Range(kept[r]) : d = e
    BY <1>3
  <2>6. Refused(Outputs(d))
    BY <1>3, <1>4, <2>5, SeenFacts DEF TrainerTypes
  <2>7. Refused(Outputs(d))'
    <3>1. \A c : Outputs(c)' = Outputs(c)
      BY <1>1, CaseStands
    <3>2. \A kinds : Refused(kinds)' <=> Refused(kinds)
      BY <1>1, CaseStands
    <3>3. Outputs(d)' = Outputs(d)
      BY <3>1
    <3> QED
      BY <2>6, <3>2, <3>3
  <2>8. Causes(r)'
    <3>1. d \in Range(kept'[r])
      BY <1>1, <2>5
    <3> QED
      BY <1>1, <2>1, <2>7, <3>1 DEF Causes
  <2> QED
    BY <2>2, <2>3, <2>4, <2>8 DEF RankInv
<1>5. CASE /\ ~ Refused(Kinds(e)) /\ stage' = stage /\ failure' = failure
           /\ samples' = [samples EXCEPT ![r] = @ \o Filled(r, e)]
           /\ advantages' = [advantages EXCEPT ![r] = @ \o Weighed(r, e)]
  <2>1. PoolIsPacked(r)' /\ Len(advantages'[r]) = Len(samples'[r]) /\ Rows(r) \subseteq Rows(r)'
    BY <1>1, <1>2, <1>5, PoolOfLoad DEF RankInv
  <2>2. KeptIsDispatched(r)'
    BY <1>1, <1>5, CaseStands DEF RankInv, KeptIsDispatched
  <2>3. LoopIsCounted(r)'
    BY <1>1, <1>2, <1>5 DEF RankInv, LoopIsCounted, Looping, SameLoop
  <2>4. Bounds(r)'
    BY <1>1, <1>2, <1>5, <2>1 DEF RankInv, Bounds, SameLoop
  <2>5. Causes(r)'
    <3>1. failure'[r] = failure[r] /\ stage'[r] = stage[r] /\ kept'[r] = kept[r]
      BY <1>1, <1>5
    <3>2. failure[r] = ""
      BY <1>2 DEF RankInv, Causes
    <3> QED
      BY <1>2, <3>1, <3>2 DEF Causes
  <2> QED
    BY <2>1, <2>2, <2>3, <2>4, <2>5 DEF RankInv
<1> QED
  BY <1>4, <1>5, LoadCases DEF RankInv

(* entering the loops,                                                      *)
LEMMA OwnBeginLoop ==
  ASSUME TrainerTypes, FilesAreKept, NEW r \in Ranks, RankInv(r), BeginLoop(r)
  PROVE  RankInv(r)'
<1>1. /\ case' = case /\ written' = written /\ step' = step /\ SamePool(r) /\ stage[r] = "load"
      /\ reduces' = reduces /\ updates' = updates
  BY DEF BeginLoop, SamePool, workerVars
<1>2. KeptIsDispatched(r)' /\ PoolIsPacked(r)'
  BY <1>1, PoolOfOthers DEF Stepping
<1>3. LoopIsCounted(r)'
  BY LoopOfBegin
<1>4. \/ stage'[r] = "raised" /\ failure'[r] = "empty" /\ left'[r] = left[r]
      \/ stage'[r] = "train" /\ failure'[r] = failure[r] /\ left'[r] = Rows(r)
  BY DEF BeginLoop, Raise, Enter, TrainerTypes
<1>5. Bounds(r)'
  BY <1>1, <1>4, PoolStands DEF RankInv, Bounds, SamePool
<1>6. Causes(r)'
  BY <1>1, <1>4, CausesStand, CausesOfRaise DEF RankInv
<1> QED
  BY <1>2, <1>3, <1>5, <1>6 DEF RankInv

(* training a minibatch, which may not collate,                             *)
LEMMA OwnTrain ==
  ASSUME TrainerTypes, FilesAreKept, NEW r \in Ranks, RankInv(r), TrainMinibatch(r)
  PROVE  RankInv(r)'
<1>1. /\ case' = case /\ written' = written /\ step' = step /\ SamePool(r) /\ stage[r] = "train"
      /\ reduces' = reduces /\ updates' = updates
  BY DEF TrainMinibatch, SamePool, workerVars, modelVars
<1>2. KeptIsDispatched(r)' /\ PoolIsPacked(r)'
  BY <1>1, PoolOfOthers DEF Stepping, Looping
<1>3. LoopIsCounted(r)'
  BY LoopOfTrain
<1>4. PICK slice \in SUBSET left[r] :
        \/ stage'[r] = "reduce" /\ failure'[r] = failure[r] /\ left'[r] = left[r] \ slice
        \/ /\ ~ Stackable(Batch(r, slice))
           /\ stage'[r] = "raised" /\ failure'[r] = "collate" /\ left'[r] = left[r]
  BY DEF TrainMinibatch, Raise, Enter, TrainerTypes, kSubset
<1>5. Bounds(r)'
  BY <1>1, <1>4, PoolStands DEF RankInv, Bounds, SamePool
<1>6. Causes(r)'
  <2>1. CASE stage'[r] = "reduce" /\ failure'[r] = failure[r]
    BY <1>1, <2>1, CausesStand DEF RankInv
  <2>2. CASE ~ Stackable(Batch(r, slice)) /\ stage'[r] = "raised" /\ failure'[r] = "collate"
    <3>1. slice \subseteq Rows(r)
      BY DEF RankInv, Bounds
    <3>2. \E e, d \in Range(kept[r]) : Nesting(e) \cup Nesting(d) = {TRUE, FALSE}
      BY <1>1, <2>2, <3>1, CollateHasCause DEF RankInv, Stepping, Looping
    <3>3. \A e : Nesting(e)' = Nesting(e)
      BY <1>1, CaseStands
    <3> QED
      BY <1>1, <2>2, <3>2, <3>3 DEF Causes, SamePool
  <2> QED
    BY <1>4, <2>1, <2>2
<1> QED
  BY <1>2, <1>3, <1>5, <1>6 DEF RankInv

(* applying the reduced gradient, which may not be finite,                  *)
LEMMA OwnAfter ==
  ASSUME TrainerTypes, NEW r \in Ranks, RankInv(r), AfterReduce(r)
  PROVE  RankInv(r)'
<1>1. /\ case' = case /\ written' = written /\ step' = step /\ SamePool(r) /\ stage[r] = "reduced"
  BY DEF AfterReduce, SamePool, workerVars
<1>2. KeptIsDispatched(r)' /\ PoolIsPacked(r)'
  BY <1>1, PoolOfOthers DEF Stepping, Looping
<1>3. LoopIsCounted(r)'
  BY LoopOfAfter
<1>4. \/ stage'[r] = "raised" /\ failure'[r] = "gradient" /\ left'[r] = left[r]
      \/ stage'[r] \in {"train", "finish"} /\ failure'[r] = failure[r] /\ left'[r] \in {left[r], Rows(r)}
  BY DEF AfterReduce, NextInLoop, Raise, Enter, TrainerTypes
<1>5. reduces'[r] = reduces[r] + 1 /\ updates'[r] \in {updates[r], updates[r] + 1}
  BY DEF AfterReduce, TrainerTypes
<1>6. Bounds(r)'
  <2>1. updates'[r] <= reduces'[r]
    BY <1>5 DEF RankInv, Bounds, TrainerTypes
  <2>2. Rows(r)' = Rows(r)
    BY <1>1, PoolStands
  <2> QED
    BY <1>1, <1>4, <2>1, <2>2 DEF RankInv, Bounds, SamePool
<1>7. Causes(r)'
  BY <1>1, <1>4, CausesStand, CausesOfRaise DEF RankInv
<1> QED
  BY <1>2, <1>3, <1>6, <1>7 DEF RankInv

(* and finishing the step, the checkpoint failing or not.                   *)
LEMMA OwnFinish ==
  ASSUME TrainerTypes, NEW r \in Ranks, RankInv(r), FinishStep(r) \/ SaveFails(r)
  PROVE  RankInv(r)'
<1>1. /\ case' = case /\ written' = written /\ step' = step /\ SamePool(r) /\ SameLoop(r) /\ stage[r] = "finish"
      /\ reduces' = reduces /\ updates' = updates
  BY DEF FinishStep, SaveFails, ExpertFails, SamePool, SameLoop, workerVars, loopVars
<1>2. \/ stage'[r] = "raised" /\ failure'[r] = "checkpoint" /\ SaveCause
      \/ stage'[r] = "idle" /\ failure'[r] = failure[r]
  BY DEF FinishStep, SaveFails, ExpertFails, Raise, Enter, Tolerated, SaveCause, TrainerTypes
<1>3. KeptIsDispatched(r)' /\ PoolIsPacked(r)'
  BY <1>1, <1>2, PoolOfOthers DEF Stepping, Looping
<1>4. LoopIsCounted(r)'
  BY <1>1, <1>2, LoopStands DEF RankInv, Looping
<1>5. Bounds(r)'
  BY <1>1, <1>2, PoolStands DEF RankInv, Bounds, SamePool, SameLoop
<1>6. Causes(r)'
  <2>1. CASE stage'[r] = "raised" /\ failure'[r] = "checkpoint" /\ SaveCause
    BY <1>1, <2>1 DEF Causes, SaveCause
  <2>2. CASE stage'[r] = "idle" /\ failure'[r] = failure[r]
    BY <1>1, <2>2, CausesStand DEF RankInv
  <2> QED
    BY <1>2, <2>1, <2>2
<1> QED
  BY <1>3, <1>4, <1>5, <1>6 DEF RankInv

-----------------------------------------------------------------------------
(* All ranks at every step                                                  *)

LEMMA OwnStep ==
  ASSUME TrainerTypes, FilesAreKept, NEW r \in Ranks, RankInv(r), RankSteps(r)
  PROVE  RankInv(r)'
BY OwnStart, OwnBegin, OwnLoad, OwnBeginLoop, OwnTrain, OwnAfter, OwnFinish DEF RankSteps

(* Who takes part in a collective.                                          *)
LEMMA ReduceFacts ==
  ASSUME TrainerTypes, Reduce
  PROVE  /\ case' = case /\ written' = written /\ files' = files /\ step' = step /\ failure' = failure
         /\ reduces' = reduces /\ updates' = updates /\ reference' = reference
         /\ Ranks' = Ranks /\ Live' = Live
         /\ \A q \in Ranks : SamePool(q) /\ SameLoop(q)
         /\ \A q \in Ranks : IF stage[q] = "raised" THEN stage'[q] = "raised" /\ gradient'[q] = gradient[q]
                             ELSE stage[q] = "reduce" /\ stage'[q] = "reduced" /\ gradient'[q] = Reduced(q)
<1>1. /\ case' = case /\ written' = written /\ files' = files /\ step' = step /\ failure' = failure
      /\ reduces' = reduces /\ updates' = updates /\ reference' = reference
      /\ \A q \in Ranks : SamePool(q) /\ SameLoop(q)
  BY DEF Reduce, workerVars, modelVars, SamePool, SameLoop
<1>2. Ranks' = Ranks
  BY <1>1, CaseStands
<1>3. \A q \in Ranks : IF stage[q] = "raised" THEN stage'[q] = "raised" /\ gradient'[q] = gradient[q]
                       ELSE stage[q] = "reduce" /\ stage'[q] = "reduced" /\ gradient'[q] = Reduced(q)
  BY DEF Reduce, Live
<1>4. Live' = Live
  BY <1>2, <1>3 DEF Live
<1> QED
  BY <1>1, <1>2, <1>3, <1>4

(* Every rank keeps its part, whoever takes the step.                       *)
LEMMA RanksStep ==
  ASSUME TrainerTypes, FilesAreKept, RanksInv, TrainerNext
  PROVE  RanksInv'
<1>1. case' = case /\ Ranks' = Ranks
  BY CaseIsFixed, CaseStands
<1>2. written \in Nat
  BY CaseFacts DEF TrainerTypes
<1>3. CASE WriteEpisode
  <2>1. UNCHANGED rankVars /\ written' = written + 1
    BY <1>3 DEF WriteEpisode, NextWrite
  <2>2. \A q \in Ranks : SameRank(q) /\ updates'[q] = updates[q] /\ reduces'[q] = reduces[q]
    BY <2>1 DEF rankVars, loopVars, modelVars, SameRank, SamePool, SameLoop
  <2>3. written' \in Nat /\ written' >= written
    BY <1>2, <2>1
  <2>4. \A q \in Ranks : RankInv(q)'
    BY <1>1, <2>2, <2>3, RankStands DEF RanksInv
  <2> QED
    BY <1>1, <2>4 DEF RanksInv
<1>4. ASSUME NEW r \in Ranks, RankSteps(r)
      PROVE  RanksInv'
  <2>1. RankInv(r)'
    BY <1>4, OwnStep DEF RanksInv
  <2>2. ASSUME NEW q \in Ranks \ {r}
        PROVE  RankInv(q)'
    <3>1. SameRank(q) /\ SameModel(q) /\ written' = written
      BY <1>4, Untouched
    <3>2. written' >= written /\ written' \in Nat
      BY <1>2, <3>1
    <3> QED
      BY <1>1, <3>1, <3>2, RankStands DEF RanksInv, SameModel
  <2> QED
    BY <1>1, <2>1, <2>2 DEF RanksInv
<1>5. CASE Reduce
  <2> SUFFICES ASSUME NEW q \in Ranks
               PROVE  RankInv(q)'
    BY <1>1 DEF RanksInv
  <2>1. /\ step' = step /\ failure' = failure /\ written' = written /\ reduces' = reduces /\ updates' = updates
        /\ SamePool(q) /\ SameLoop(q)
        /\ stage'[q] = stage[q] \/ (stage[q] = "reduce" /\ stage'[q] = "reduced")
    BY <1>5, ReduceFacts
  <2>2. RankInv(q)
    BY DEF RanksInv
  <2>3. KeptIsDispatched(q)' /\ PoolIsPacked(q)'
    BY <1>1, <2>1, <2>2, PoolOfOthers DEF Stepping, Looping
  <2>4. LoopIsCounted(q)'
    BY <1>1, <2>1, <2>2, LoopStands DEF RankInv
  <2>5. Bounds(q)'
    BY <1>1, <2>1, <2>2, PoolStands DEF RankInv, Bounds, SamePool, SameLoop
  <2>6. Causes(q)'
    BY <1>1, <2>1, <2>2, CausesStand DEF RankInv
  <2> QED
    BY <2>3, <2>4, <2>5, <2>6 DEF RankInv
<1> QED
  BY <1>3, <1>4, <1>5 DEF TrainerNext

-----------------------------------------------------------------------------
(* Doom                                                                     *)

(* Where the step of a rank starts and ends.                                *)
LEMMA StagesOfSteps ==
  ASSUME TrainerTypes, NEW r \in Ranks, RankSteps(r)
  PROVE  /\ stage[r] # "raised" /\ stage'[r] # "reduced" /\ stage'[r] # "new"
         /\ stage[r] = "reduced" <=> AfterReduce(r)
         /\ stage[r] = "idle" <=> BeginStep(r)
         /\ stage'[r] = "reduce" => TrainMinibatch(r)
         /\ failure'[r] = "gradient" => failure[r] = "gradient" \/ (AfterReduce(r) /\ gradient[r] = "nonfinite")
<1>1. CASE InitTrainer(r) \/ TrainerFails(r)
  BY <1>1 DEF InitTrainer, TrainerFails, Enter, Raise, TrainerTypes, AfterReduce, BeginStep
<1>2. CASE BeginStep(r)
  <2>1. stage[r] = "idle" /\ stage' = [stage EXCEPT ![r] = "load"] /\ failure' = failure
    BY <1>2, BeginFacts
  <2> QED
    BY <1>2, <2>1 DEF TrainerTypes, AfterReduce
<1>3. CASE LoadRollout(r)
  <2>1. /\ stage[r] = "load"
        /\ stage' = stage \/ stage' = [stage EXCEPT ![r] = "raised"]
        /\ failure' = failure \/ failure' = [failure EXCEPT ![r] = "missing"]
           \/ failure' = [failure EXCEPT ![r] = "refused"]
    BY <1>3 DEF LoadRollout, Raise
  <2> QED
    BY <2>1 DEF TrainerTypes, AfterReduce, BeginStep
<1>4. CASE BeginLoop(r)
  <2>1. /\ stage[r] = "load"
        /\ stage' = [stage EXCEPT ![r] = "train"] \/ stage' = [stage EXCEPT ![r] = "raised"]
        /\ failure' = failure \/ failure' = [failure EXCEPT ![r] = "empty"]
    BY <1>4 DEF BeginLoop, Raise, Enter
  <2> QED
    BY <2>1 DEF TrainerTypes, AfterReduce, BeginStep
<1>5. CASE TrainMinibatch(r)
  <2>1. /\ stage[r] = "train"
        /\ stage' = [stage EXCEPT ![r] = "reduce"] \/ stage' = [stage EXCEPT ![r] = "raised"]
        /\ failure' = failure \/ failure' = [failure EXCEPT ![r] = "collate"]
    BY <1>5 DEF TrainMinibatch, Raise, Enter
  <2> QED
    BY <1>5, <2>1 DEF TrainerTypes, AfterReduce, BeginStep
<1>6. CASE AfterReduce(r)
  BY <1>6 DEF AfterReduce, NextInLoop, Raise, Enter, TrainerTypes, BeginStep
<1>7. CASE FinishStep(r) \/ SaveFails(r)
  BY <1>7 DEF FinishStep, SaveFails, ExpertFails, Raise, Enter, TrainerTypes, AfterReduce, BeginStep
<1> QED
  BY <1>1, <1>2, <1>3, <1>4, <1>5, <1>6, <1>7 DEF RankSteps

(* A gradient that is not finite has a cause in the rollouts of its rank.   *)
LEMMA GradientHasCause ==
  ASSUME TrainerTypes, FilesAreKept, NEW r \in Ranks, RankInv(r), TrainMinibatch(r),
         gradient'[r] = "nonfinite", stage'[r] = "reduce"
  PROVE  SpoiledBy(r)
<1>1. stage[r] = "train"
  BY DEF TrainMinibatch
<1>2. PICK slice \in kSubset(SliceSize(r), left[r]) : "nonfinite" \in Gradients(Batch(r, slice))
  BY DEF TrainMinibatch, Raise, TrainerTypes
<1>3. slice \subseteq Rows(r)
  BY DEF RankInv, Bounds, kSubset
<1>4. CASE \E row \in {b.row : b \in Batch(r, slice)} : ~ Finite(row)
  <2>1. PICK i \in slice : ~ Finite(samples[r][i])
    BY <1>4 DEF Batch
  <2> QED
    BY <1>1, <1>3, <2>1, RowsShow DEF RankInv, Stepping, Looping, SpoiledBy
<1>5. CASE "diverge" \in case.faults
  BY <1>5 DEF SpoiledBy
<1> QED
  BY <1>2, <1>4, <1>5 DEF Gradients

(* The cause stays.                                                         *)
LEMMA SpoiledStands ==
  ASSUME case' = case, NEW q \in Ranks, kept'[q] = kept[q], SpoiledBy(q)
  PROVE  SpoiledBy(q)'
<1>1. \A e : Spoils(e)' = Spoils(e)
  BY CaseStands
<1> QED
  BY <1>1 DEF SpoiledBy

(* A gradient that is not finite was made so by some rank, and ends all of  *)
(* them.                                                                    *)
LEMMA DoomStep ==
  ASSUME TrainerTypes, FilesAreKept, RanksInv, Doom, TrainerNext
  PROVE  Doom'
<1>1. case' = case /\ Ranks' = Ranks
  BY CaseIsFixed, CaseStands
<1>2. CASE WriteEpisode
  <2>1. stage' = stage /\ gradient' = gradient /\ failure' = failure /\ kept' = kept
    BY <1>2 DEF WriteEpisode, rankVars, loopVars
  <2>2. Spoiled => Spoiled'
    BY <1>1, <2>1, SpoiledStands DEF Spoiled
  <2>3. \A q \in Ranks : SpoiledBy(q) => SpoiledBy(q)'
    BY <1>1, <2>1, SpoiledStands
  <2>4. Live' = Live /\ \A q \in Ranks : IsDoomed(q)' <=> IsDoomed(q)
    BY <1>1, <2>1 DEF Live, IsDoomed
  <2> QED
    BY <1>1, <2>1, <2>2, <2>3, <2>4 DEF Doom
<1>3. ASSUME NEW r \in Ranks, RankSteps(r)
      PROVE  Doom'
  <2>1. \A q \in Ranks \ {r} : /\ stage'[q] = stage[q] /\ gradient'[q] = gradient[q]
                               /\ failure'[q] = failure[q] /\ kept'[q] = kept[q]
    BY <1>3, Untouched DEF SameRank, SamePool
  <2>2. /\ stage[r] # "raised" /\ stage'[r] # "reduced"
        /\ stage[r] = "reduced" <=> AfterReduce(r)
        /\ stage[r] = "idle" <=> BeginStep(r)
        /\ stage'[r] = "reduce" => TrainMinibatch(r)
        /\ failure'[r] = "gradient" => failure[r] = "gradient" \/ (AfterReduce(r) /\ gradient[r] = "nonfinite")
    BY <1>3, StagesOfSteps
  <2>3. ASSUME NEW q \in Ranks, stage'[q] = "reduce", gradient'[q] = "nonfinite"
        PROVE  SpoiledBy(q)'
    <3>1. CASE q = r
      <4>1. SpoiledBy(r)
        BY <2>2, <2>3, <3>1, GradientHasCause DEF RanksInv
      <4>2. kept'[r] = kept[r]
        BY <2>2, <2>3, <3>1 DEF TrainMinibatch
      <4> QED
        BY <1>1, <3>1, <4>1, <4>2, SpoiledStands
    <3>2. CASE q # r
      BY <1>1, <2>1, <2>3, <3>2, SpoiledStands DEF Doom
    <3> QED
      BY <3>1, <3>2
  <2>4. ASSUME NEW q \in Ranks, IsDoomed(q)'
        PROVE  \E p \in Ranks : IsDoomed(p)
    BY <2>1, <2>2, <2>4 DEF IsDoomed, AfterReduce
  <2>5. ASSUME NEW p \in Ranks, IsDoomed(p)
        PROVE  Spoiled' /\ \A q \in Live' : stage'[q] = "reduced" /\ gradient'[q] = "nonfinite"
    <3>1. Spoiled /\ \A q \in Live : stage[q] = "reduced" /\ gradient[q] = "nonfinite"
      BY <2>5 DEF Doom
    <3>2. r \in Live /\ AfterReduce(r) /\ gradient[r] = "nonfinite"
      BY <2>2, <3>1 DEF Live
    <3>3. kept' = kept /\ stage' = [stage EXCEPT ![r] = "raised"]
      BY <3>2 DEF AfterReduce, Raise
    <3>4. Live' = Live \ {r}
      BY <1>1, <3>3 DEF Live, TrainerTypes
    <3>5. Spoiled'
      BY <1>1, <3>1, <3>3, SpoiledStands DEF Spoiled
    <3>6. \A q \in Live' : q \in Ranks \ {r}
      BY <3>4 DEF Live
    <3> QED
      BY <2>1, <3>1, <3>4, <3>5, <3>6
  <2> QED
    BY <1>1, <2>3, <2>4, <2>5 DEF Doom
<1>4. CASE Reduce
  <2>1. /\ failure' = failure /\ Live' = Live
        /\ \A q \in Ranks : kept'[q] = kept[q]
        /\ \A q \in Ranks : IF stage[q] = "raised" THEN stage'[q] = "raised" /\ gradient'[q] = gradient[q]
                            ELSE stage[q] = "reduce" /\ stage'[q] = "reduced" /\ gradient'[q] = Reduced(q)
    BY <1>4, ReduceFacts DEF SamePool
  <2>2. \A q \in Ranks : ~ IsDoomed(q)
    BY <1>4, <2>1 DEF Doom, Reduce, IsDoomed
  <2>3. \A q \in Ranks : stage'[q] # "reduce"
    BY <2>1
  <2>4. ASSUME NEW q \in Ranks, IsDoomed(q)'
        PROVE  Spoiled' /\ \A p \in Live' : stage'[p] = "reduced" /\ gradient'[p] = "nonfinite"
    <3>1. gradient'[q] = "nonfinite" /\ stage'[q] = "reduced"
      BY <2>1, <2>2, <2>4 DEF IsDoomed
    <3>2. Reduced(q) = "nonfinite"
      BY <2>1, <3>1
    <3>3. PICK p \in Live : gradient[p] = "nonfinite"
      BY <3>2 DEF Reduced, Sum
    <3>4. SpoiledBy(p) /\ p \in Ranks
      BY <1>4, <3>3 DEF Doom, Reduce, Live
    <3>5. Spoiled'
      BY <1>1, <2>1, <3>4, SpoiledStands DEF Spoiled
    <3>6. \A s : Reduced(s) = "nonfinite"
      BY <3>2 DEF Reduced
    <3> QED
      BY <2>1, <3>5, <3>6 DEF Live
  <2> QED
    BY <1>1, <2>3, <2>4 DEF Doom
<1> QED
  BY <1>2, <1>3, <1>4 DEF TrainerNext

-----------------------------------------------------------------------------
(* Lockstep                                                                 *)

(* Where a rank is seen from another.                                       *)
SameView(q) ==
  /\ step'[q] = step[q] /\ Passed(q)' = Passed(q) /\ Updated(q)' = Updated(q)
  /\ Point(q)' = Point(q) /\ Reference(q)' = Reference(q)

(* A rank that is left alone is seen where it was.                          *)
LEMMA ViewStands ==
  ASSUME case' = case, NEW q, SameRank(q), SameModel(q), gradient'[q] = gradient[q]
  PROVE  SameView(q) /\ EnsuredReference(q)' = EnsuredReference(q)
<1>1. /\ stage'[q] = stage[q] /\ step'[q] = step[q] /\ SamePool(q)
      /\ iteration'[q] = iteration[q] /\ minibatch'[q] = minibatch[q]
      /\ reduces'[q] = reduces[q] /\ updates'[q] = updates[q] /\ reference'[q] = reference[q]
  BY DEF SameRank, SameLoop, SameModel
<1>2. NumMiniBatches(q)' = NumMiniBatches(q)
  BY <1>1, PoolStands
<1>3. IsLast(q)' <=> IsLast(q)
  BY <1>1, <1>2 DEF IsLast
<1>4. Following(q)' = Following(q)
  <2>1. CASE IsLast(q)
    BY <1>1, <1>3, <2>1 DEF IsLast, Following, Outside
  <2>2. CASE minibatch[q] = NumMiniBatches(q) /\ iteration[q] # case.iterations
    BY <1>1, <1>2, <2>2 DEF IsLast, Following
  <2>3. CASE minibatch[q] # NumMiniBatches(q)
    BY <1>1, <1>2, <2>3 DEF IsLast, Following
  <2> QED
    BY <2>1, <2>2, <2>3 DEF IsLast
<1>5. Point(q)' = Point(q)
  BY <1>1, <1>4 DEF Point, Outside
<1>6. Passed(q)' = Passed(q) /\ Updated(q)' = Updated(q)
  BY <1>1 DEF Passed, Updated, One
<1>7. EnsuredReference(q)' = EnsuredReference(q) /\ (Resets(q)' <=> Resets(q))
  BY <1>1 DEF EnsuredReference, Resets, NoModel
<1>8. Reset(q)' = Reset(q)
  BY <1>1, <1>6, <1>7 DEF Reset
<1>9. Reference(q)' = Reference(q)
  BY <1>1, <1>3, <1>7, <1>8 DEF Reference
<1> QED
  BY <1>1, <1>5, <1>6, <1>7, <1>9 DEF SameView

(* What a rank does between two collectives shows no other rank anything.   *)
LEMMA ViewOfStart ==
  ASSUME TrainerTypes, NEW r \in Ranks, InitTrainer(r), stage'[r] # "raised"
  PROVE  SameView(r)
<1>1. /\ case' = case /\ stage[r] = "new" /\ stage'[r] = "idle" /\ step' = step
      /\ reduces' = reduces /\ updates' = updates /\ reference' = reference
  BY DEF InitTrainer, Enter, TrainerTypes, modelVars
<1> QED
  BY <1>1 DEF SameView, Passed, Updated, Point, Reference, Outside, One

(* Loading,                                                                 *)
LEMMA ViewOfLoad ==
  ASSUME TrainerTypes, NEW r \in Ranks, LoadRollout(r), stage'[r] # "raised"
  PROVE  SameView(r)
<1>1. /\ case' = case /\ stage[r] = "load" /\ stage'[r] = "load" /\ step' = step
      /\ reduces' = reduces /\ updates' = updates /\ reference' = reference
  <2>1. stage' = stage \/ stage' = [stage EXCEPT ![r] = "raised"]
    BY DEF LoadRollout, Raise
  <2> QED
    BY <2>1 DEF LoadRollout, TrainerTypes, modelVars
<1>2. EnsuredReference(r)' = EnsuredReference(r)
  BY <1>1 DEF EnsuredReference, NoModel
<1> QED
  BY <1>1, <1>2 DEF SameView, Passed, Updated, Point, Reference, Outside, One

(* copying the reference model before the loops,                            *)
LEMMA ViewOfBeginLoop ==
  ASSUME TrainerTypes, NEW r \in Ranks, BeginLoop(r), stage'[r] # "raised"
  PROVE  SameView(r)
<1>1. /\ case' = case /\ stage[r] = "load" /\ stage'[r] = "train" /\ step' = step
      /\ reduces' = reduces /\ updates' = updates /\ reference'[r] = EnsuredReference(r)
      /\ iteration'[r] = 1 /\ minibatch'[r] = 1
  BY DEF BeginLoop, Raise, Enter, TrainerTypes
<1> QED
  BY <1>1 DEF SameView, Passed, Updated, Point, Reference, Outside, One

(* computing a gradient,                                                    *)
LEMMA ViewOfTrain ==
  ASSUME TrainerTypes, NEW r \in Ranks, TrainMinibatch(r), stage'[r] # "raised"
  PROVE  SameView(r)
<1>1. /\ case' = case /\ stage[r] = "train" /\ stage'[r] = "reduce" /\ step' = step
      /\ reduces' = reduces /\ updates' = updates /\ reference' = reference
      /\ iteration' = iteration /\ minibatch' = minibatch
  BY DEF TrainMinibatch, Raise, Enter, TrainerTypes, modelVars
<1> QED
  BY <1>1 DEF SameView, Passed, Updated, Point, Reference, Outside, One

(* going on after the collective: the updates it implies were counted with  *)
(* it,                                                                      *)
LEMMA ViewOfAfter ==
  ASSUME TrainerTypes, NEW r \in Ranks, RankInv(r), AfterReduce(r), stage'[r] # "raised"
  PROVE  SameView(r)
<1>1. /\ case' = case /\ stage[r] = "reduced" /\ step' = step /\ reference' = reference
      /\ samples' = samples /\ kept' = kept /\ advantages' = advantages
      /\ reduces'[r] = reduces[r] + 1
  BY DEF AfterReduce, TrainerTypes
<1>2. /\ updates'[r] = IF gradient[r] = "signal" THEN updates[r] + 1 ELSE updates[r]
      /\ NextInLoop(r)
  BY DEF AfterReduce, Raise, TrainerTypes
<1>3. iteration[r] \in 1 .. case.iterations /\ case.iterations \in Nat
  BY <1>1, CaseFacts DEF TrainerTypes, RankInv, LoopIsCounted, Looping
<1>4. \/ /\ IsLast(r) /\ stage'[r] = "finish"
      \/ /\ ~ IsLast(r) /\ stage'[r] = "train" /\ <<iteration'[r], minibatch'[r]>> = Following(r)
  <2>1. CASE minibatch[r] # NumMiniBatches(r)
    BY <1>2, <2>1 DEF NextInLoop, Enter, TrainerTypes, IsLast, Following
  <2>2. CASE minibatch[r] = NumMiniBatches(r) /\ iteration[r] # case.iterations
    <3>1. iteration[r] < case.iterations
      BY <1>3, <2>2
    <3> QED
      BY <1>2, <2>2, <3>1 DEF NextInLoop, Enter, TrainerTypes, IsLast, Following
  <2>3. CASE IsLast(r)
    <3>1. ~ (iteration[r] < case.iterations)
      BY <1>3, <2>3 DEF IsLast
    <3> QED
      BY <1>2, <2>3, <3>1 DEF NextInLoop, Enter, TrainerTypes, IsLast
  <2> QED
    BY <2>1, <2>2, <2>3 DEF IsLast
<1>5. Point(r)' = Point(r)
  <2>1. Point(r) = Following(r)
    BY <1>1 DEF Point
  <2>2. CASE IsLast(r)
    <3>1. Following(r) = Outside
      BY <2>2 DEF Following, IsLast
    <3> QED
      BY <1>4, <2>1, <2>2, <3>1 DEF Point, Outside
  <2>3. CASE ~ IsLast(r)
    BY <1>4, <2>1, <2>3 DEF Point
  <2> QED
    BY <2>2, <2>3
<1>6. Passed(r)' = Passed(r) /\ Updated(r)' = Updated(r) /\ Updated(r)' = updates'[r]
  BY <1>1, <1>2, <1>4 DEF Passed, Updated, One, TrainerTypes
<1>7. Resets(r)' <=> Resets(r)
  BY <1>1 DEF Resets
<1>8. Reset(r)' = Reset(r)
  BY <1>1, <1>6, <1>7 DEF Reset
<1>9. Reference(r)' = Reference(r)
  BY <1>1, <1>4, <1>8 DEF Reference
<1> QED
  BY <1>1, <1>5, <1>6, <1>9 DEF SameView

(* and resetting the reference model show nothing.                          *)
LEMMA ViewOfFinish ==
  ASSUME TrainerTypes, NEW r \in Ranks, FinishStep(r) \/ SaveFails(r), stage'[r] # "raised"
  PROVE  SameView(r)
<1>1. /\ case' = case /\ stage[r] = "finish" /\ stage'[r] = "idle" /\ step' = step
      /\ reduces' = reduces /\ updates' = updates
      /\ reference'[r] = IF Resets(r) THEN updates[r] ELSE reference[r]
  BY DEF FinishStep, SaveFails, ExpertFails, Raise, Enter, TrainerTypes
<1>2. Updated(r) = updates[r]
  BY <1>1 DEF Updated, One, TrainerTypes
<1>3. Reference(r) = reference'[r]
  BY <1>1, <1>2 DEF Reference, Reset
<1> QED
  BY <1>1, <1>3 DEF SameView, Passed, Updated, Point, Reference, Outside, One

(* So only beginning a step, failing and the collective do.                 *)
LEMMA ViewOfStep ==
  ASSUME TrainerTypes, NEW r \in Ranks, RankInv(r), RankSteps(r), ~ BeginStep(r), stage'[r] # "raised"
  PROVE  SameView(r)
<1>1. ~ TrainerFails(r)
  BY DEF TrainerFails, Raise, TrainerTypes
<1> QED
  BY <1>1, ViewOfStart, ViewOfLoad, ViewOfBeginLoop, ViewOfTrain, ViewOfAfter, ViewOfFinish DEF RankSteps

(* Steps are numbers.                                                       *)
LEMMA StepsCount ==
  ASSUME TrainerTypes, NEW r \in Ranks
  PROVE  step[r] \in Nat
<1>1. Len(case.feed) \in Nat
  BY CaseFacts DEF TrainerTypes
<1> QED
  BY <1>1 DEF TrainerTypes

(* A rank that begins a step joins those that began it, or is the first.    *)
LEMMA LockstepOfBegin ==
  ASSUME TrainerTypes, InLockstep, NEW r \in Ranks, BeginStep(r)
  PROVE  InLockstep'
<1>1. /\ step'[r] = step[r] + 1 /\ stage[r] = "idle" /\ stage'[r] = "load"
      /\ stage' = [stage EXCEPT ![r] = "load"]
  <2>1. /\ step' = [step EXCEPT ![r] = step[r] + 1]
        /\ stage[r] = "idle" /\ stage' = [stage EXCEPT ![r] = "load"]
    BY BeginFacts
  <2> QED
    BY <2>1 DEF TrainerTypes
<1>2. case' = case /\ reduces' = reduces /\ updates' = updates /\ reference' = reference /\ gradient' = gradient
  BY DEF BeginStep, modelVars
<1>3. Ranks' = Ranks /\ Live' = Live /\ r \in Live
  <2>1. Ranks' = Ranks
    BY <1>2, CaseStands
  <2> QED
    BY <1>1, <2>1 DEF Live, TrainerTypes
<1>4. /\ Passed(r)' = Passed(r) /\ Updated(r)' = Updated(r) /\ Point(r)' = <<1, 1>>
      /\ Reference(r)' = EnsuredReference(r) /\ Point(r) = Outside /\ Reference(r) = reference[r]
      /\ Updated(r) = updates[r]
  <2>1. EnsuredReference(r)' = EnsuredReference(r)
    BY <1>2 DEF EnsuredReference, NoModel
  <2>2. Passed(r)' = Passed(r) /\ Updated(r)' = Updated(r)
    BY <1>1, <1>2 DEF Passed, Updated, One
  <2>3. Point(r)' = <<1, 1>> /\ Reference(r)' = EnsuredReference(r)
    BY <1>1, <2>1 DEF Point, Reference
  <2>4. Updated(r) = updates[r]
    BY <1>1 DEF Updated, One, TrainerTypes
  <2> QED
    BY <1>1, <2>2, <2>3, <2>4 DEF Point, Reference
<1>5. <<1, 1>> # Outside
  BY DEF Outside
<1>6. ASSUME NEW q \in Live, q # r
      PROVE  Together(r, q)' /\ Together(q, r)'
  <2>1. q \in Ranks \ {r} /\ RankSteps(r)
    BY <1>6 DEF Live, RankSteps
  <2>2. /\ stage'[q] = stage[q] /\ step'[q] = step[q] /\ gradient'[q] = gradient[q]
        /\ SameView(q) /\ EnsuredReference(q)' = EnsuredReference(q)
    BY <1>2, <2>1, Untouched, ViewStands DEF SameRank
  <2>3. step[q] \in Nat /\ step[r] \in Nat
    BY <2>1, StepsCount
  <2>4. Together(r, q) /\ Together(q, r)
    BY <1>3 DEF InLockstep
  <2>5. stage[q] = "idle" \/ step[q] > step[r]
    BY DEF BeginStep, Dispatched
  <2>6. step[q] = step[r] \/ step[q] = step[r] + 1
    <3>1. step[r] # step[q] + 1
      BY <1>4, <1>5, <2>4 DEF Together
    <3>2. step[r] <= step[q] + 1 /\ step[q] <= step[r] + 1
      BY <2>4 DEF Together
    <3> QED
      BY <2>3, <3>1, <3>2
  <2>7. Passed(r)' = Passed(q)' /\ Updated(r)' = Updated(q)'
    BY <1>4, <2>2, <2>4 DEF Together, SameView
  <2>8. CASE step[q] = step[r] + 1
    <3>1. stage[r] = "idle" /\ Point(q) = <<1, 1>> /\ Reference(q) = EnsuredReference(r)
      BY <2>4, <2>8 DEF Together
    <3>2. Point(r)' = Point(q)' /\ Reference(r)' = Reference(q)'
      BY <1>4, <2>2, <3>1 DEF SameView
    <3>3. /\ step'[r] = step'[q] /\ step'[r] <= step'[q] + 1 /\ step'[q] <= step'[r] + 1
          /\ step'[r] # step'[q] + 1 /\ step'[q] # step'[r] + 1
      BY <1>1, <2>2, <2>3, <2>8
    <3> QED
      BY <1>1, <2>7, <3>2, <3>3 DEF Together
  <2>9. CASE step[q] = step[r]
    <3>1. stage[q] = "idle"
      BY <2>3, <2>5, <2>9
    <3>2. Updated(q) = updates[q] /\ Reference(q) = reference[q]
      BY <2>1, <3>1 DEF Updated, One, Reference, TrainerTypes
    <3>3. updates[q] = updates[r] /\ reference[q] = reference[r]
      BY <1>4, <2>4, <2>9, <3>2 DEF Together
    <3>4. EnsuredReference(q)' = Reference(r)'
      BY <1>4, <2>2, <3>3 DEF EnsuredReference
    <3>5. /\ step'[r] = step'[q] + 1 /\ step'[r] <= step'[q] + 1 /\ step'[q] <= step'[r] + 1
          /\ step'[r] # step'[q] /\ step'[q] # step'[r] + 1
      BY <1>1, <2>2, <2>3, <2>9
    <3> QED
      BY <1>1, <1>4, <2>2, <2>7, <3>1, <3>4, <3>5 DEF Together
  <2> QED
    BY <2>6, <2>8, <2>9
<1>7. Together(r, r)'
  <2>1. step'[r] <= step'[r] + 1 /\ step'[r] # step'[r] + 1
    BY <1>1, StepsCount
  <2> QED
    BY <2>1 DEF Together
<1>8. ASSUME NEW p \in Live, NEW q \in Live, p # r, q # r
      PROVE  Together(p, q)'
  <2>1. p \in Ranks \ {r} /\ q \in Ranks \ {r} /\ RankSteps(r)
    BY <1>8 DEF Live, RankSteps
  <2>2. /\ stage'[q] = stage[q] /\ gradient'[q] = gradient[q]
        /\ SameView(q) /\ EnsuredReference(q)' = EnsuredReference(q)
    BY <1>2, <2>1, Untouched, ViewStands DEF SameRank
  <2>3. stage'[p] = stage[p] /\ gradient'[p] = gradient[p] /\ SameView(p)
    BY <1>2, <2>1, Untouched, ViewStands DEF SameRank
  <2>4. Together(p, q)
    BY DEF InLockstep
  <2> QED
    BY <2>2, <2>3, <2>4 DEF Together, SameView
<1> QED
  BY <1>3, <1>6, <1>7, <1>8 DEF InLockstep

(* A rank that does anything else between two collectives.                  *)
LEMMA LockstepOfOthers ==
  ASSUME TrainerTypes, InLockstep, NEW r \in Ranks, RankInv(r), RankSteps(r), ~ BeginStep(r)
  PROVE  InLockstep'
<1>1. case' = case /\ step' = step /\ Ranks' = Ranks
  BY OtherSteps, CaseStands
<1>2. stage[r] # "raised" /\ stage[r] # "idle" /\ stage'[r] # "reduced"
  BY StagesOfSteps
<1>3. \A q \in Ranks \ {r} : /\ stage'[q] = stage[q] /\ gradient'[q] = gradient[q]
                             /\ SameView(q) /\ EnsuredReference(q)' = EnsuredReference(q)
  BY <1>1, Untouched, ViewStands DEF SameRank
<1>4. Live' \subseteq Live
  BY <1>1, <1>2, <1>3 DEF Live
<1>5. r \in Live' => SameView(r)
  BY <1>1, ViewOfStep DEF Live
<1>6. ASSUME NEW p \in Live', NEW q \in Live'
      PROVE  Together(p, q)'
  <2>1. Together(p, q)
    BY <1>4 DEF InLockstep
  <2>2. p \in Ranks /\ q \in Ranks /\ SameView(p) /\ SameView(q)
    BY <1>1, <1>3, <1>5, <1>6 DEF Live
  <2>3. stage'[p] = "reduced" /\ stage'[q] = "reduced" => gradient'[p] = gradient'[q]
    BY <1>2, <1>3, <2>1, <2>2 DEF Together
  <2>4. step'[p] = step'[q] + 1 =>
          stage'[q] = "idle" /\ Point(p)' = <<1, 1>> /\ Reference(p)' = EnsuredReference(q)'
    BY <1>1, <1>2, <1>3, <2>1, <2>2 DEF Together, SameView
  <2> QED
    BY <1>1, <2>1, <2>2, <2>3, <2>4 DEF Together, SameView
<1> QED
  BY <1>6 DEF InLockstep

(* The collective: all are at the same minibatch.                           *)
LEMMA LockstepOfReduce ==
  ASSUME TrainerTypes, RanksInv, InLockstep, Reduce
  PROVE  InLockstep'
<1>1. /\ case' = case /\ step' = step /\ reduces' = reduces /\ updates' = updates /\ reference' = reference
      /\ Live' = Live
      /\ \A q \in Ranks : SamePool(q) /\ SameLoop(q)
      /\ \A q \in Live : stage[q] = "reduce" /\ stage'[q] = "reduced" /\ gradient'[q] = Reduced(q)
  BY ReduceFacts DEF Live
<1>2. \A q : Reduced(q) = Sum({gradient[d] : d \in Live})
  BY DEF Reduced
<1>3. ASSUME NEW p \in Live, NEW q \in Live
      PROVE  Together(p, q)'
  <2>1. p \in Ranks /\ q \in Ranks /\ Together(p, q) /\ Together(q, p)
    BY DEF InLockstep, Live
  <2>2. step[p] = step[q]
    <3>1. step[p] \in Nat /\ step[q] \in Nat
      BY <2>1, StepsCount
    <3>2. step[p] <= step[q] + 1 /\ step[q] <= step[p] + 1
      BY <2>1 DEF Together
    <3>3. step[p] # step[q] + 1 /\ step[q] # step[p] + 1
      BY <1>1, <2>1 DEF Together
    <3> QED
      BY <3>1, <3>2, <3>3
  <2>3. iteration[p] = iteration[q] /\ minibatch[p] = minibatch[q] /\ reference[p] = reference[q]
    BY <1>1, <2>1, <2>2 DEF Together, Point, Reference
  <2>4. Len(samples[p]) = Len(samples[q])
    BY <1>1, <2>1, LoopingFacts DEF RanksInv, RankInv, Looping
  <2>5. reduces[p] = reduces[q] /\ updates[p] = updates[q]
    <3>0. /\ reduces[p] \in Nat /\ reduces[q] \in Nat /\ updates[p] \in Nat /\ updates[q] \in Nat
          /\ stage[p] = "reduce" /\ stage[q] = "reduce"
      BY <1>1, <2>1 DEF TrainerTypes
    <3>1. /\ Passed(p) = reduces[p] /\ Passed(q) = reduces[q]
          /\ Updated(p) = updates[p] /\ Updated(q) = updates[q]
      BY <3>0 DEF Passed, Updated, One
    <3> QED
      BY <2>1, <3>1 DEF Together
  <2>6. gradient'[p] = gradient'[q]
    BY <1>1, <1>2
  <2>7. /\ iteration'[p] = iteration'[q] /\ minibatch'[p] = minibatch'[q] /\ reference'[p] = reference'[q]
        /\ reduces'[p] = reduces'[q] /\ updates'[p] = updates'[q] /\ step'[p] = step'[q]
        /\ stage'[p] = "reduced" /\ stage'[q] = "reduced"
    BY <1>1, <2>1, <2>2, <2>3, <2>5 DEF SameLoop
  <2>8. NumMiniBatches(p)' = NumMiniBatches(q)'
    <3>1. Len(samples'[p]) = Len(samples'[q])
      BY <1>1, <2>1, <2>4 DEF SamePool
    <3>2. MiniBatchSize(p)' = MiniBatchSize(q)'
      BY <3>1 DEF MiniBatchSize
    <3> QED
      BY <3>1, <3>2 DEF NumMiniBatches
  <2>9. (IsLast(p)' <=> IsLast(q)') /\ Following(p)' = Following(q)'
    <3>1. IsLast(p)' <=> IsLast(q)'
      BY <2>7, <2>8 DEF IsLast
    <3>2. CASE IsLast(p)'
      BY <2>7, <2>8, <3>1, <3>2 DEF IsLast, Following, Outside
    <3>3. CASE (minibatch[p] = NumMiniBatches(p) /\ iteration[p] # case.iterations)'
      BY <2>7, <2>8, <3>3 DEF IsLast, Following
    <3>4. CASE (minibatch[p] # NumMiniBatches(p))'
      BY <2>7, <2>8, <3>4 DEF IsLast, Following
    <3> QED
      BY <3>1, <3>2, <3>3, <3>4 DEF IsLast
  <2>10. Point(p)' = Point(q)'
    BY <2>7, <2>9 DEF Point
  <2>11. Passed(p)' = Passed(q)' /\ Updated(p)' = Updated(q)'
    BY <2>6, <2>7 DEF Passed, Updated
  <2>12. Resets(p)' <=> Resets(q)'
    BY <2>7 DEF Resets
  <2>13. Reset(p)' = Reset(q)'
    BY <2>7, <2>11, <2>12 DEF Reset
  <2>14. Reference(p)' = Reference(q)'
    BY <2>7, <2>9, <2>13 DEF Reference
  <2>15. step'[p] <= step'[q] + 1 /\ step'[p] # step'[q] + 1
    BY <1>1, <2>1, <2>2, StepsCount
  <2> QED
    BY <2>6, <2>10, <2>11, <2>14, <2>15 DEF Together
<1> QED
  BY <1>1, <1>3 DEF InLockstep

(* The ranks stay in lockstep.                                              *)
LEMMA LockstepStep ==
  ASSUME TrainerTypes, RanksInv, InLockstep, TrainerNext
  PROVE  InLockstep'
<1>1. CASE WriteEpisode
  <2>1. case' = case /\ UNCHANGED rankVars
    BY <1>1 DEF WriteEpisode
  <2>2. \A q \in Ranks : SameRank(q) /\ SameModel(q) /\ gradient'[q] = gradient[q]
    BY <2>1 DEF rankVars, loopVars, modelVars, SameRank, SameModel, SamePool, SameLoop
  <2>3. Live' = Live
    BY <2>1, CaseStands DEF Live, rankVars
  <2>4. \A q \in Live : /\ SameView(q) /\ EnsuredReference(q)' = EnsuredReference(q)
                        /\ stage'[q] = stage[q] /\ gradient'[q] = gradient[q]
    BY <2>1, <2>2, ViewStands DEF Live, SameRank
  <2>5. ASSUME NEW p \in Live, NEW q \in Live
        PROVE  Together(p, q)'
    <3>1. Together(p, q)
      BY DEF InLockstep
    <3> QED
      BY <2>4, <3>1 DEF Together, SameView
  <2> QED
    BY <2>3, <2>5 DEF InLockstep
<1>2. ASSUME NEW r \in Ranks, RankSteps(r)
      PROVE  InLockstep'
  BY <1>2, LockstepOfBegin, LockstepOfOthers DEF RanksInv
<1> QED
  BY <1>1, <1>2, LockstepOfReduce DEF TrainerNext

-----------------------------------------------------------------------------
(* The composition                                                          *)

(* Types again: every step of a trainer keeps them.                         *)
LEMMA TypesStep ==
  ASSUME TrainerTypes, FilesAreKept, RanksInv, TrainerNext
  PROVE  TrainerTypes'
<1>1. ASSUME NEW r \in Ranks, RankSteps(r)
      PROVE  TrainerTypes'
  BY <1>1, TypesOfStart, TypesOfBegin, TypesOfLoad, TypesOfLoop, TypesOfFinish DEF RanksInv, RankInv, RankSteps
<1> QED
  BY <1>1, TypesOfWrite, TypesOfReduce DEF TrainerNext

(* The invariant is inductive.                                              *)
LEMMA TrainerStep ==
  ASSUME TrainerInv, TrainerNext
  PROVE  TrainerInv'
<1>1. \A r \in Ranks : Bounds(r)
  BY DEF TrainerInv, RanksInv, RankInv
<1> QED
  BY <1>1, TypesStep, FilesStep, RanksStep, LockstepStep, DoomStep, SavesStep DEF TrainerInv

(* It holds at first, when no rank has a trainer.                           *)
LEMMA TrainerInit ==
  ASSUME Init
  PROVE  TrainerInv
<1>1. case \in Cases /\ written = 0 /\ files = <<>> /\ saved = {}
  BY DEF Init
<1>2. \A r \in Ranks :
        /\ stage[r] = "new" /\ step[r] = 0 /\ failure[r] = "" /\ gradient[r] = "zero"
        /\ samples[r] = <<>> /\ advantages[r] = <<>> /\ left[r] = {}
        /\ reduces[r] = 0 /\ updates[r] = 0 /\ reference[r] = NoModel
  BY DEF Init
<1>3. Len(case.episodes) \in Nat /\ Len(case.feed) \in Nat
  <2>1. /\ case.episodes \in Seq(EpisodeType)
        /\ case.feed \in Seq([1 .. case.ranks -> Seq(DOMAIN case.episodes)])
    BY <1>1, CaseFacts
  <2> QED
    BY <2>1
<1>4. DOMAIN files = {}
  BY <1>1
<1>5. TrainerTypes
  <2>1. stage \in [Ranks -> Stages] /\ failure \in [Ranks -> Reasons]
    BY DEF Init, Stages, Reasons
  <2>2. step \in [Ranks -> 0 .. Len(case.feed)]
    <3>1. 0 \in 0 .. Len(case.feed)
      BY <1>3
    <3>2. step = [r \in Ranks |-> 0]
      BY DEF Init
    <3> QED
      BY <3>1, <3>2
  <2>3. kept \in [Ranks -> Seq(Episodes)] /\ samples \in [Ranks -> Seq(RowType)]
        /\ advantages \in [Ranks -> Seq(Int)]
    <3>1. <<>> \in Seq(Episodes) /\ <<>> \in Seq(RowType) /\ <<>> \in Seq(Int)
      OBVIOUS
    <3> QED
      BY <3>1 DEF Init
  <2>4. /\ iteration \in [Ranks -> Nat] /\ minibatch \in [Ranks -> Nat]
        /\ left \in [Ranks -> SUBSET Nat] /\ DOMAIN trained = Ranks /\ gradient \in [Ranks -> Gradient]
    BY DEF Init, Gradient
  <2>5. reduces \in [Ranks -> Nat] /\ updates \in [Ranks -> Nat] /\ reference \in [Ranks -> Nat]
    <3>1. /\ reduces = [r \in Ranks |-> 0] /\ updates = [r \in Ranks |-> 0]
          /\ reference = [r \in Ranks |-> NoModel]
      BY DEF Init
    <3>2. NoModel \in Nat
      BY DEF NoModel
    <3> QED
      BY <3>1, <3>2
  <2>6. files \in [DOMAIN files -> Episodes]
    <3>1. <<>> \in Seq(Episodes)
      OBVIOUS
    <3> QED
      BY <1>1, <1>4, <3>1
  <2>7. written \in 0 .. Len(case.episodes) /\ saved \subseteq {"expert", "export", "resume"} \X case.save
    BY <1>1, <1>3
  <2> QED
    BY <1>1, <2>1, <2>2, <2>3, <2>4, <2>5, <2>6, <2>7 DEF TrainerTypes
<1>6. FilesAreKept
  <2>1. 1 .. written = {}
    BY <1>1
  <2> QED
    BY <1>4, <2>1 DEF FilesAreKept
<1>7. RanksInv
  <2> SUFFICES ASSUME NEW r \in Ranks
               PROVE  RankInv(r)
    BY DEF RanksInv
  <2>0. /\ stage[r] = "new" /\ step[r] = 0 /\ failure[r] = "" /\ samples[r] = <<>> /\ advantages[r] = <<>>
        /\ left[r] = {} /\ reduces[r] = 0 /\ updates[r] = 0
    BY <1>2
  <2>1. KeptIsDispatched(r) /\ PoolIsPacked(r) /\ LoopIsCounted(r)
    BY <2>0 DEF KeptIsDispatched, PoolIsPacked, LoopIsCounted, Stepping, Looping
  <2>2. Bounds(r)
    <3>1. Len(advantages[r]) = Len(samples[r]) /\ left[r] \subseteq Rows(r)
      BY <2>0
    <3>2. \A x, y \in Nat : x = 0 /\ y = 0 => x <= y
      OBVIOUS
    <3>3. updates[r] <= reduces[r]
      BY <2>0, <3>2
    <3> QED
      BY <2>0, <3>1, <3>3 DEF Bounds
  <2>3. Causes(r)
    BY <2>0 DEF Causes
  <2> QED
    BY <2>1, <2>2, <2>3 DEF RankInv
<1>8. InLockstep
  <2> SUFFICES ASSUME NEW r \in Ranks, NEW q \in Ranks
               PROVE  Together(r, q)
    BY DEF InLockstep, Live
  <2>1. /\ stage[r] = "new" /\ step[r] = 0 /\ reduces[r] = 0 /\ updates[r] = 0 /\ reference[r] = NoModel
        /\ stage[q] = "new" /\ step[q] = 0 /\ reduces[q] = 0 /\ updates[q] = 0 /\ reference[q] = NoModel
    BY <1>2
  <2>2. Point(r) = Outside /\ Point(q) = Outside /\ Reference(r) = NoModel /\ Reference(q) = NoModel
    BY <2>1 DEF Point, Reference
  <2>3. Passed(r) = 0 /\ Passed(q) = 0 /\ Updated(r) = 0 /\ Updated(q) = 0
    BY <2>1 DEF Passed, Updated, One
  <2>4. step[r] <= step[q] + 1 /\ step[r] # step[q] + 1
    BY <2>1
  <2> QED
    BY <2>1, <2>2, <2>3, <2>4 DEF Together
<1>9. Doom
  BY <1>2 DEF Doom, IsDoomed
<1>10. SavesStand
  <2>1. case.ranks \in Nat \ {0} /\ case.save \subseteq Nat \ {0}
    BY <1>1, CaseFacts
  <2>2. 1 \in Ranks
    BY <2>1 DEF Ranks
  <2>3. step[1] = 0 /\ stage[1] = "new"
    BY <1>2, <2>2
  <2> QED
    BY <2>1, <2>3 DEF SavesStand
<1> QED
  BY <1>5, <1>6, <1>7, <1>8, <1>9, <1>10 DEF TrainerInv

(* Timed scopes record, and start or end no thread.                         *)
LEMMA TypesOfScopes ==
  ASSUME PerfTypes, NEW t, NEW name, EnterScope(t, name) \/ ExitScope(t) \/ LoadScopes(t)
  PROVE  PerfTypes'
<1>1. UNCHANGED <<threadVars, lifeVars>>
  BY DEF EnterScope, ExitScope, LoadScopes
<1>2. DOMAIN rows' = Families
  <2>1. CASE EnterScope(t, name)
    BY <2>1 DEF EnterScope, Snapshot, Tables, PerfTypes
  <2>2. CASE ExitScope(t)
    BY <2>2 DEF ExitScope, Snapshot, Tables
  <2>3. CASE LoadScopes(t)
    BY <2>3 DEF LoadScopes, Tables, recordVars, PerfTypes
  <2> QED
    BY <2>1, <2>2, <2>3
<1> QED
  BY <1>1, <1>2 DEF PerfTypes, threadVars, lifeVars

(* initialize_perf starts its threads, or it raises.                        *)
LEMMA TypesOfInit ==
  ASSUME PerfTypes, NEW marker, InitPerf(marker) \/ InitPerfFails
  PROVE  PerfTypes'
<1>1. CASE InitPerf(marker)
  <2>1. teardown' = teardown
    BY <1>1 DEF InitPerf
  <2>2. DOMAIN rows' = Families
    BY <1>1 DEF InitPerf, Snapshot, Tables, PerfTypes
  <2>3. /\ store' \in {"none", "bound", "gone"} /\ nvml' \in BOOLEAN
        /\ flusher' \in {"absent", "waiting", "rendered", "dead"}
        /\ monitor' \in [Families -> {"absent", "running", "told", "dead"}]
    BY <1>1 DEF InitPerf, PerfTypes, MonitorAtStart
  <2> QED
    BY <2>1, <2>2, <2>3 DEF PerfTypes
<1>2. CASE InitPerfFails
  <2>1. monitor' \in [Families -> {"absent", "running", "told", "dead"}]
    <3>1. CASE monitor' = monitor
      BY <3>1 DEF PerfTypes
    <3>2. CASE \E started, slow : monitor' = [f \in Families |->
                  IF f \in slow THEN "told" ELSE IF f \in started THEN "dead" ELSE "absent"]
      BY <3>2
    <3> QED
      BY <1>2, <3>1, <3>2 DEF InitPerfFails
  <2> QED
    BY <1>2, <2>1 DEF InitPerfFails, recordVars, lifeVars, PerfTypes
<1> QED
  BY <1>1, <1>2

(* The flush thread and the monitors only end themselves.                   *)
LEMMA TypesOfThreads ==
  ASSUME PerfTypes, Background
  PROVE  PerfTypes'
<1>1. CASE FlushRenders \/ FlushWrites \/ FlushExits
  BY <1>1 DEF FlushRenders, FlushWrites, FlushExits, PerfTypes, recordVars, lifeVars
<1>2. ASSUME NEW f \in Families, MonitorSamples(f) \/ MonitorExits(f)
      PROVE  PerfTypes'
  <2>1. DOMAIN rows' = Families
    BY <1>2 DEF MonitorSamples, MonitorExits, Tables, recordVars, PerfTypes
  <2> QED
    BY <1>2, <2>1 DEF MonitorSamples, MonitorExits, PerfTypes, threadVars, lifeVars
<1> QED
  BY <1>1, <1>2 DEF Background

(* shutdown_perf.                                                           *)
LEMMA TypesOfTeardown ==
  ASSUME PerfTypes, ShutdownPerf
  PROVE  PerfTypes'
<1>1. CASE StopFlushThread
  BY <1>1 DEF StopFlushThread, Teardown, PerfTypes, recordVars, threadVars
<1>2. CASE JoinFlushThread \/ FlushThreadWedged
  BY <1>2 DEF JoinFlushThread, FlushThreadWedged, TellMonitors, Teardown, PerfTypes, recordVars
<1>3. CASE RenderFinal
  BY <1>3 DEF RenderFinal, PerfTypes, recordVars
<1>4. CASE WriteFinal
  BY <1>4 DEF WriteFinal, PerfTypes, recordVars
<1> QED
  BY <1>1, <1>2, <1>3, <1>4 DEF ShutdownPerf

(* So the perf part of TypeOK is inductive on its own.                      *)
LEMMA PerfStep ==
  ASSUME PerfTypes, [Next]_vars
  PROVE  PerfTypes'
<1>1. CASE UNCHANGED perfVars
  BY <1>1 DEF perfVars, recordVars, threadVars, lifeVars, PerfTypes
<1>2. CASE \E t, name : EnterScope(t, name) \/ ExitScope(t) \/ LoadScopes(t)
  BY <1>2, TypesOfScopes
<1>3. CASE \E marker : InitPerf(marker) \/ InitPerfFails
  BY <1>3, TypesOfInit
<1>4. CASE Background \/ ShutdownPerf
  BY <1>4, TypesOfThreads, TypesOfTeardown
<1>5. ASSUME NEW r \in Ranks, RankNext(r)
      PROVE  PerfTypes'
  BY <1>1, <1>2, <1>3, <1>5 DEF RankNext, Construct, Begin, Load, Loop, Finish, Unwind, Leave, NotMeasured
<1>6. CASE UNCHANGED vars
  BY <1>1, <1>6 DEF vars
<1> QED
  BY <1>1, <1>2, <1>3, <1>4, <1>5, <1>6
     DEF Next, Write, AllReduce, NotMeasured, Drive, InitBackend, Done

(* What the trainers do is a step of theirs, or none.                       *)
LEMMA Projection ==
  ASSUME [Next]_vars
  PROVE  TrainerNext \/ UNCHANGED trainerVars
<1>1. ASSUME NEW r \in Ranks, RankNext(r)
      PROVE  TrainerNext \/ UNCHANGED trainerVars
  BY <1>1 DEF RankNext, Construct, Begin, Load, Loop, Finish, Unwind, TrainerNext, RankSteps, trainerVars
<1>2. CASE UNCHANGED vars
  BY <1>2 DEF vars, trainerVars
<1> QED
  BY <1>1, <1>2 DEF Next, Write, AllReduce, Drive, InitBackend, Background, ShutdownPerf, Done,
     TrainerNext, trainerVars

----------------------------------------------------------------------------
(* Theorems.                                                                 *)

(* A step that leaves the trainers and the artifacts alone.                 *)
LEMMA TrainersStand ==
  ASSUME TrainerInv, UNCHANGED trainerVars
  PROVE  TrainerInv'
<1>1. case' = case /\ Ranks' = Ranks /\ written' = written /\ files' = files /\ UNCHANGED rankVars
  BY CaseStands DEF trainerVars, workerVars
<1>2. /\ stage' = stage /\ step' = step /\ failure' = failure /\ gradient' = gradient /\ kept' = kept
      /\ saved' = saved
      /\ \A q \in Ranks : /\ SameRank(q) /\ SameModel(q) /\ gradient'[q] = gradient[q]
                          /\ updates'[q] = updates[q] /\ reduces'[q] = reduces[q]
  BY <1>1 DEF rankVars, loopVars, modelVars, SameRank, SameModel, SamePool, SameLoop
<1>3. TrainerTypes'
  <2>1. Episodes' = Episodes /\ RowType' = RowType
    BY <1>1, CaseStands
  <2> QED
    BY <1>1, <2>1 DEF TrainerInv, TrainerTypes, rankVars, loopVars, modelVars
<1>4. FilesAreKept'
  <2>1. \A e : Path(e)' = Path(e)
    BY <1>1, CaseStands
  <2>2. \A e : WasDropped(e)' <=> WasDropped(e)
    <3>1. \A s : Dropped(s)' = Dropped(s)
      BY <1>1, CaseStands
    <3> QED
      BY <1>1, <1>2, <3>1 DEF WasDropped
  <2> QED
    BY <1>1, <2>1, <2>2 DEF TrainerInv, FilesAreKept
<1>5. RanksInv'
  <2>1. written \in Nat
    BY CaseFacts DEF TrainerInv, TrainerTypes
  <2>2. written' \in Nat /\ written' >= written
    BY <1>1, <2>1
  <2>3. \A q \in Ranks : RankInv(q)'
    BY <1>1, <1>2, <2>2, RankStands DEF TrainerInv, RanksInv
  <2> QED
    BY <1>1, <2>3 DEF RanksInv
<1>6. Live' = Live /\ Live \subseteq Ranks
  BY <1>1, <1>2 DEF Live
<1>7. InLockstep'
  <2>1. \A q \in Live : SameView(q) /\ EnsuredReference(q)' = EnsuredReference(q)
    BY <1>1, <1>2, <1>6, ViewStands
  <2>2. ASSUME NEW p \in Live, NEW q \in Live
        PROVE  Together(p, q)'
    <3>1. Together(p, q)
      BY DEF TrainerInv, InLockstep
    <3> QED
      BY <1>2, <2>1, <3>1 DEF Together, SameView
  <2> QED
    BY <1>6, <2>2 DEF InLockstep
<1>8. Doom'
  <2>1. \A q \in Ranks : SpoiledBy(q) => SpoiledBy(q)'
    BY <1>1, <1>2, SpoiledStands
  <2>2. Spoiled => Spoiled'
    BY <1>1, <2>1 DEF Spoiled
  <2> QED
    BY <1>1, <1>2, <1>6, <2>1, <2>2 DEF TrainerInv, Doom, IsDoomed
<1>9. SavesStand'
  BY <1>1, <1>2 DEF TrainerInv, SavesStand
<1> QED
  BY <1>3, <1>4, <1>5, <1>7, <1>8, <1>9 DEF TrainerInv

(* The trainers and the artifacts, whatever perf does beside them.          *)
THEOREM TrainingInvariant == Spec => [](TrainerInv /\ PerfTypes)
<1>1. Init => TrainerInv /\ PerfTypes
  <2>1. Init => PerfTypes
    BY DEF Init, PerfTypes
  <2> QED
    BY <2>1, TrainerInit
<1>2. TrainerInv /\ PerfTypes /\ [Next]_vars => TrainerInv' /\ PerfTypes'
  BY Projection, TrainerStep, TrainersStand, PerfStep
<1> QED
  BY <1>1, <1>2, PTL DEF Spec

(* The variables keep the values of their kinds.                            *)
THEOREM TrainingTypes == Spec => []TypeOK
<1>1. TrainerInv /\ PerfTypes => TypeOK
  <2> SUFFICES ASSUME TrainerInv, PerfTypes
               PROVE  TypeOK
    OBVIOUS
  <2>1. Range(files) \subseteq Episodes
    BY DEF TrainerInv, TrainerTypes, Range
  <2>2. /\ stage \in [Ranks -> {"new", "idle", "load", "train", "reduce", "reduced", "finish", "raised"}]
        /\ gradient \in [Ranks -> {"zero", "signal", "nonfinite"}]
    BY DEF TrainerInv, TrainerTypes, Stages, Gradient
  <2>3. ASSUME NEW r \in Ranks
        PROVE  /\ Range(kept[r]) \subseteq Episodes
               /\ Len(advantages[r]) = Len(samples[r])
               /\ left[r] \subseteq Rows(r) /\ minibatch[r] \in Nat /\ iteration[r] \in Nat
               /\ updates[r] <= reduces[r]
    <3>1. kept[r] \in Seq(Episodes) /\ minibatch[r] \in Nat /\ iteration[r] \in Nat
      BY DEF TrainerInv, TrainerTypes
    <3>2. Range(kept[r]) \subseteq Episodes
      BY <3>1 DEF Range
    <3> QED
      BY <3>1, <3>2 DEF TrainerInv, RanksInv, RankInv, Bounds
  <2>4. /\ written \in 0 .. Len(case.episodes) /\ step \in [Ranks -> 0 .. Len(case.feed)]
        /\ saved \subseteq {"expert", "export", "resume"} \X case.save
    BY DEF TrainerInv, TrainerTypes
  <2> QED
    BY <2>1, <2>2, <2>3, <2>4 DEF TypeOK, PerfTypes
<1> QED
  BY <1>1, TrainingInvariant, PTL

(* Whatever the ranks are given, none leaves a step, or skips a minibatch,  *)
(* while another waits for it in a collective.                               *)
LEMMA CollectivesMeet ==
  ASSUME TrainerInv
  PROVE  SameCollectives
<1> SUFFICES ASSUME NEW r \in Live, stage[r] = "reduce", NEW q \in Live
             PROVE  step[q] < step[r] \/ (step[q] = step[r] /\ stage[q] \notin {"idle", "finish"})
  BY DEF SameCollectives
<1>1. r \in Ranks /\ q \in Ranks /\ Together(q, r)
  BY DEF TrainerInv, InLockstep, Live
<1>2. step[r] \in Nat /\ step[q] \in Nat
  BY <1>1, StepsCount DEF TrainerInv
<1>3. step[q] <= step[r]
  BY <1>1, <1>2 DEF Together
<1>4. CASE step[q] = step[r]
  <2>1. Point(q) = <<iteration[r], minibatch[r]>>
    BY <1>1, <1>4 DEF Together, Point
  <2>2. iteration[r] \in 1 .. case.iterations
    BY <1>1 DEF TrainerInv, RanksInv, RankInv, LoopIsCounted, Looping
  <2>3. iteration[r] # 0
    BY <2>2
  <2>4. stage[q] \in {"idle", "finish"} => Point(q) = <<0, 0>>
    BY DEF Point, Outside
  <2> QED
    BY <1>4, <2>1, <2>3, <2>4
<1> QED
  BY <1>2, <1>3, <1>4

(* The same collectives make the same optimizer steps, and the same steps   *)
(* the same reference model.                                                *)
LEMMA ModelsAgree ==
  ASSUME TrainerInv
  PROVE  SameModels
<1> SUFFICES ASSUME NEW r \in Live, NEW q \in Live
             PROVE  /\ reduces[r] = reduces[q] => updates[r] = updates[q]
                    /\ stage[r] = "idle" /\ stage[q] = "idle" /\ step[r] = step[q]
                       => reference[r] = reference[q]
  BY DEF SameModels
<1>1. r \in Ranks /\ q \in Ranks /\ Together(r, q)
  BY DEF TrainerInv, InLockstep, Live
<1>2. reduces[r] \in Nat /\ reduces[q] \in Nat /\ updates[r] \in Nat /\ updates[q] \in Nat
  BY <1>1 DEF TrainerInv, TrainerTypes
<1>3. Passed(r) = Passed(q) /\ Updated(r) = Updated(q)
      /\ (stage[r] = "reduced" /\ stage[q] = "reduced" => gradient[r] = gradient[q])
  BY <1>1 DEF Together
<1>4. reduces[r] = reduces[q] => (stage[r] = "reduced" <=> stage[q] = "reduced")
  BY <1>2, <1>3 DEF Passed, One
<1>5. reduces[r] = reduces[q] => updates[r] = updates[q]
  BY <1>2, <1>3, <1>4 DEF Updated, One
<1>6. stage[r] = "idle" /\ stage[q] = "idle" /\ step[r] = step[q] => reference[r] = reference[q]
  BY <1>1 DEF Together, Reference
<1> QED
  BY <1>5, <1>6

(* Every failure has a cause: an output the rank was sent, the model or a   *)
(* checkpoint that is not tolerated.                                        *)
LEMMA CausesAreThere ==
  ASSUME TrainerInv
  PROVE  FailuresHaveCauses
<1> SUFFICES ASSUME NEW r \in Ranks
             PROVE  /\ failure[r] \notin {"missing", "duplicate"}
                    /\ failure[r] = "gradient" =>
                         "diverge" \in case.faults \/ \E q \in Ranks : \E e \in Range(kept[q]) : Spoils(e)
                    /\ failure[r] = "refused" => \E e \in Range(kept[r]) : Refused(Outputs(e))
                    /\ failure[r] = "collate" =>
                         \E e, d \in Range(kept[r]) : Nesting(e) \cup Nesting(d) = {TRUE, FALSE}
                    /\ failure[r] = "checkpoint" => SaveCause
  BY DEF FailuresHaveCauses
<1>1. failure[r] = "gradient" =>
        "diverge" \in case.faults \/ \E q \in Ranks : \E e \in Range(kept[q]) : Spoils(e)
  BY DEF TrainerInv, Doom, IsDoomed, Spoiled, SpoiledBy
<1> QED
  BY <1>1 DEF TrainerInv, RanksInv, RankInv, Causes

(* A step that is over left its checkpoint, or the expert of one that       *)
(* failed.                                                                  *)
LEMMA SavesAreThere ==
  ASSUME TrainerInv
  PROVE  SavesAreKept
<1>1. case.ranks \in Nat \ {0} /\ case.save \subseteq Nat \ {0}
  BY CaseFacts DEF TrainerInv, TrainerTypes
<1>2. 1 \in Ranks
  BY <1>1 DEF Ranks
<1>3. step[1] \in Nat
  BY <1>2, StepsCount DEF TrainerInv
<1> QED
  BY <1>1, <1>3 DEF SavesAreKept, TrainerInv, SavesStand

(* The trainers of a run stay together: they meet in every collective, take *)
(* the same optimizer steps, fail for reasons outside of them only, and what *)
(* was asked for is saved.                                                   *)
THEOREM TrainersStayTogether == Spec => []RanksStayTogether
<1>1. TrainerInv => RanksStayTogether
  BY CollectivesMeet, ModelsAgree, CausesAreThere, SavesAreThere DEF RanksStayTogether
<1> QED
  BY <1>1, TrainingInvariant, PTL

(* An iteration trains on every valid output of its rollouts, as it was     *)
(* recorded and with its own advantage, exactly once.                        *)
LEMMA RowsOfIteration ==
  ASSUME TrainerInv, NEW r \in Ranks, stage[r] = "reduced", minibatch[r] = NumMiniBatches(r)
  PROVE  /\ \A e \in Range(kept[r]) : \A o \in GoodSteps(Outputs(e)) :
              \E i \in Rows(r) :
                /\ Carries(r, i, e, o) /\ trained[r][i] = 1
                /\ \A j \in Rows(r) \ {i} : ~ (Carries(r, j, e, o) /\ trained[r][j] # 0)
         /\ \A i \in Rows(r) : samples[r][i].padding => advantages[r][i] = 0
         /\ \A e \in Range(kept[r]) : Arrival(case, e) = Original(case, e)
<1>1. TrainerTypes /\ FilesAreKept /\ KeptIsDispatched(r) /\ PoolIsPacked(r) /\ LoopIsCounted(r)
  BY DEF TrainerInv, RanksInv, RankInv
<1>2. stage[r] \in Stepping /\ stage[r] \in Looping
  BY DEF Stepping, Looping
<1>3. left[r] = {}
  BY <1>1, NothingIsLeft
<1>4. \A i \in Rows(r) : trained[r][i] = 1
  BY <1>1, <1>2, <1>3 DEF LoopIsCounted
<1>5. kept[r] \in Seq(Episodes)
      /\ \A e \in Range(kept[r]) : e \in Episodes /\ Ships(case, e) /\ Kinds(e) \in Seq(OutputKinds)
  BY <1>1, <1>2, KeptRollouts
<1>6. Loaded(r) = Len(kept[r])
  BY <1>1, <1>2 DEF LoopIsCounted
<1>7. ASSUME NEW e \in Range(kept[r]), NEW o \in GoodSteps(Outputs(e))
      PROVE  \E i \in Rows(r) :
               /\ Carries(r, i, e, o) /\ trained[r][i] = 1
               /\ \A j \in Rows(r) \ {i} : ~ (Carries(r, j, e, o) /\ trained[r][j] # 0)
  <2>1. PICK k \in 1 .. Loaded(r) : kept[r][k] = e
    BY <1>5, <1>6 DEF Range
  <2>2. ~ Refused(Kinds(e))
    BY <1>1, <1>2, <2>1 DEF PoolIsPacked
  <2>3. o \in GoodSteps(Kinds(e))
    BY <1>1, <1>5, SeenFacts DEF TrainerTypes
  <2>4. /\ o \in 1 .. case.expected
        /\ PolicyInput(e, Kinds(e))[o].output = o /\ ~ PolicyInput(e, Kinds(e))[o].padding
        /\ PolicyInput(e, Kinds(e))[o].episode = e
    BY <1>1, <1>5, <2>2, <2>3, RowsOfEpisode DEF TrainerTypes
  <2>5. PICK i \in Rows(r) : IsRow(r, i, k, o)
    BY <1>1, <1>2, <2>4 DEF PoolIsPacked
  <2>6. Carries(r, i, e, o)
    BY <2>1, <2>4, <2>5 DEF IsRow, Carries
  <2>7. \A j \in Rows(r) : Carries(r, j, e, o) => i = j
    <3> SUFFICES ASSUME NEW j \in Rows(r), Carries(r, j, e, o)
                 PROVE  i = j
      OBVIOUS
    <3>1. /\ ~ samples[r][i].padding /\ ~ samples[r][j].padding
          /\ samples[r][i].episode = samples[r][j].episode /\ samples[r][i].output = samples[r][j].output
      BY <2>6 DEF Carries
    <3> QED
      BY <1>1, <1>2, <3>1 DEF PoolIsPacked
  <2> QED
    BY <1>4, <2>6, <2>7
<1>8. ASSUME NEW i \in Rows(r), samples[r][i].padding
      PROVE  advantages[r][i] = 0
  <2>1. PICK k \in 1 .. Loaded(r), j \in 1 .. case.expected : IsRow(r, i, k, j)
    BY <1>1, <1>2 DEF PoolIsPacked
  <2> QED
    BY <1>8, <2>1 DEF IsRow
<1>9. ASSUME NEW e \in Range(kept[r])
      PROVE  Arrival(case, e) = Original(case, e)
  BY <1>1, <1>5, FidelityAssumption DEF TrainerTypes, Episodes
<1> QED
  BY <1>7, <1>8, <1>9

(* Whenever an iteration is over on a rank, every valid output of the       *)
(* rollouts it kept was in exactly one of its minibatches                   *)
(* (_run_training_loop, _prepare_training_data).                            *)
THEOREM RowsTrainOnce == Spec => []RowsAreTrainedOnce
<1>1. TrainerInv => RowsAreTrainedOnce
  BY RowsOfIteration DEF RowsAreTrainedOnce
<1> QED
  BY <1>1, TrainingInvariant, PTL
=============================================================================

------------------------------ MODULE PerfProofs ------------------------------
(***************************************************************************)
(* Proofs about the instrumentation of rank 1 and its report: PerfInv is   *)
(* inductive with the invariant of training, hence readings tile the CPU   *)
(* time, NVML outlives the monitors and the report over the artifact of    *)
(* the teardown and those of any other workers has every call of both      *)
(* threads, own times that add up and pooled means, for any case that the  *)
(* assumptions of TrainingState admit.                                     *)
(*                                                                         *)
(* The first half goes step by step: whatever records keeps the rows, the  *)
(* calls and the final artifact, and the life of the store allows only     *)
(* what records then. The second half is about sums: what a merged tree    *)
(* has is regrouped by file, by name of the scope and by parent.           *)
(***************************************************************************)
EXTENDS TrainingRunProofs, FiniteSums, SequenceTheorems

-----------------------------------------------------------------------------
(* Rows of readings                                                         *)

(* A total is a sum of a table of the rows' sums.                            *)
LEMMA TotalIsSum ==
  ASSUME NEW table, NEW S, NEW g, \A x \in S : g[x] = table[x].sum
  PROVE  Total(table, S) = SumOf(g, S)
<1> DEFINE P(it) == it = [s \in SUBSET S |-> IF s = {} THEN 0 ELSE table[Pick(s)].sum + it[s \ {Pick(s)}]]
<1>1. Total(table, S) = (CHOOSE it : P(it))[S]
  BY DEF Total, MapThenSumSet, MapThenFoldSet, Pick
<1>2. SumOf(g, S) = (CHOOSE it : IsTable(it, g, SUBSET S))[S]
  BY DEF SumOf, MapThenSumSet, MapThenFoldSet, Pick, IsTable
<1>3. \A it : P(it) <=> IsTable(it, g, SUBSET S)
  <2>1. \A s \in SUBSET S : s # {} => Pick(s) \in S
    BY DEF Pick
  <2> QED
    BY <2>1 DEF IsTable
<1>4. (CHOOSE it : P(it)) = (CHOOSE it : IsTable(it, g, SUBSET S))
  <2> HIDE DEF P
  <2> QED
    BY <1>3
<1> QED
  BY <1>1, <1>2, <1>4

(* Max of two naturals is one of them.                                       *)
LEMMA MaxOfTwo ==
  ASSUME NEW m \in Nat, NEW n \in Nat
  PROVE  Max({m, n}) \in {m, n}
<1>1. \E x \in {m, n} : \A y \in {m, n} : x >= y
  OBVIOUS
<1> QED
  BY <1>1 DEF Max

(* One reading into one row.                                                 *)
LEMMA RowFolds ==
  ASSUME NEW table, RowTypes(table), NEW key, NEW reading \in Nat \cup {None}
  PROVE  LET old == At(table, key, EmptyRow)
             row == Folded(old, reading) IN
         /\ old.count \in Nat /\ old.seen \in Nat /\ old.sum \in Nat /\ old.max \in Nat
         /\ row.count = old.count + 1 /\ row.count \in Nat \ {0} /\ row.seen \in Nat
         /\ row.sum \in Nat /\ row.max \in Nat /\ row.max \in {old.max, reading}
         /\ reading # None => row.sum = old.sum + reading /\ row.seen = old.seen + 1
<1> DEFINE old == At(table, key, EmptyRow)
           row == Folded(old, reading)
<1>1. old.count \in Nat /\ old.seen \in Nat /\ old.sum \in Nat /\ old.max \in Nat
  BY DEF RowTypes, At, EmptyRow
<1> HIDE DEF old
<1>2. reading # None => reading \in Nat
  OBVIOUS
<1>3. reading # None => Max({old.max, reading}) \in {old.max, reading}
  BY <1>1, <1>2, MaxOfTwo
<1>4. /\ row.count = old.count + 1 /\ row.seen = old.seen + (IF reading # None THEN 1 ELSE 0)
      /\ row.sum = old.sum + (IF reading # None THEN reading ELSE 0)
      /\ row.max = IF reading # None THEN Max({old.max, reading}) ELSE old.max
  BY DEF Folded
<1> HIDE DEF row
<1>5. row.count \in Nat \ {0} /\ row.seen \in Nat /\ row.sum \in Nat
  BY <1>1, <1>2, <1>4
<1>6. row.max \in Nat /\ row.max \in {old.max, reading}
  BY <1>1, <1>2, <1>3, <1>4
<1> QED
  BY <1>1, <1>4, <1>5, <1>6 DEF old, row

(* One snapshot into one table.                                              *)
LEMMA TableSamples ==
  ASSUME NEW table, RowTypes(table), NEW key, NEW reading \in Nat \cup {None}
  PROVE  LET new == Sampled(table, key, reading) IN
         /\ RowTypes(new) /\ DOMAIN new = DOMAIN table \cup {key}
         /\ new[key] = Folded(At(table, key, EmptyRow), reading)
         /\ \A k \in DOMAIN table \ {key} : new[k] = table[k]
<1> DEFINE row == Folded(At(table, key, EmptyRow), reading)
           new == Sampled(table, key, reading)
<1>1. /\ DOMAIN new = DOMAIN table \cup {key} /\ new[key] = row
      /\ \A k \in DOMAIN table \ {key} : new[k] = table[k]
  <2> HIDE DEF row
  <2>1. new = [k \in DOMAIN table \cup {key} |-> IF k = key THEN row ELSE table[k]]
    BY DEF Sampled, Put, row
  <2> QED
    BY <2>1
<1>2. row.count \in Nat \ {0} /\ row.seen \in Nat /\ row.sum \in Nat /\ row.max \in Nat
  BY RowFolds
<1> HIDE DEF new, row
<1>3. IsFiniteSet(DOMAIN table \cup {key})
  BY FS_AddElement DEF RowTypes
<1>4. RowTypes(new)
  <2> SUFFICES ASSUME NEW k \in DOMAIN new
               PROVE  /\ new[k].count \in Nat \ {0} /\ new[k].seen \in Nat
                      /\ new[k].sum \in Nat /\ new[k].max \in Nat
    BY <1>1, <1>3 DEF RowTypes
  <2> QED
    BY <1>1, <1>2 DEF RowTypes
<1> QED
  BY <1>1, <1>4 DEF new, row

(* What the sum over some rows becomes.                                      *)
LEMMA TotalSamples ==
  ASSUME NEW table, RowTypes(table), NEW key, NEW reading \in Nat, NEW Q
  PROVE  LET new == Sampled(table, key, reading) IN
         Total(new, DOMAIN new \cap Q) =
           Total(table, DOMAIN table \cap Q) + (IF key \in Q THEN reading ELSE 0)
<1> DEFINE new == Sampled(table, key, reading)
           D == DOMAIN table
           rest == (D \ {key}) \cap Q
           g == [k \in D |-> table[k].sum]
           h == [k \in D \cup {key} |-> new[k].sum]
           before == Total(table, D \cap Q)
           less == SumOf(g, rest)
<1>0. reading # None /\ reading \in Nat \cup {None}
  BY DEF None
<1>1. /\ RowTypes(new) /\ DOMAIN new = D \cup {key} /\ \A k \in D \ {key} : new[k] = table[k]
      /\ new[key] = Folded(At(table, key, EmptyRow), reading)
  BY <1>0, TableSamples
<1>2. new[key].sum = At(table, key, EmptyRow).sum + reading
  BY <1>0, <1>1, RowFolds
<1> HIDE DEF new
<1>3. IsFiniteSet(D) /\ \A k \in D : table[k].sum \in Int
  BY DEF RowTypes
<1>4. \A k \in D \cup {key} : new[k].sum \in Int
  BY <1>1 DEF RowTypes
<1>5. rest \subseteq D /\ IsFiniteSet(rest)
  BY <1>3, Subsets
<1>6. before = SumOf(g, D \cap Q)
  BY TotalIsSum
<1>7. Total(new, DOMAIN new \cap Q) = SumOf(h, (D \cup {key}) \cap Q)
  BY <1>1, TotalIsSum
<1>8. less = SumOf(h, rest) /\ less \in Int
  <2>1. \A k \in rest : g[k] = h[k] /\ g[k] \in Int
    BY <1>1, <1>3, <1>5
  <2> HIDE DEF g, h, rest
  <2> QED
    BY <1>5, <2>1, SumOfSame, SumType
<1>9. CASE key \notin Q
  <2>1. (D \cup {key}) \cap Q = rest /\ D \cap Q = rest
    BY <1>9
  <2> QED
    <3>1. before = less /\ Total(new, DOMAIN new \cap Q) = less
      BY <1>6, <1>7, <1>8, <2>1
    <3> QED
      BY <1>8, <1>9, <3>1 DEF new
<1>10. CASE key \in Q
  <2>1. (D \cup {key}) \cap Q = rest \cup {key} /\ key \notin rest
    BY <1>10
  <2>2. SumOf(h, rest \cup {key}) = new[key].sum + less
    <3>1. \A k \in rest \cup {key} : h[k] \in Int
      BY <1>4, <1>5
    <3>2. h[key] = new[key].sum
      OBVIOUS
    <3> HIDE DEF h, rest
    <3> QED
      BY <1>5, <1>8, <2>1, <3>1, <3>2, SumWith
  <2>3. before = At(table, key, EmptyRow).sum + less
    <3>1. CASE key \in D
      <4>1. D \cap Q = rest \cup {key}
        BY <1>10, <3>1
      <4>2. \A k \in rest \cup {key} : g[k] \in Int
        BY <1>3, <3>1
      <4>3. g[key] = At(table, key, EmptyRow).sum
        BY <3>1 DEF At
      <4> HIDE DEF g, rest
      <4> QED
        BY <1>5, <1>6, <2>1, <4>1, <4>2, <4>3, SumWith
    <3>2. CASE key \notin D
      <4>1. D \cap Q = rest
        BY <3>2
      <4>2. At(table, key, EmptyRow).sum = 0
        BY <3>2 DEF At, EmptyRow
      <4> QED
        <5>1. before = less
          BY <1>6, <4>1
        <5> HIDE DEF before, less
        <5> QED
          BY <1>8, <4>2, <5>1
    <3> QED
      BY <3>1, <3>2
  <2>4. At(table, key, EmptyRow).sum \in Int
    BY RowFolds
  <2> DEFINE old == At(table, key, EmptyRow).sum
             after == Total(new, DOMAIN new \cap Q)
  <2>5. after = (old + reading) + less /\ before = old + less /\ old \in Int
    BY <1>2, <1>7, <2>1, <2>2, <2>3, <2>4
  <2>6. after = before + reading
    <3> HIDE DEF after, before, old, less
    <3> QED
      BY <1>8, <2>5
  <2> QED
    BY <1>10, <2>6 DEF new
<1> QED
  BY <1>9, <1>10

LEMMA TotalType ==
  ASSUME NEW table, RowTypes(table), NEW X
  PROVE  Total(table, DOMAIN table \cap X) \in Int
<1> DEFINE g == [k \in DOMAIN table |-> table[k].sum]
           E == DOMAIN table \cap X
<1>1. Total(table, E) = SumOf(g, E)
  BY TotalIsSum
<1>2. IsFiniteSet(E) /\ \A k \in E : g[k] \in Int
  BY Subsets DEF RowTypes
<1> HIDE DEF g, E
<1> QED
  BY <1>1, <1>2, SumType DEF E

(* A reader's reading goes into its own rows, and into its own window.       *)
ReaderOf(key) == IF key = SampleKey THEN "monitor" ELSE "checkpoint"

LEMMA CpuSamples ==
  ASSUME NEW faults, NEW table, NEW w, w \in [Readers -> Nat], CpuRows(table, w, faults), NEW key,
         NEW reading \in Nat
  PROVE  CpuRows(Sampled(table, key, reading), [w EXCEPT ![ReaderOf(key)] = @ + reading], faults)
<1> DEFINE new == Sampled(table, key, reading)
           D == DOMAIN table
           Q == {SampleKey}
           R == (D \cup {key}) \ {SampleKey}
           v == [w EXCEPT ![ReaderOf(key)] = @ + reading]
<1>0. /\ RowTypes(table) /\ \A k \in D : table[k].seen = table[k].count
      /\ reading \in Nat \cup {None}
  BY DEF CpuRows
<1>1. /\ RowTypes(new) /\ DOMAIN new = D \cup {key} /\ \A k \in D \ {key} : new[k] = table[k]
      /\ new[key] = Folded(At(table, key, EmptyRow), reading)
  BY <1>0, TableSamples
<1>2. \A k \in DOMAIN new : new[k].seen = new[k].count
  <2>1. At(table, key, EmptyRow).seen = At(table, key, EmptyRow).count
    BY <1>0 DEF At, EmptyRow
  <2>2. reading # None
    BY DEF None
  <2>3. new[key].seen = new[key].count
    BY <1>0, <1>1, <2>1, <2>2, RowFolds
  <2> HIDE DEF new
  <2> QED
    BY <1>0, <1>1, <2>3
<1>3. /\ Total(new, DOMAIN new \cap Q) = Total(table, D \cap Q) + (IF key \in Q THEN reading ELSE 0)
      /\ Total(new, DOMAIN new \cap R) = Total(table, D \cap R) + (IF key \in R THEN reading ELSE 0)
  <2> HIDE DEF Q, R
  <2>1. \A X : Total(new, DOMAIN new \cap X) = Total(table, D \cap X) + (IF key \in X THEN reading ELSE 0)
    BY <1>0, TotalSamples
  <2> QED
    BY <2>1
<1>4. /\ Tiles(Total(table, D \cap Q), w["monitor"], faults)
      /\ Tiles(Total(table, D \cap R), w["checkpoint"], faults)
  <2>1. D \cap Q = {SampleKey} \cap D /\ D \cap R = D \ ({SampleKey} \cap D)
    OBVIOUS
  <2> QED
    BY <2>1 DEF CpuRows
<1> HIDE DEF new
<1>5. /\ DOMAIN new \cap Q = {SampleKey} \cap DOMAIN new
      /\ DOMAIN new \cap R = DOMAIN new \ ({SampleKey} \cap DOMAIN new)
      /\ (key \in Q <=> key = SampleKey) /\ (key \in R <=> key # SampleKey)
  BY <1>1
<1>6. /\ v["monitor"] = w["monitor"] + (IF key = SampleKey THEN reading ELSE 0)
      /\ v["checkpoint"] = w["checkpoint"] + (IF key # SampleKey THEN reading ELSE 0)
  BY DEF ReaderOf, Readers
<1>7. /\ Tiles(Total(new, {SampleKey} \cap DOMAIN new), v["monitor"], faults)
      /\ Tiles(Total(new, DOMAIN new \ ({SampleKey} \cap DOMAIN new)), v["checkpoint"], faults)
  <2> DEFINE a == Total(new, DOMAIN new \cap Q)
             b == Total(new, DOMAIN new \cap R)
             c == Total(table, D \cap Q)
             d == Total(table, D \cap R)
  <2>0. c \in Int /\ d \in Int /\ w["monitor"] \in Nat /\ w["checkpoint"] \in Nat
    <3>2. \A X : Total(table, D \cap X) \in Int
      BY <1>0, TotalType
    <3> QED
      BY <3>2 DEF Readers
  <2>1. Tiles(a, v["monitor"], faults) /\ Tiles(b, v["checkpoint"], faults)
    <3>1. /\ a = c + (IF key = SampleKey THEN reading ELSE 0)
          /\ b = d + (IF key # SampleKey THEN reading ELSE 0)
      BY <1>3, <1>5
    <3>2. Tiles(c, w["monitor"], faults) /\ Tiles(d, w["checkpoint"], faults)
      BY <1>4
    <3> HIDE DEF v, Q, R, D, a, b, c, d
    <3> QED
      BY <1>6, <2>0, <3>1, <3>2 DEF Tiles
  <2> QED
    BY <1>5, <2>1
<1> QED
  BY <1>1, <1>2, <1>7 DEF CpuRows, new

(* A reading of the GPU is the usage of the rank's device, or nothing.      *)
LEMMA GpuSamples ==
  ASSUME NEW readings, readings \subseteq Nat \cup {None}, NEW table, GpuRows(table, readings),
         NEW key, NEW reading \in readings
  PROVE  GpuRows(Sampled(table, key, reading), readings)
<1> DEFINE new == Sampled(table, key, reading)
           D == DOMAIN table
<1>0. /\ RowTypes(table) /\ \A k \in D : table[k].max \in readings \cup {0}
      /\ reading \in Nat \cup {None}
  BY DEF GpuRows
<1>1. /\ RowTypes(new) /\ DOMAIN new = D \cup {key} /\ \A k \in D \ {key} : new[k] = table[k]
      /\ new[key] = Folded(At(table, key, EmptyRow), reading)
  BY <1>0, TableSamples
<1>2. At(table, key, EmptyRow).max \in readings \cup {0}
  BY <1>0 DEF At, EmptyRow
<1>3. new[key].max \in readings \cup {0}
  BY <1>0, <1>1, <1>2, RowFolds
<1> HIDE DEF new
<1>4. \A k \in DOMAIN new : new[k].max \in readings \cup {0}
  BY <1>0, <1>1, <1>3
<1> QED
  BY <1>1, <1>4 DEF GpuRows, new

(* A read of the CPU, whether it raises or not: its form, and its sum.      *)
LEMMA CpuReadsForm ==
  ASSUME NEW table, NEW at, NEW key, NEW now, NEW new \in CpuReads([table |-> table, at |-> at], key, now)
  PROVE  /\ new = [table |-> new.table, at |-> new.at]
         /\ new.table = table \/ \E reading : new.table = Sampled(table, key, reading)
<1>1. \/ new = [table |-> Sampled(table, key, now - at), at |-> now]
      \/ \E t \in {at, now} : new = [table |-> table, at |-> t]
  BY DEF CpuReads, CpuReading
<1>2. \E r : \E t : new = [table |-> table, at |-> t] \/ new = [table |-> Sampled(table, key, r), at |-> t]
  BY <1>1
<1> QED
  BY <1>2

LEMMA CpuReadsTile ==
  ASSUME NEW table, NEW w, w \in [Readers -> Nat], CpuRows(table, w, case.faults), NEW key,
         NEW now \in Nat, w[ReaderOf(key)] <= now,
         NEW new \in CpuReads([table |-> table, at |-> w[ReaderOf(key)]], key, now)
  PROVE  LET v == [w EXCEPT ![ReaderOf(key)] = new.at] IN
         /\ CpuRows(new.table, v, case.faults) /\ v \in [Readers -> Nat]
         /\ new.at \in Nat /\ new.at <= now
<1> DEFINE v == [w EXCEPT ![ReaderOf(key)] = new.at]
           at == w[ReaderOf(key)]
           reading == now - at
<1>1. ReaderOf(key) \in Readers /\ at \in Nat
  BY DEF ReaderOf, Readers
<1>2. reading \in Nat /\ at + reading = now
  BY <1>1
<1>3. ASSUME new = [table |-> Sampled(table, key, reading), at |-> now]
      PROVE  CpuRows(new.table, v, case.faults) /\ v \in [Readers -> Nat]
  <2> HIDE DEF reading
  <2>1. v = [w EXCEPT ![ReaderOf(key)] = @ + reading] /\ v \in [Readers -> Nat]
    BY <1>1, <1>2, <1>3
  <2>2. CpuRows(Sampled(table, key, reading), [w EXCEPT ![ReaderOf(key)] = @ + reading], case.faults)
    BY <1>2, CpuSamples
  <2> QED
    BY <1>3, <2>1, <2>2
<1>4. ASSUME "psutil" \in case.faults, NEW t \in {at, now}, new = [table |-> table, at |-> t]
      PROVE  CpuRows(new.table, v, case.faults) /\ v \in [Readers -> Nat]
  <2>1. v \in [Readers -> Nat] /\ \A r \in Readers : w[r] <= v[r]
    BY <1>1, <1>4
  <2>2. v["monitor"] >= w["monitor"] /\ v["checkpoint"] >= w["checkpoint"]
    BY <2>1 DEF Readers
  <2> HIDE DEF v
  <2>3. w["monitor"] \in Nat /\ w["checkpoint"] \in Nat /\ v["monitor"] \in Nat /\ v["checkpoint"] \in Nat
    BY <2>1 DEF Readers
  <2>4. \A X : Total(table, DOMAIN table \cap X) \in Int
    BY TotalType DEF CpuRows
  <2>5. CpuRows(table, v, case.faults)
    <3> DEFINE P == {SampleKey} \cap DOMAIN table
               a == Total(table, P)
               b == Total(table, DOMAIN table \ P)
    <3>1. a \in Int /\ b \in Int
      <4>1. P = DOMAIN table \cap {SampleKey} /\ DOMAIN table \ P = DOMAIN table \cap (DOMAIN table \ P)
        OBVIOUS
      <4> HIDE DEF P
      <4> QED
        BY <2>4, <4>1
    <3>2. Tiles(a, w["monitor"], case.faults) /\ Tiles(b, w["checkpoint"], case.faults)
      BY DEF CpuRows
    <3>3. Tiles(a, v["monitor"], case.faults) /\ Tiles(b, v["checkpoint"], case.faults)
      <4> HIDE DEF a, b
      <4> QED
        BY <1>4, <2>2, <2>3, <3>1, <3>2 DEF Tiles
    <3> QED
      BY <3>3 DEF CpuRows
  <2> QED
    BY <1>4, <2>1, <2>5
<1>5. \/ new = [table |-> Sampled(table, key, reading), at |-> now]
      \/ "psutil" \in case.faults /\ \E t \in {at, now} : new = [table |-> table, at |-> t]
  BY DEF CpuReads, CpuReading
<1>6. CpuRows(new.table, v, case.faults) /\ v \in [Readers -> Nat]
  BY <1>3, <1>4, <1>5
<1>7. new.at \in Nat /\ new.at <= now
  <2> HIDE DEF reading, at
  <2> QED
    BY <1>1, <1>5 DEF at
<1> QED
  BY <1>6, <1>7

(* A read of the GPU.                                                       *)
LEMMA GpuReadsStand ==
  ASSUME NEW readings, readings \subseteq Nat \cup {None}, NEW table, GpuRows(table, readings), NEW key,
         NEW index, case.usage[case.devices[index]] = readings, NEW new \in GpuReads(table, key, index)
  PROVE  /\ GpuRows(new, readings)
         /\ new = table \/ \E reading \in readings : new = Sampled(table, key, reading)
<1>1. CASE new = table
  BY <1>1
<1>2. ASSUME NEW reading \in readings, new = Sampled(table, key, reading)
      PROVE  GpuRows(new, readings)
  BY <1>2, GpuSamples
<1> QED
  BY <1>1, <1>2 DEF GpuReads, GpuReadings

(* No snapshot yet.                                                          *)
LEMMA NoRows ==
  ASSUME NEW w, w["monitor"] = 0, w["checkpoint"] = 0, NEW readings, NEW faults
  PROVE  CpuRows(<<>>, w, faults) /\ GpuRows(<<>>, readings)
<1>1. DOMAIN <<>> = {} /\ {SampleKey} \cap {} = {} /\ {} \ {} = {}
  OBVIOUS
<1>2. RowTypes(<<>>)
  BY <1>1, FS_EmptySet DEF RowTypes
<1>3. Total(<<>>, {}) = 0
  <2>1. Total(<<>>, {}) = SumOf(<<>>, {})
    BY TotalIsSum
  <2> QED
    BY <2>1, SumOfNone
<1>4. Tiles(0, 0, faults)
  BY DEF Tiles
<1> QED
  BY <1>1, <1>2, <1>3, <1>4 DEF CpuRows, GpuRows

(* What the proofs need of a case.                                           *)
LEMMA PerfFacts ==
  ASSUME case \in Cases
  PROVE  case.usage[TorchDevice] \subseteq Nat \cup {None}
BY PerfAssumption DEF TorchDevice, LocalRank, None

(* The time of the process grows with every call.                            *)
LEMMA NamesAreFinite == IsFiniteSet(Names)
<1> DEFINE one   == {} \cup {"trainer/step"}
           two   == one \cup {"trainer/artifact_load"}
           three == two \cup {"trainer/artifact_load/disk_read"}
<1>1. IsFiniteSet(one) /\ IsFiniteSet(two) /\ IsFiniteSet(three) /\ IsFiniteSet(three \cup {"driver/drive"})
  <2>1. IsFiniteSet(one)
    BY FS_EmptySet, FS_AddElement
  <2> HIDE DEF one
  <2>2. IsFiniteSet(two)
    BY <2>1, FS_AddElement
  <2> HIDE DEF two
  <2>3. IsFiniteSet(three)
    BY <2>2, FS_AddElement
  <2> HIDE DEF three
  <2> QED
    BY <2>1, <2>2, <2>3, FS_AddElement
<1>2. Names = three \cup {"driver/drive"}
  BY DEF Names
<1> QED
  BY <1>1, <1>2

LEMMA TimeOfCalls ==
  ASSUME NEW c \in [Names -> Nat]
  PROVE  /\ SumOf(c, Names) \in Nat
         /\ \A n \in Names, d \in Nat : SumOf([c EXCEPT ![n] = @ + d], Names) = SumOf(c, Names) + d
<1>1. IsFiniteSet(Names)
  BY NamesAreFinite
<1>2. SumOf(c, Names) \in Nat
  <2>1. SumOf(c, Names) \in Int /\ SumOf(c, Names) >= 0 * Cardinality(Names)
    BY <1>1, SumType, SumAtLeast
  <2>2. Cardinality(Names) \in Nat
    BY <1>1, FS_CardinalityType
  <2> QED
    BY <2>1, <2>2
<1>3. ASSUME NEW n \in Names, NEW d \in Nat
      PROVE  SumOf([c EXCEPT ![n] = @ + d], Names) = SumOf(c, Names) + d
  <2> DEFINE new == [c EXCEPT ![n] = @ + d]
             rest == Names \ {n}
  <2>1. new \in [Names -> Nat] /\ new[n] = c[n] + d /\ \A m \in rest : new[m] = c[m]
    OBVIOUS
  <2>2. IsFiniteSet(rest)
    BY <1>1, Subsets
  <2> HIDE DEF new, rest
  <2>3. SumOf(new, rest) = SumOf(c, rest)
    BY <2>1, <2>2, SumOfSame
  <2>4. SumOf(new, Names) = new[n] + SumOf(new, rest) /\ SumOf(c, Names) = c[n] + SumOf(c, rest)
    BY <1>1, <2>1, SumWithout DEF rest
  <2>5. SumOf(c, rest) \in Int
    BY <2>2, SumType DEF rest
  <2>6. SumOf(new, Names) = SumOf(c, Names) + d
    BY <2>1, <2>3, <2>4, <2>5
  <2> QED
    BY <2>6 DEF new
<1> QED
  BY <1>2, <1>3

LEMMA CpuTimeIsSum == CpuTime = SumOf(calls, Names) /\ CpuTime' = SumOf(calls', Names)
<1>1. CpuTime = SumOf(calls, Names)
  BY DEF CpuTime, SumOf
<1>2. CpuTime' = SumOf(calls', Names)
  BY DEF CpuTime, SumOf, MapThenSumSet, MapThenFoldSet
<1> QED
  BY <1>1, <1>2

(* A timed call that returns is counted under its path, once.                *)
TimesOf(timing) == \A p \in DOMAIN timing : timing[p].count \in Nat /\ timing[p].total \in Nat

LEMMA PathsDiffer ==
  ASSUME NEW n \in Names, NEW m \in Names
  PROVE  PathOf(n) \in TimedPaths /\ (PathOf(n) = PathOf(m) <=> n = m)
<1>1. /\ Len(StepPath) = 1 /\ Len(LoadPath) = 2 /\ Len(ReadPath) = 3 /\ Len(DrivePath) = 1
      /\ StepPath[1] = "trainer/step" /\ DrivePath[1] = "driver/drive"
  BY DEF StepPath, LoadPath, ReadPath, DrivePath
<1> QED
  BY <1>1 DEF PathOf, Names, TimedPaths

LEMMA CallIsTimed ==
  ASSUME NEW timing, TimesOf(timing), NEW n \in Names, NEW duration \in Nat
  PROVE  LET new == Timed(timing, PathOf(n), duration) IN
         /\ TimesOf(new) /\ DOMAIN new = DOMAIN timing \cup {PathOf(n)}
         /\ \A m \in Names : Counted(new, m) = Counted(timing, m) + (IF m = n THEN 1 ELSE 0)
<1> DEFINE path == PathOf(n)
           entry == At(timing, path, EmptyTiming)
           new == Timed(timing, path, duration)
<1>1. entry.count \in Nat /\ entry.total \in Nat
  BY DEF At, EmptyTiming, TimesOf
<1>2. /\ DOMAIN new = DOMAIN timing \cup {path} /\ \A p \in DOMAIN timing \ {path} : new[p] = timing[p]
      /\ new[path].count = entry.count + 1 /\ new[path].total = entry.total + duration
  <2> HIDE DEF entry, path
  <2> QED
    BY DEF Timed, Put, entry
<1> HIDE DEF new, entry
<1>3. TimesOf(new)
  BY <1>1, <1>2 DEF TimesOf
<1>4. ASSUME NEW m \in Names
      PROVE  Counted(new, m) = Counted(timing, m) + (IF m = n THEN 1 ELSE 0)
  <2>1. CASE m = n
    <3>1. Counted(new, m) = entry.count + 1
      BY <1>2, <2>1 DEF Counted
    <3>2. Counted(timing, m) = entry.count
      BY <2>1 DEF Counted, entry, At, EmptyTiming
    <3> QED
      BY <2>1, <3>1, <3>2
  <2>2. CASE m # n
    <3>1. PathOf(m) # path
      BY <2>2, PathsDiffer
    <3>2. Counted(new, m) = Counted(timing, m) /\ Counted(timing, m) \in Nat
      BY <1>2, <3>1 DEF Counted, TimesOf
    <3> QED
      BY <2>2, <3>2
  <2> QED
    BY <2>1, <2>2
<1> QED
  BY <1>2, <1>3, <1>4 DEF new

(* A snapshot at a scope or a marker, at a CPU time not before the last one. *)
SamplesStand(new, old) ==
  \A f \in Families : /\ SampleKey \in DOMAIN new[f] <=> SampleKey \in DOMAIN old[f]
                      /\ SampleKey \in DOMAIN old[f] => new[f][SampleKey] = old[f][SampleKey]

LEMMA KeysDiffer ==
  /\ \A path, at : Boundary(path, at) # SampleKey
  /\ \A path : Marker(path) # SampleKey
<1>1. SampleKey.capture = "periodic"
  BY DEF SampleKey
<1>2. /\ \A path, at : Boundary(path, at).capture = "checkpoint"
      /\ \A path : Marker(path).capture = "checkpoint"
  BY DEF Boundary, Marker
<1> QED
  BY <1>1, <1>2

(* A snapshot of a checkpoint leaves the rows of the monitors as they are.  *)
LEMMA SnapshotTiles ==
  ASSUME case \in Cases, case' = case, RowsTile, case.devices[handle] = TorchDevice,
         NEW families \in {{}, {"cpu"}, Families}, NEW key, key # SampleKey,
         NEW now \in Nat, now >= CpuTime, CpuTime \in Nat, CpuTime' \in Nat, CpuTime' >= now,
         Snapshot(families, key, now)
  PROVE  RowsTile' /\ SamplesStand(rows', rows)
<1> DEFINE U == case.usage[TorchDevice]
           last == LastRead("checkpoint")
<1>1. /\ DOMAIN rows = Families /\ CpuRows(rows["cpu"], window, case.faults) /\ GpuRows(rows["gpu"], U)
      /\ window \in [Readers -> Nat] /\ \A reader \in Readers : window[reader] <= CpuTime
  BY DEF RowsTile
<1>2. U' = U /\ U \subseteq Nat \cup {None}
  BY PerfFacts DEF TorchDevice, LocalRank
<1>3. PICK cpu \in IF "cpu" \in families THEN CpuReads(last, key, now) ELSE {last},
           gpu \in IF "gpu" \in families THEN GpuReads(rows["gpu"], key, handle) ELSE {rows["gpu"]} :
        rows' = Tables(cpu.table, gpu) /\ window' = Windows("checkpoint", cpu)
  BY DEF Snapshot
<1>4. /\ DOMAIN rows' = Families /\ rows'["cpu"] = cpu.table /\ rows'["gpu"] = gpu
      /\ window' = [window EXCEPT !["checkpoint"] = cpu.at]
  BY <1>3 DEF Tables, Windows, Families
<1>5. /\ GpuRows(rows'["gpu"], U)
      /\ rows'["gpu"] = rows["gpu"] \/ \E r : rows'["gpu"] = Sampled(rows["gpu"], key, r)
  <2>1. ASSUME gpu \in GpuReads(rows["gpu"], key, handle)
        PROVE  /\ GpuRows(gpu, U)
               /\ gpu = rows["gpu"] \/ \E r : gpu = Sampled(rows["gpu"], key, r)
    <3> HIDE DEF U
    <3>1. case.usage[case.devices[handle]] = U
      BY DEF U
    <3>2. GpuRows(gpu, U) /\ (gpu = rows["gpu"] \/ \E r \in U : gpu = Sampled(rows["gpu"], key, r))
      BY <1>1, <1>2, <2>1, <3>1, GpuReadsStand
    <3> QED
      BY <3>2
  <2> HIDE DEF U
  <2> QED
    BY <1>1, <1>3, <1>4, <2>1
<1> HIDE DEF U
<1>6. /\ CpuRows(rows'["cpu"], window', case.faults) /\ window' \in [Readers -> Nat] /\ cpu.at \in Nat /\ cpu.at <= now
      /\ rows'["cpu"] = rows["cpu"] \/ \E r : rows'["cpu"] = Sampled(rows["cpu"], key, r)
  <2>1. ReaderOf(key) = "checkpoint" /\ "checkpoint" \in Readers
    BY DEF ReaderOf, Readers
  <2>2. window["checkpoint"] \in Nat /\ window["checkpoint"] <= now
    BY <1>1, <2>1
  <2>3. CASE "cpu" \in families
    <3>1. cpu \in CpuReads([table |-> rows["cpu"], at |-> window[ReaderOf(key)]], key, now)
      BY <1>3, <2>1, <2>3 DEF LastRead
    <3>2. /\ CpuRows(cpu.table, [window EXCEPT ![ReaderOf(key)] = cpu.at], case.faults)
          /\ [window EXCEPT ![ReaderOf(key)] = cpu.at] \in [Readers -> Nat] /\ cpu.at \in Nat /\ cpu.at <= now
      BY <1>1, <2>1, <2>2, <3>1, CpuReadsTile
    <3>3. cpu.table = rows["cpu"] \/ \E r : cpu.table = Sampled(rows["cpu"], key, r)
      BY <3>1, CpuReadsForm
    <3> QED
      BY <1>4, <2>1, <3>2, <3>3
  <2>4. CASE "cpu" \notin families
    <3>1. cpu = last
      BY <1>3, <2>4
    <3>2. cpu.table = rows["cpu"] /\ cpu.at = window["checkpoint"]
      BY <3>1 DEF LastRead
    <3>3. window' = window
      BY <1>1, <1>4, <3>2 DEF Readers
    <3> QED
      BY <1>1, <1>4, <2>2, <3>2, <3>3
  <2> QED
    BY <2>3, <2>4
<1>7. \A reader \in Readers : window'[reader] <= CpuTime'
  BY <1>1, <1>4, <1>6 DEF Readers
<1>8. RowsTile'
  BY <1>2, <1>4, <1>5, <1>6, <1>7 DEF RowsTile, U
<1>9. SamplesStand(rows', rows)
  <2>1. \A table, r : /\ SampleKey \in DOMAIN Sampled(table, key, r) <=> SampleKey \in DOMAIN table
                      /\ SampleKey \in DOMAIN table => Sampled(table, key, r)[SampleKey] = table[SampleKey]
    BY DEF Sampled, Put
  <2> QED
    BY <1>5, <1>6, <2>1 DEF SamplesStand, Families
<1> QED
  BY <1>8, <1>9

(* The artifact of the teardown stays the final one.                         *)
LEMMA FinalStands ==
  ASSUME NEW payload, NEW old, NEW new, NEW low, NEW high, NEW more,
         IsFinal(payload, old, low, high), SamplesStand(new, old),
         low \in [Names -> Nat], high \in [Names -> Nat], more \in [Names -> Nat],
         \A n \in Names : more[n] >= high[n]
  PROVE  IsFinal(payload, new, low, more)
<1>1. \A n \in Names : Counted(payload.timing, n) \in low[n] .. more[n]
  BY DEF IsFinal
<1>2. ASSUME NEW f \in Families
      PROVE  /\ SampleKey \in DOMAIN payload.resources[f] <=> SampleKey \in DOMAIN new[f]
             /\ SampleKey \in DOMAIN new[f] =>
                  payload.resources[f][SampleKey] = JsonRow(new[f][SampleKey])
  BY DEF IsFinal, SamplesStand
<1> QED
  BY <1>1, <1>2 DEF IsFinal

-----------------------------------------------------------------------------
(* Scopes                                                                   *)

(* The one scope of a thread.                                                *)
LEMMA OneElement ==
  ASSUME NEW S, NEW s \in Seq(S), Len(s) <= 1, s # <<>>
  PROVE  /\ Len(s) = 1 /\ DOMAIN s = {1} /\ s[1] \in S
         /\ Last(s) = s[1] /\ Front(s) = <<>>
<1>1. Len(s) \in Nat /\ Len(s) # 0
  OBVIOUS
<1>2. \A n \in Nat : n <= 1 /\ n # 0 => n = 1
  OBVIOUS
<1>3. Len(s) = 1
  BY <1>1, <1>2
<1>4. DOMAIN s = {1} /\ s[1] \in S
  BY <1>3
<1> QED
  BY <1>3, <1>4 DEF Last, Front

LEMMA OneScope ==
  ASSUME NEW t, NEW name, NestsAt(t, name), scopes[t] # <<>>
  PROVE  /\ [i \in DOMAIN scopes[t] |-> scopes[t][i].name] = <<name>> /\ Last(<<name>>) = name
         /\ Last(scopes[t]).spent \in Nat /\ Front(scopes[t]) = <<>>
         /\ Len(scopes[t]) = 1
<1> DEFINE stack == scopes[t]
           S == [name : {name}, spent : Nat]
<1>1. stack \in Seq(S) /\ Len(stack) <= 1
  BY DEF NestsAt
<1> HIDE DEF stack, S
<1>2. /\ Len(stack) = 1 /\ DOMAIN stack = {1} /\ stack[1] \in S
      /\ Last(stack) = stack[1] /\ Front(stack) = <<>>
  BY <1>1, OneElement DEF stack
<1>3. stack[1].name = name /\ stack[1].spent \in Nat
  BY <1>2 DEF S
<1>4. [i \in DOMAIN stack |-> stack[i].name] = <<name>> /\ Last(<<name>>) = name
  BY <1>2, <1>3 DEF Last
<1> QED
  BY <1>2, <1>3, <1>4 DEF stack

(* _enter_scope of a thread outside of any scope.                            *)
Scoped(t, name) == <<t, name>> \in {<<"main", "trainer/step">>, <<"driver", "driver/drive">>}

LEMMA EnteringKeepsRecords ==
  ASSUME PerfInv, case \in Cases, case' = case, NEW t, NEW name, Scoped(t, name), scopes[t] = <<>>,
         EnterScope(t, name), Current
  PROVE  /\ CallsAreTimed' /\ RowsTile' /\ FinalIsKept'
         /\ DOMAIN scopes' = Threads /\ NestsAt(t, name)' /\ scopes'[t] # <<>>
         /\ \A u \in Threads \ {t} : scopes'[u] = scopes[u]
         /\ UNCHANGED <<threadVars, lifeVars>>
<1>1. /\ scopes' = [scopes EXCEPT ![t] = Append(<<>>, [name |-> name, spent |-> 0])]
      /\ Snapshot(SnapshotsOf(name), Boundary(PathTo(t, name), "start"), CpuTime)
      /\ UNCHANGED <<timer, calls, threadVars, lifeVars>> /\ ~ LockHeld
  BY DEF EnterScope, Parent
<1>2. t \in Threads /\ DOMAIN scopes = Threads
  BY DEF Scoped, Threads, PerfInv, ScopesNest
<1>3. /\ DOMAIN scopes' = Threads /\ scopes'[t] = <<[name |-> name, spent |-> 0]>>
      /\ \A u \in Threads \ {t} : scopes'[u] = scopes[u]
  BY <1>1, <1>2
<1>4. NestsAt(t, name)' /\ scopes'[t] # <<>>
  <2>1. <<[name |-> name, spent |-> 0]>> \in Seq([name : {name}, spent : Nat])
    OBVIOUS
  <2> QED
    BY <1>3, <2>1 DEF NestsAt
<1>5. RowsTile' /\ SamplesStand(rows', rows)
  <2>1. CpuTime \in Nat /\ CpuTime' = CpuTime
    BY <1>1, CpuTimeIsSum, TimeOfCalls DEF PerfInv, CallsAreTimed
  <2>2. SnapshotsOf(name) \in {{}, {"cpu"}, Families}
    BY DEF SnapshotsOf
  <2>3. case.devices[handle] = TorchDevice
    BY DEF PerfInv, LifeIsOrdered, Current
  <2>4. CpuTime >= CpuTime
    BY <2>1
  <2> QED
    BY <1>1, <2>1, <2>2, <2>3, <2>4, KeysDiffer, SnapshotTiles DEF PerfInv
<1>6. InStep => InStep'
  BY <1>2, <1>3, <1>4 DEF InStep, Threads
<1>7. CallsAreTimed'
  BY <1>1, <1>6 DEF PerfInv, CallsAreTimed, lifeVars
<1>8. FinalIsKept'
  <2>1. store' = "bound" /\ teardown' # "write"
    BY <1>1 DEF Current, LockHeld, lifeVars
  <2> QED
    BY <2>1 DEF FinalIsKept
<1> QED
  BY <1>1, <1>3, <1>4, <1>5, <1>7, <1>8

(* Its end.                                                                  *)
LEMMA LeavingKeepsRecords ==
  ASSUME PerfInv, case \in Cases, case' = case, NEW t, NEW name, Scoped(t, name), scopes[t] # <<>>,
         ExitScope(t)
  PROVE  /\ CallsAreTimed' /\ RowsTile' /\ FinalIsKept'
         /\ scopes' = [scopes EXCEPT ![t] = <<>>] /\ DOMAIN scopes = Threads /\ t \in Threads
         /\ UNCHANGED <<threadVars, lifeVars>>
<1> DEFINE took == Last(scopes[t]).spent + 1
           path == <<name>>
<1>1. NestsAt(t, name) /\ t \in Threads /\ DOMAIN scopes = Threads /\ name \in Names /\ path = PathOf(name)
  BY DEF Scoped, Threads, PerfInv, ScopesNest, Names, PathOf, StepPath, DrivePath
<1>2. /\ timer' = Timed(timer, path, took) /\ took \in Nat
      /\ scopes' = [scopes EXCEPT ![t] = <<>>]
      /\ Snapshot(SnapshotsOf(name), Boundary(path, "end"), CpuTime + 1)
      /\ calls' = [calls EXCEPT ![name] = @ + 1]
      /\ UNCHANGED <<threadVars, lifeVars>>
  <2>1. /\ [i \in DOMAIN scopes[t] |-> scopes[t][i].name] = path /\ Last(path) = name
        /\ took \in Nat /\ Front(scopes[t]) = <<>>
    BY <1>1, OneScope
  <2> HIDE DEF path
  <2> QED
    BY <2>1 DEF ExitScope
<1>3. /\ calls \in [Names -> Nat] /\ owed \in [Names -> Nat] /\ Closed(timer)
      /\ \A n \in Names : owed[n] <= calls[n] /\ calls[n] = Counted(timer, n)
  BY DEF PerfInv, CallsAreTimed
<1>4. CpuTime \in Nat /\ CpuTime' = CpuTime + 1
  BY <1>1, <1>2, <1>3, CpuTimeIsSum, TimeOfCalls
<1>5. RowsTile' /\ SamplesStand(rows', rows)
  <2>1. SnapshotsOf(name) \in {{}, {"cpu"}, Families}
    BY DEF SnapshotsOf
  <2>2. store # "none"
    BY <1>1 DEF PerfInv, LifeIsOrdered, NothingYet
  <2>3. case.devices[handle] = TorchDevice
    BY <2>2 DEF PerfInv, LifeIsOrdered
  <2>4. CpuTime + 1 \in Nat /\ CpuTime + 1 >= CpuTime /\ CpuTime' \in Nat /\ CpuTime' >= CpuTime + 1
    BY <1>4
  <2>5. Boundary(path, "end") # SampleKey
    BY KeysDiffer
  <2> QED
    BY <1>2, <1>4, <2>1, <2>3, <2>4, <2>5, SnapshotTiles DEF PerfInv
<1>6. /\ TimesOf(timer') /\ DOMAIN timer' = DOMAIN timer \cup {path}
      /\ \A m \in Names : Counted(timer', m) = Counted(timer, m) + (IF m = name THEN 1 ELSE 0)
  <2>1. TimesOf(timer)
    BY <1>3 DEF Closed, TimesOf
  <2> HIDE DEF took, path
  <2> QED
    BY <1>1, <1>2, <2>1, CallIsTimed
<1>7. /\ calls' \in [Names -> Nat]
      /\ \A n \in Names : calls'[n] = calls[n] + (IF n = name THEN 1 ELSE 0)
  BY <1>1, <1>2, <1>3
<1>8. CallsAreTimed'
  <2>1. owed' = owed
    BY <1>2 DEF lifeVars
  <2>2. \A n \in Names : owed'[n] <= calls'[n] /\ calls'[n] = Counted(timer', n)
    BY <1>3, <1>6, <1>7, <2>1
  <2>3. Closed(timer')
    <3>1. path \in TimedPaths /\ path # ReadPath
      BY <1>1, PathsDiffer DEF Scoped, ReadPath
    <3> QED
      BY <1>3, <1>6, <3>1 DEF Closed, TimesOf
  <2>4. LoadPath \in DOMAIN timer' => InStep' \/ StepPath \in DOMAIN timer'
    <3>1. path # LoadPath /\ (t = "main" => path = StepPath) /\ (t # "main" => scopes'["main"] = scopes["main"])
      BY <1>1, <1>2 DEF LoadPath, StepPath, Scoped
    <3>2. LoadPath \in DOMAIN timer => InStep \/ StepPath \in DOMAIN timer
      BY DEF PerfInv, CallsAreTimed
    <3> QED
      BY <1>6, <3>1, <3>2 DEF InStep
  <2> QED
    BY <1>3, <1>7, <2>1, <2>2, <2>3, <2>4 DEF CallsAreTimed
<1>9. FinalIsKept'
  <2>1. \A n \in Names : calls'[n] >= calls[n]
    BY <1>3, <1>7
  <2>2. \A payload : IsFinal(payload, rows, owed, calls) => IsFinal(payload, rows', owed, calls')
    BY <1>3, <1>5, <1>7, <2>1, FinalStands
  <2>3. UNCHANGED <<draft, published, spoiled, store, teardown, owed>>
    BY <1>2 DEF threadVars, lifeVars
  <2> QED
    BY <2>2, <2>3 DEF PerfInv, FinalIsKept
<1> QED
  BY <1>1, <1>2, <1>5, <1>8, <1>9

(* The paths of one, two and three scopes.                                  *)
LEMMA ShortPaths ==
  \A a, b, c : /\ Append(<<a>>, b) = <<a, b>> /\ Append(<<a, b>>, c) = <<a, b, c>>
               /\ Last(<<a, b>>) = b /\ Last(<<a, b, c>>) = c
<1> SUFFICES ASSUME NEW a, NEW b, NEW c
             PROVE  /\ Append(<<a>>, b) = <<a, b>> /\ Append(<<a, b>>, c) = <<a, b, c>>
                    /\ Last(<<a, b>>) = b /\ Last(<<a, b, c>>) = c
  OBVIOUS
<1> DEFINE S == {a, b, c}
<1>1. Append(<<a>>, b) = <<a, b>>
  <2>1. <<a>> \in Seq(S) /\ <<a, b>> \in Seq(S) /\ b \in S /\ Len(<<a>>) = 1 /\ Len(<<a, b>>) = 2
    OBVIOUS
  <2> HIDE DEF S
  <2>2. /\ Append(<<a>>, b) \in Seq(S) /\ Len(Append(<<a>>, b)) = 2
        /\ Append(<<a>>, b)[1] = a /\ Append(<<a>>, b)[2] = b
    BY <2>1, AppendProperties
  <2>3. \A i \in 1 .. 2 : Append(<<a>>, b)[i] = <<a, b>>[i]
    BY <2>2
  <2> QED
    BY <2>1, <2>2, <2>3, SeqEqual
<1>2. Append(<<a, b>>, c) = <<a, b, c>>
  <2>1. /\ <<a, b>> \in Seq(S) /\ <<a, b, c>> \in Seq(S) /\ c \in S
        /\ Len(<<a, b>>) = 2 /\ Len(<<a, b, c>>) = 3
    OBVIOUS
  <2> HIDE DEF S
  <2>2. /\ Append(<<a, b>>, c) \in Seq(S) /\ Len(Append(<<a, b>>, c)) = 3
        /\ Append(<<a, b>>, c)[1] = a /\ Append(<<a, b>>, c)[2] = b /\ Append(<<a, b>>, c)[3] = c
    BY <2>1, AppendProperties
  <2>3. \A i \in 1 .. 3 : Append(<<a, b>>, c)[i] = <<a, b, c>>[i]
    BY <2>2
  <2> QED
    BY <2>1, <2>2, <2>3, SeqEqual
<1>3. Len(<<a, b>>) = 2 /\ Len(<<a, b, c>>) = 3
  OBVIOUS
<1> QED
  BY <1>1, <1>2, <1>3 DEF Last

(* Two scopes inside the step.                                               *)
LEMMA LoadingKeepsRecords ==
  ASSUME PerfInv, case \in Cases, case' = case, InStep, LoadScopes("main"), Current
  PROVE  /\ CallsAreTimed' /\ RowsTile' /\ FinalIsKept'
         /\ DOMAIN scopes' = Threads /\ NestsAt("main", "trainer/step")' /\ InStep'
         /\ scopes'["driver"] = scopes["driver"]
         /\ UNCHANGED <<threadVars, lifeVars>>
<1> DEFINE load == "trainer/artifact_load"
           read == "trainer/artifact_load/disk_read"
           stack == scopes["main"]
           U == case.usage[TorchDevice]
<1>1. /\ NestsAt("main", "trainer/step") /\ DOMAIN scopes = Threads /\ stack # <<>>
      /\ load \in Names /\ read \in Names /\ LoadPath = PathOf(load) /\ ReadPath = PathOf(read)
  BY DEF Threads, PerfInv, ScopesNest, Names, PathOf, InStep
<1>2. /\ PathTo("main", load) = LoadPath /\ Append(LoadPath, read) = ReadPath
      /\ Last(LoadPath) = load /\ Last(ReadPath) = read
  <2>1. [i \in DOMAIN stack |-> stack[i].name] = <<"trainer/step">>
    BY <1>1, OneScope
  <2>2. PathTo("main", load) = LoadPath
    <3>1. PathTo("main", load) = Append(<<"trainer/step">>, load)
      BY <2>1 DEF PathTo, Parent
    <3> QED
      BY <3>1, ShortPaths DEF LoadPath
  <2>3. /\ Append(LoadPath, read) = ReadPath
        /\ Last(LoadPath) = load /\ Last(ReadPath) = read
    BY ShortPaths DEF LoadPath, ReadPath
  <2> QED
    BY <2>2, <2>3
<1>3. /\ timer' = Timed(Timed(timer, ReadPath, 1), LoadPath, 2)
      /\ scopes' = [scopes EXCEPT !["main"][Len(stack)].spent = @ + 2]
      /\ \E start \in CpuReads(LastRead("checkpoint"), Boundary(LoadPath, "start"), CpuTime) :
         \E end \in CpuReads(start, Boundary(LoadPath, "end"), CpuTime + 2) :
           rows' = Tables(end.table, rows["gpu"]) /\ window' = Windows("checkpoint", end)
      /\ calls' = [calls EXCEPT ![load] = @ + 1, ![read] = @ + 1]
      /\ UNCHANGED <<threadVars, lifeVars>> /\ ~ LockHeld
  BY <1>2 DEF LoadScopes, Parent
<1>4. /\ calls \in [Names -> Nat] /\ owed \in [Names -> Nat] /\ Closed(timer)
      /\ \A n \in Names : owed[n] <= calls[n] /\ calls[n] = Counted(timer, n)
  BY DEF PerfInv, CallsAreTimed
<1> DEFINE one == [calls EXCEPT ![load] = @ + 1]
<1>5. /\ one \in [Names -> Nat] /\ calls' = [one EXCEPT ![read] = @ + 1]
      /\ calls' \in [Names -> Nat]
      /\ \A n \in Names : calls'[n] = calls[n] + (IF n = load \/ n = read THEN 1 ELSE 0)
  <2>1. one \in [Names -> Nat] /\ \A n \in Names : one[n] = calls[n] + (IF n = load THEN 1 ELSE 0)
    BY <1>1, <1>4
  <2>2. calls' = [one EXCEPT ![read] = @ + 1]
    BY <1>1, <1>3, <1>4
  <2> HIDE DEF one
  <2>3. /\ calls' \in [Names -> Nat]
        /\ \A n \in Names : calls'[n] = one[n] + (IF n = read THEN 1 ELSE 0)
    BY <1>1, <2>1, <2>2
  <2>4. load # read
    OBVIOUS
  <2> HIDE DEF load, read
  <2> QED
    BY <1>4, <2>1, <2>2, <2>3, <2>4
<1>6. CpuTime \in Nat /\ CpuTime' = CpuTime + 2
  <2>1. SumOf(one, Names) = SumOf(calls, Names) + 1 /\ SumOf(calls, Names) \in Nat
    BY <1>1, <1>4, TimeOfCalls
  <2> HIDE DEF one
  <2>2. SumOf(calls', Names) = SumOf(one, Names) + 1
    <3>1. SumOf([one EXCEPT ![read] = @ + 1], Names) = SumOf(one, Names) + 1
      <4>1. one \in [Names -> Nat] /\ read \in Names /\ 1 \in Nat
        BY <1>1, <1>5
      <4> HIDE DEF read
      <4> QED
        BY <4>1, TimeOfCalls
    <3> QED
      BY <1>5, <3>1
  <2> QED
    BY <2>1, <2>2, CpuTimeIsSum
<1>7. /\ DOMAIN rows = Families /\ CpuRows(rows["cpu"], window, case.faults) /\ GpuRows(rows["gpu"], U)
      /\ window \in [Readers -> Nat] /\ \A reader \in Readers : window[reader] <= CpuTime
  BY DEF PerfInv, RowsTile
<1>8. DOMAIN scopes' = Threads /\ NestsAt("main", "trainer/step")' /\ InStep' /\ scopes'["driver"] = scopes["driver"]
  <2> DEFINE S == [name : {"trainer/step"}, spent : Nat]
             new == [stack EXCEPT ![Len(stack)].spent = @ + 2]
  <2>1. stack \in Seq(S) /\ Len(stack) <= 1
    BY <1>1 DEF NestsAt
  <2>2. DOMAIN stack = {1} /\ Len(stack) = 1 /\ stack[1] \in S
    <3> HIDE DEF S
    <3> QED
      BY <1>1, <2>1, OneElement
  <2>3. new = <<[stack[1] EXCEPT !.spent = @ + 2]>>
    BY <2>2
  <2>4. [stack[1] EXCEPT !.spent = @ + 2] \in S
    BY <2>2
  <2>5. new \in Seq(S) /\ Len(new) = 1 /\ new # <<>>
    <3> DEFINE e == [stack[1] EXCEPT !.spent = @ + 2]
    <3> HIDE DEF S, e
    <3>1. <<e>> \in Seq(S) /\ Len(<<e>>) = 1 /\ <<e>> # <<>>
      BY <2>4 DEF e
    <3> QED
      BY <2>3, <3>1 DEF e
  <2>6. /\ DOMAIN scopes' = Threads /\ scopes'["main"] = new /\ scopes'["driver"] = scopes["driver"]
    <3>1. scopes' = [scopes EXCEPT !["main"] = new]
      BY <1>3
    <3> HIDE DEF new
    <3> QED
      BY <1>1, <3>1 DEF Threads
  <2> QED
    BY <2>5, <2>6 DEF NestsAt, InStep
<1>9. RowsTile'
  <2>0. PICK start \in CpuReads(LastRead("checkpoint"), Boundary(LoadPath, "start"), CpuTime) :
          \E end \in CpuReads(start, Boundary(LoadPath, "end"), CpuTime + 2) :
            rows' = Tables(end.table, rows["gpu"]) /\ window' = Windows("checkpoint", end)
    BY <1>3
  <2>1. PICK end \in CpuReads(start, Boundary(LoadPath, "end"), CpuTime + 2) :
          rows' = Tables(end.table, rows["gpu"]) /\ window' = Windows("checkpoint", end)
    BY <2>0
  <2>2. /\ ReaderOf(Boundary(LoadPath, "start")) = "checkpoint"
        /\ ReaderOf(Boundary(LoadPath, "end")) = "checkpoint" /\ "checkpoint" \in Readers
    BY KeysDiffer DEF ReaderOf, Readers
  <2> DEFINE w == [window EXCEPT !["checkpoint"] = start.at]
             v == [w EXCEPT !["checkpoint"] = end.at]
  <2>3. /\ CpuRows(start.table, w, case.faults) /\ w \in [Readers -> Nat]
        /\ start = [table |-> start.table, at |-> start.at] /\ start.at \in Nat /\ start.at <= CpuTime
    <3> DEFINE key == Boundary(LoadPath, "start")
    <3>1. start \in CpuReads([table |-> rows["cpu"], at |-> window[ReaderOf(key)]], key, CpuTime)
      BY <2>0, <2>2 DEF LastRead
    <3>2. window[ReaderOf(key)] <= CpuTime
      BY <1>7, <2>2
    <3> HIDE DEF key
    <3>3. /\ CpuRows(start.table, [window EXCEPT ![ReaderOf(key)] = start.at], case.faults)
          /\ [window EXCEPT ![ReaderOf(key)] = start.at] \in [Readers -> Nat]
          /\ start.at \in Nat /\ start.at <= CpuTime
      BY <1>6, <1>7, <3>1, <3>2, CpuReadsTile
    <3>4. start = [table |-> start.table, at |-> start.at]
      BY <3>1, CpuReadsForm
    <3> QED
      BY <2>2, <3>3, <3>4 DEF key
  <2>4. w["checkpoint"] = start.at
    BY <1>7, <2>2
  <2>5. CpuRows(end.table, v, case.faults) /\ v \in [Readers -> Nat] /\ end.at \in Nat /\ end.at <= CpuTime + 2
    <3> DEFINE key == Boundary(LoadPath, "end")
               now == CpuTime + 2
    <3> HIDE DEF w
    <3>1. end \in CpuReads([table |-> start.table, at |-> w[ReaderOf(key)]], key, now)
      BY <2>1, <2>2, <2>3, <2>4
    <3>2. now \in Nat /\ w[ReaderOf(key)] <= now
      BY <1>6, <2>2, <2>3, <2>4
    <3> HIDE DEF key, now
    <3>3. /\ CpuRows(end.table, [w EXCEPT ![ReaderOf(key)] = end.at], case.faults)
          /\ [w EXCEPT ![ReaderOf(key)] = end.at] \in [Readers -> Nat] /\ end.at \in Nat /\ end.at <= now
      BY <2>3, <3>1, <3>2, CpuReadsTile
    <3> QED
      BY <2>2, <3>3 DEF key, now
  <2>6. window' = [window EXCEPT !["checkpoint"] = end.at] /\ v = window'
    BY <1>7, <2>1 DEF Windows
  <2>7. rows'["cpu"] = end.table /\ rows'["gpu"] = rows["gpu"] /\ DOMAIN rows' = Families
    BY <2>1 DEF Tables, Families
  <2>8. window' \in [Readers -> Nat] /\ \A reader \in Readers : window'[reader] <= CpuTime'
    BY <1>6, <1>7, <2>5, <2>6 DEF Readers
  <2>9. U' = U
    BY DEF TorchDevice, LocalRank
  <2> HIDE DEF v, U
  <2>10. CpuRows(rows'["cpu"], window', case.faults) /\ GpuRows(rows'["gpu"], U')
    BY <1>7, <2>5, <2>6, <2>7, <2>9
  <2> QED
    BY <2>7, <2>8, <2>10 DEF RowsTile, U
<1>10. CallsAreTimed'
  <2> DEFINE inner == Timed(timer, ReadPath, 1)
  <2>1. TimesOf(timer)
    BY <1>4 DEF Closed, TimesOf
  <2>2. /\ TimesOf(inner) /\ DOMAIN inner = DOMAIN timer \cup {ReadPath}
        /\ \A m \in Names : Counted(inner, m) = Counted(timer, m) + (IF m = read THEN 1 ELSE 0)
    <3>1. 1 \in Nat
      OBVIOUS
    <3> HIDE DEF read
    <3> QED
      BY <1>1, <2>1, <3>1, CallIsTimed
  <2> HIDE DEF inner
  <2>3. /\ TimesOf(timer') /\ DOMAIN timer' = DOMAIN inner \cup {LoadPath}
        /\ \A m \in Names : Counted(timer', m) = Counted(inner, m) + (IF m = load THEN 1 ELSE 0)
    <3>1. 2 \in Nat /\ timer' = Timed(inner, LoadPath, 2)
      BY <1>3 DEF inner
    <3> HIDE DEF load
    <3> QED
      BY <1>1, <2>2, <3>1, CallIsTimed
  <2>4. owed' = owed
    BY <1>3 DEF lifeVars
  <2>5. \A n \in Names : owed'[n] <= calls'[n] /\ calls'[n] = Counted(timer', n)
    BY <1>4, <1>5, <2>2, <2>3, <2>4
  <2>6. Closed(timer')
    BY <1>4, <2>2, <2>3 DEF Closed, TimesOf, TimedPaths
  <2>7. InStep'
    BY <1>8
  <2> QED
    BY <1>4, <1>5, <2>4, <2>5, <2>6, <2>7 DEF CallsAreTimed
<1>11. FinalIsKept'
  <2>1. store' = "bound" /\ teardown' # "write"
    BY <1>3 DEF Current, LockHeld, lifeVars
  <2> QED
    BY <2>1 DEF FinalIsKept
<1> QED
  BY <1>3, <1>8, <1>9, <1>10, <1>11

-----------------------------------------------------------------------------
(* What leaves the records as they are, and the start                       *)

(* What a step that only records leaves as it is.                            *)
LEMMA LifeStands ==
  ASSUME LifeIsOrdered, UNCHANGED <<threadVars, lifeVars>>, case' = case, store # "none",
         teardown # "no" => WorkIsOver(1)'
  PROVE  LifeIsOrdered'
<1>1. /\ store' = store /\ nvml' = nvml /\ handle' = handle /\ teardown' = teardown
      /\ flusher' = flusher /\ monitor' = monitor /\ TorchDevice' = TorchDevice
  BY DEF threadVars, lifeVars, TorchDevice
<1>2. MonitorsJoined' <=> MonitorsJoined
  BY <1>1 DEF MonitorsJoined
<1> QED
  BY <1>1, <1>2 DEF LifeIsOrdered

LEMMA ScopesStand ==
  ASSUME ScopesNest, scopes' = scopes, case' = case, stage'[1] = stage[1]
  PROVE  ScopesNest'
<1>1. InStep' <=> InStep
  BY DEF InStep
<1> QED
  BY <1>1 DEF ScopesNest, NestsAt

LEMMA CallsStand ==
  ASSUME CallsAreTimed, scopes' = scopes, timer' = timer, calls' = calls, owed' = owed \/ owed' = calls
  PROVE  CallsAreTimed'
<1>1. InStep' <=> InStep
  BY DEF InStep
<1>2. \A n \in Names : owed'[n] <= calls'[n]
  BY DEF CallsAreTimed
<1> QED
  BY <1>1, <1>2 DEF CallsAreTimed

LEMMA RowsStand ==
  ASSUME RowsTile, rows' = rows, window' = window, calls' = calls, case' = case
  PROVE  RowsTile'
<1>1. TorchDevice' = TorchDevice /\ CpuTime' = CpuTime
  BY CpuTimeIsSum DEF TorchDevice
<1> QED
  BY <1>1 DEF RowsTile

LEMMA FinalIsLeft ==
  ASSUME FinalIsKept, UNCHANGED <<rows, owed, calls>>,
         teardown' = "write" => teardown = "write" /\ draft' = draft,
         store' = "gone" /\ ~ spoiled' => store = "gone" /\ ~ spoiled /\ published' = published
  PROVE  FinalIsKept'
BY DEF FinalIsKept

(* initialize_perf.                                                          *)
LEMMA InitKeepsRecords ==
  ASSUME PerfInv, case \in Cases, case' = case, NEW marker, marker # SampleKey, InitPerf(marker),
         teardown # "no" => WorkIsOver(1)', stage[1] # "raised",
         stage'[1] \notin {"new", "raised"} /\ case.perf => store' # "none"
  PROVE  LifeIsOrdered' /\ CallsAreTimed' /\ RowsTile' /\ FinalIsKept'
<1> DEFINE U == case.usage[TorchDevice]
<1>0. /\ ScopesNest /\ LifeIsOrdered /\ CallsAreTimed /\ RowsTile /\ FinalIsKept
      /\ U \subseteq Nat \cup {None} /\ U' = U /\ TorchDevice' = TorchDevice
  BY PerfFacts DEF PerfInv, TorchDevice
<1>1. /\ scopes' = scopes /\ timer' = timer /\ calls' = calls /\ owed' = owed /\ teardown' = teardown
      /\ draft' = draft /\ published' = published /\ spoiled' = spoiled /\ ~ LockHeld
  BY DEF InitPerf
<1>2. CallsAreTimed'
  BY <1>0, <1>1, CallsStand
<1>3. CASE case.perf /\ store = "none"
  <2>1. /\ store' = "bound" /\ nvml' = TRUE /\ window' = NewWindows /\ handle' \in NvmlHandles
    BY <1>3 DEF InitPerf
  <2>2. NothingYet /\ teardown = "no"
    BY <1>0, <1>3 DEF LifeIsOrdered
  <2>3. case.devices[handle'] = TorchDevice
    BY <2>1 DEF NvmlHandles
  <2> DEFINE ready == Marker(<<"worker/perf_ready">>)
             fresh == [table |-> rows["cpu"], at |-> CpuTime]
  <2>4. PICK c \in CpuReads(fresh, ready, CpuTime), g \in GpuReads(rows["gpu"], ready, handle') :
           \E cpu \in CpuReads(c, marker, CpuTime), gpu \in GpuReads(g, marker, handle') :
             rows' = Tables(cpu.table, gpu)
    BY <1>3 DEF InitPerf
  <2>5. PICK cpu \in CpuReads(c, marker, CpuTime), gpu \in GpuReads(g, marker, handle') :
          rows' = Tables(cpu.table, gpu)
    BY <2>4
  <2>6. CpuTime = 0 /\ CpuTime' = 0
    <3>1. calls \in [Names -> Nat] /\ \A n \in Names : calls[n] = 0
      BY <2>2 DEF NothingYet
    <3>2. IsFiniteSet(Names) /\ {} \in SUBSET Names
      BY NamesAreFinite
    <3>3. SumOf(calls, Names) = SumOf(calls, {}) /\ SumOf(calls, {}) = 0
      BY <3>1, <3>2, SumOfZeros, SumOfNone
    <3> QED
      BY <1>1, <3>3, CpuTimeIsSum
  <2> DEFINE zero == [reader \in Readers |-> 0]
  <2>7. window' = zero /\ zero \in [Readers -> Nat] /\ zero["monitor"] = 0 /\ zero["checkpoint"] = 0
    BY <2>1, <2>6 DEF NewWindows, Readers
  <2>8. rows["cpu"] = <<>> /\ rows["gpu"] = <<>>
    BY <2>2 DEF NothingYet, Families
  <2>9. rows'["cpu"] = cpu.table /\ rows'["gpu"] = gpu /\ DOMAIN rows' = Families
    BY <2>5 DEF Tables, Families
  <2>10. \A key \in {ready, marker} : zero[ReaderOf(key)] = 0 /\ ReaderOf(key) = "checkpoint"
    BY <2>7, KeysDiffer DEF ReaderOf
  <2>11. CpuRows(rows'["cpu"], zero, case.faults)
    <3>1. CpuRows(<<>>, zero, case.faults)
      <4> HIDE DEF zero
      <4> QED
        BY <2>7, NoRows
    <3>2. \A at \in Nat : at <= 0 => [zero EXCEPT !["checkpoint"] = at] = zero
      OBVIOUS
    <3> HIDE DEF zero, ready
    <3>3. c \in CpuReads([table |-> <<>>, at |-> zero[ReaderOf(ready)]], ready, 0)
      BY <2>4, <2>6, <2>8, <2>10
    <3>4. zero[ReaderOf(ready)] <= 0 /\ zero[ReaderOf(marker)] <= 0 /\ 0 \in Nat
      BY <2>10
    <3>5. /\ CpuRows(c.table, [zero EXCEPT ![ReaderOf(ready)] = c.at], case.faults)
          /\ c.at \in Nat /\ c.at <= 0
      BY <2>7, <3>1, <3>3, <3>4, CpuReadsTile
    <3>6. c = [table |-> c.table, at |-> c.at]
      BY <3>3, CpuReadsForm
    <3>7. CpuRows(c.table, zero, case.faults) /\ c.at = 0
      BY <2>10, <3>2, <3>5
    <3>8. cpu \in CpuReads([table |-> c.table, at |-> zero[ReaderOf(marker)]], marker, 0)
      BY <2>5, <2>6, <2>10, <3>7, <3>6
    <3>9. /\ CpuRows(cpu.table, [zero EXCEPT ![ReaderOf(marker)] = cpu.at], case.faults)
          /\ cpu.at \in Nat /\ cpu.at <= 0
      BY <2>7, <3>4, <3>7, <3>8, CpuReadsTile
    <3> QED
      BY <2>9, <2>10, <3>2, <3>9
  <2>12. GpuRows(rows'["gpu"], U)
    <3>1. GpuRows(<<>>, U)
      <4> HIDE DEF zero, U
      <4> QED
        BY <2>7, NoRows
    <3>2. case.usage[case.devices[handle']] = U
      BY <2>3
    <3> HIDE DEF U, ready
    <3>3. GpuRows(g, U)
      BY <1>0, <2>4, <2>8, <3>1, <3>2, GpuReadsStand
    <3>4. GpuRows(gpu, U)
      BY <1>0, <2>5, <3>2, <3>3, GpuReadsStand
    <3> QED
      BY <2>9, <3>4
  <2>13. RowsTile'
    <3>1. \A reader \in Readers : window'[reader] <= CpuTime'
      BY <2>6, <2>7
    <3> HIDE DEF zero, U
    <3>2. CpuRows(rows'["cpu"], window', case.faults) /\ GpuRows(rows'["gpu"], U')
      BY <1>0, <2>7, <2>11, <2>12
    <3> QED
      BY <2>7, <2>9, <3>1, <3>2 DEF RowsTile, U
  <2>14. LifeIsOrdered'
    BY <1>0, <1>1, <1>3, <2>1, <2>2, <2>3 DEF LifeIsOrdered
  <2>15. FinalIsKept'
    BY <1>1, <2>1, <2>2 DEF FinalIsKept
  <2> QED
    BY <1>2, <2>13, <2>14, <2>15
<1>4. CASE ~ (case.perf /\ store = "none")
  <2>1. /\ IF Current THEN Snapshot(Families, marker, CpuTime) ELSE UNCHANGED <<rows, window>>
        /\ UNCHANGED <<store, nvml, handle, flusher, monitor>>
    BY <1>4 DEF InitPerf
  <2>2. CASE Current
    <3>1. store = "bound" /\ case.devices[handle] = TorchDevice
      BY <1>0, <2>2 DEF Current, LifeIsOrdered
    <3>2. CpuTime \in Nat /\ CpuTime' = CpuTime /\ CpuTime >= CpuTime
      <4>1. CpuTime \in Nat /\ CpuTime' = CpuTime
        BY <1>0, <1>1, CpuTimeIsSum, TimeOfCalls DEF CallsAreTimed
      <4> QED
        BY <4>1
    <3>3. RowsTile'
      BY <1>0, <2>1, <2>2, <3>1, <3>2, SnapshotTiles
    <3>4. LifeIsOrdered'
      BY <1>0, <1>1, <2>1, <3>1, LifeStands DEF threadVars, lifeVars
    <3>5. FinalIsKept'
      BY <1>1, <2>1, <3>1 DEF FinalIsKept, LockHeld
    <3> QED
      BY <1>2, <3>3, <3>4, <3>5
  <2>3. CASE ~ Current
    <3>0. UNCHANGED <<rows, window, store, nvml, handle, flusher, monitor>>
      BY <2>1, <2>3
    <3>1. RowsTile' /\ FinalIsKept'
      BY <1>0, <1>1, <3>0, RowsStand, FinalIsLeft
    <3>2. CASE store = "none"
      <4>1. /\ NothingYet' /\ teardown' = "no" /\ ~ case.perf
            /\ monitor' = [f \in Families |-> "absent"]
        BY <1>0, <1>1, <1>4, <3>0, <3>2 DEF LifeIsOrdered, NothingYet
      <4>2. store' = "none"
        BY <3>0, <3>2
      <4> QED
        <5>1. LifeIsOrdered'
          BY <4>1, <4>2 DEF LifeIsOrdered
        <5> QED
          BY <1>2, <3>1, <5>1
    <3>3. CASE store # "none"
      <4>1. UNCHANGED <<threadVars, lifeVars>>
        BY <1>1, <3>0 DEF threadVars, lifeVars
      <4>2. LifeIsOrdered'
        BY <1>0, <3>3, <4>1, LifeStands
      <4> QED
        BY <1>2, <3>1, <4>2
    <3> QED
      BY <1>2, <3>1, <3>2, <3>3
  <2> QED
    BY <2>2, <2>3
<1> QED
  BY <1>3, <1>4

-----------------------------------------------------------------------------
(* The threads of perf and the teardown                                     *)

(* The flush thread.                                                         *)
LEMMA FlushKeepsRecords ==
  ASSUME PerfInv, case' = case, stage' = stage, step' = step, FlushRenders \/ FlushWrites \/ FlushExits
  PROVE  PerfInv'
<1>0. ScopesNest /\ LifeIsOrdered /\ CallsAreTimed /\ RowsTile /\ FinalIsKept
  BY DEF PerfInv
<1>1. /\ timer' = timer /\ rows' = rows /\ window' = window /\ scopes' = scopes /\ calls' = calls
      /\ store' = store /\ nvml' = nvml /\ handle' = handle /\ teardown' = teardown /\ owed' = owed
      /\ monitor' = monitor /\ spoiled' = spoiled
      /\ flusher \in {"waiting", "rendered"}
  BY DEF FlushRenders, FlushWrites, FlushExits, recordVars, lifeVars
<1>2. store \notin {"none", "gone"} /\ teardown \notin {"monitors", "write", "leave"}
  BY <1>0, <1>1 DEF LifeIsOrdered, NothingYet
<1>3. ScopesNest' /\ CallsAreTimed' /\ RowsTile'
  BY <1>0, <1>1, ScopesStand, CallsStand, RowsStand
<1>4. TorchDevice' = TorchDevice /\ (WorkIsOver(1)' <=> WorkIsOver(1))
  BY DEF TorchDevice, WorkIsOver
<1>5. LifeIsOrdered'
  BY <1>0, <1>1, <1>2, <1>4 DEF LifeIsOrdered
<1>6. FinalIsKept'
  BY <1>1, <1>2 DEF FinalIsKept
<1> QED
  BY <1>3, <1>5, <1>6 DEF PerfInv

(* A monitor is only told of the teardown after the start and before the    *)
(* final artifact.                                                           *)
LEMMA MonitorsRun ==
  ASSUME LifeIsOrdered, NEW f \in Families, monitor[f] \in {"running", "told"}, store # "none"
  PROVE  /\ store \notin {"none", "gone"} /\ teardown # "write"
         /\ case.devices[handle] = TorchDevice
BY DEF LifeIsOrdered, NothingYet, MonitorsJoined

(* A reading of a monitor.                                                  *)
LEMMA SamplingKeepsRecords ==
  ASSUME PerfInv, case \in Cases, case' = case, stage' = stage, step' = step,
         NEW f \in Families, MonitorSamples(f)
  PROVE  PerfInv'
<1> DEFINE U == case.usage[TorchDevice]
<1>0. /\ ScopesNest /\ LifeIsOrdered /\ CallsAreTimed /\ RowsTile /\ FinalIsKept
      /\ U \subseteq Nat \cup {None} /\ TorchDevice' = TorchDevice
  BY PerfFacts DEF PerfInv, TorchDevice
<1>1. /\ timer' = timer /\ scopes' = scopes /\ calls' = calls
      /\ UNCHANGED <<threadVars, lifeVars>> /\ monitor[f] \in {"running", "told"} /\ store # "none"
  BY DEF MonitorSamples
<1>2. store \notin {"none", "gone"} /\ teardown # "write" /\ case.devices[handle] = TorchDevice
  BY <1>0, <1>1, MonitorsRun
<1>3. /\ DOMAIN rows = Families /\ CpuRows(rows["cpu"], window, case.faults) /\ GpuRows(rows["gpu"], U)
      /\ window \in [Readers -> Nat] /\ \A reader \in Readers : window[reader] <= CpuTime
  BY <1>0 DEF RowsTile
<1>4. CpuTime \in Nat /\ CpuTime' = CpuTime
  BY <1>0, <1>1, CpuTimeIsSum, TimeOfCalls DEF CallsAreTimed
<1>5. U' = U
  BY <1>0
<1>6. ASSUME f = "cpu" PROVE RowsTile'
  <2>1. PICK cpu \in CpuReads(LastRead("monitor"), SampleKey, CpuTime) :
          rows' = Tables(cpu.table, rows["gpu"]) /\ window' = Windows("monitor", cpu)
    BY <1>6 DEF MonitorSamples
  <2>2. ReaderOf(SampleKey) = "monitor" /\ "monitor" \in Readers
    BY DEF ReaderOf, Readers
  <2>3. cpu \in CpuReads([table |-> rows["cpu"], at |-> window[ReaderOf(SampleKey)]], SampleKey, CpuTime)
    BY <2>1, <2>2 DEF LastRead
  <2>4. window[ReaderOf(SampleKey)] <= CpuTime
    BY <1>3, <2>2
  <2>5. /\ CpuRows(cpu.table, [window EXCEPT ![ReaderOf(SampleKey)] = cpu.at], case.faults)
        /\ [window EXCEPT ![ReaderOf(SampleKey)] = cpu.at] \in [Readers -> Nat]
        /\ cpu.at \in Nat /\ cpu.at <= CpuTime
    BY <1>3, <1>4, <2>3, <2>4, CpuReadsTile
  <2>6. /\ DOMAIN rows' = Families /\ rows'["gpu"] = rows["gpu"] /\ rows'["cpu"] = cpu.table
        /\ window' = [window EXCEPT !["monitor"] = cpu.at]
    BY <2>1 DEF Tables, Windows, Families
  <2>7. window' \in [Readers -> Nat] /\ \A reader \in Readers : window'[reader] <= CpuTime'
    BY <1>3, <1>4, <2>5, <2>6 DEF Readers
  <2> HIDE DEF U
  <2>8. CpuRows(rows'["cpu"], window', case.faults) /\ GpuRows(rows'["gpu"], U')
    BY <1>3, <1>5, <2>2, <2>5, <2>6
  <2> QED
    BY <2>6, <2>7, <2>8 DEF RowsTile, U
<1>7. ASSUME f = "gpu" PROVE RowsTile'
  <2>1. PICK gpu \in GpuReads(rows["gpu"], SampleKey, handle) : rows' = Tables(rows["cpu"], gpu)
    BY <1>7 DEF MonitorSamples
  <2>2. /\ DOMAIN rows' = Families /\ rows'["cpu"] = rows["cpu"]
        /\ rows'["gpu"] = gpu /\ window' = window
    BY <1>7, <2>1 DEF Tables, Families, MonitorSamples
  <2>3. case.usage[case.devices[handle]] = U
    BY <1>2
  <2> HIDE DEF U
  <2>4. GpuRows(gpu, U)
    BY <1>0, <1>3, <2>1, <2>3, GpuReadsStand
  <2>5. CpuRows(rows'["cpu"], window', case.faults) /\ GpuRows(rows'["gpu"], U')
    BY <1>3, <1>5, <2>2, <2>4
  <2>6. window' \in [Readers -> Nat] /\ \A reader \in Readers : window'[reader] <= CpuTime'
    BY <1>3, <1>4, <2>2
  <2> QED
    BY <2>2, <2>5, <2>6 DEF RowsTile, U
<1>8. RowsTile'
  BY <1>6, <1>7 DEF Families
<1>9. ScopesNest' /\ CallsAreTimed'
  <2>1. owed' = owed /\ stage'[1] = stage[1]
    BY <1>1 DEF lifeVars
  <2> QED
    BY <1>0, <1>1, <2>1, ScopesStand, CallsStand
<1>10. LifeIsOrdered'
  <2>1. WorkIsOver(1)' <=> WorkIsOver(1)
    BY DEF WorkIsOver
  <2>2. teardown # "no" => WorkIsOver(1)'
    BY <1>0, <2>1 DEF LifeIsOrdered
  <2> QED
    BY <1>0, <1>1, <1>2, <2>2, LifeStands
<1>11. FinalIsKept'
  BY <1>1, <1>2 DEF FinalIsKept, lifeVars
<1> QED
  BY <1>8, <1>9, <1>10, <1>11 DEF PerfInv

(* Its end.                                                                 *)
LEMMA MonitorExitKeepsRecords ==
  ASSUME PerfInv, case' = case, stage' = stage, step' = step, NEW f \in Families, MonitorExits(f)
  PROVE  PerfInv'
<1>0. ScopesNest /\ LifeIsOrdered /\ CallsAreTimed /\ RowsTile /\ FinalIsKept
  BY DEF PerfInv
<1>1. /\ timer' = timer /\ rows' = rows /\ window' = window /\ scopes' = scopes /\ calls' = calls
      /\ store' = store /\ nvml' = nvml /\ handle' = handle /\ teardown' = teardown /\ owed' = owed
      /\ flusher' = flusher /\ monitor[f] \in {"running", "told"}
  BY DEF MonitorExits, recordVars, lifeVars
<1>3. ScopesNest' /\ CallsAreTimed' /\ RowsTile'
  BY <1>0, <1>1, ScopesStand, CallsStand, RowsStand
<1>4. TorchDevice' = TorchDevice /\ (WorkIsOver(1)' <=> WorkIsOver(1))
  BY DEF TorchDevice, WorkIsOver
<1>5. LifeIsOrdered' /\ FinalIsKept'
  <2>1. CASE store = "none"
    <3>1. NothingYet' /\ teardown' = "no" /\ store' = "none" /\ stage[1] = "raised"
      BY <1>0, <1>1, <2>1 DEF LifeIsOrdered, NothingYet
    <3> QED
      BY <1>0, <1>1, <1>4, <2>1, <3>1 DEF LifeIsOrdered, FinalIsKept
  <2>2. CASE store # "none"
    <3>1. store \notin {"none", "gone"} /\ teardown # "write" /\ case.devices[handle] = TorchDevice
      BY <1>0, <1>1, <2>2, MonitorsRun
    <3>2. LifeIsOrdered'
      BY <1>0, <1>1, <1>4, <3>1 DEF LifeIsOrdered
    <3> QED
      BY <1>1, <3>1, <3>2 DEF FinalIsKept
  <2> QED
    BY <2>1, <2>2
<1> QED
  BY <1>3, <1>5 DEF PerfInv

(* The teardown.                                                             *)
LEMMA PayloadIsFinal ==
  ASSUME PerfInv, ~ InStep
  PROVE  IsFinal(Payload, rows, owed, calls)
<1>1. /\ Closed(timer) /\ (LoadPath \in DOMAIN timer => StepPath \in DOMAIN timer)
      /\ calls \in [Names -> Nat] /\ owed \in [Names -> Nat]
      /\ \A n \in Names : owed[n] <= calls[n] /\ calls[n] = Counted(timer, n)
  BY DEF PerfInv, CallsAreTimed
<1>2. /\ Payload.rank = 0 /\ Payload.pid = 1 /\ Payload.timing = timer
      /\ \A f \in Families : Payload.resources[f] = ResourceBlock(f)
  BY DEF Payload, Identity, TimingBlock
<1>3. \A n \in Names : Counted(timer, n) \in owed[n] .. calls[n]
  BY <1>1
<1>4. \A f \in Families :
        /\ DOMAIN ResourceBlock(f) = DOMAIN rows[f]
        /\ \A key \in DOMAIN rows[f] : ResourceBlock(f)[key] = JsonRow(rows[f][key])
  BY DEF ResourceBlock
<1> HIDE DEF Payload
<1> QED
  BY <1>1, <1>2, <1>3, <1>4 DEF IsFinal

(* Each step of shutdown_perf keeps all of PerfInv; the last renders the final *)
(* artifact when nothing records any more.                                  *)
LEMMA ShutdownKeepsRecords ==
  ASSUME PerfInv, ShutdownPerf
  PROVE  PerfInv'
<1>0. ScopesNest /\ LifeIsOrdered /\ CallsAreTimed /\ RowsTile /\ FinalIsKept
  BY DEF PerfInv
<1>1. /\ timer' = timer /\ rows' = rows /\ window' = window /\ scopes' = scopes /\ calls' = calls
      /\ handle' = handle /\ (owed' = owed \/ owed' = calls)
      /\ WorkIsOver(1) /\ ~ InStep /\ case' = case /\ stage' = stage /\ step' = step
  BY DEF ShutdownPerf, StopFlushThread, JoinFlushThread, FlushThreadWedged, RenderFinal, WriteFinal,
         recordVars, rankVars
<1>2. ScopesNest' /\ CallsAreTimed' /\ RowsTile'
  BY <1>0, <1>1, ScopesStand, CallsStand, RowsStand
<1>3. TorchDevice' = TorchDevice /\ WorkIsOver(1)'
  BY <1>1 DEF TorchDevice, WorkIsOver
<1>4. LifeIsOrdered' /\ FinalIsKept'
  <2>1. CASE StopFlushThread
    <3>1. /\ store = "bound" /\ teardown = "no" /\ teardown' = "flush"
          /\ store' = store /\ nvml' = nvml
      BY <2>1 DEF StopFlushThread, Teardown, Current
    <3> QED
      BY <1>0, <1>1, <1>3, <3>1 DEF LifeIsOrdered, FinalIsKept
  <2>2. CASE JoinFlushThread
    <3>1. /\ teardown = "flush" /\ teardown' = "monitors" /\ flusher = "dead" /\ flusher' = flusher
          /\ store' = store /\ nvml' = nvml
      BY <2>2 DEF JoinFlushThread, Teardown
    <3>2. store = "bound"
      BY <1>0, <3>1 DEF LifeIsOrdered
    <3> QED
      BY <1>0, <1>1, <1>3, <3>1, <3>2 DEF LifeIsOrdered, FinalIsKept
  <2>3. CASE FlushThreadWedged
    <3>1. /\ teardown = "flush" /\ teardown' = "over" /\ flusher' = flusher
          /\ store' = store /\ nvml' = nvml
      BY <2>3 DEF FlushThreadWedged, Teardown
    <3>2. store = "bound"
      BY <1>0, <3>1 DEF LifeIsOrdered
    <3> QED
      BY <1>0, <1>1, <1>3, <3>1, <3>2 DEF LifeIsOrdered, FinalIsKept
  <2>4. CASE RenderFinal
    <3>1. /\ teardown = "monitors" /\ teardown' = IF MonitorsJoined THEN "write" ELSE "leave"
          /\ flusher' = flusher /\ monitor' = monitor
          /\ store' = store /\ nvml' = nvml /\ owed' = owed /\ draft' = Payload
      BY <2>4 DEF RenderFinal
    <3>2. store = "bound" /\ flusher = "dead"
      BY <1>0, <3>1 DEF LifeIsOrdered
    <3>3. MonitorsJoined' <=> MonitorsJoined
      BY <3>1 DEF MonitorsJoined
    <3>4. LifeIsOrdered'
      BY <1>0, <1>1, <1>3, <3>1, <3>2, <3>3 DEF LifeIsOrdered
    <3>5. IsFinal(draft', rows', owed', calls')
      BY <1>1, <3>1, PayloadIsFinal
    <3>6. FinalIsKept'
      BY <3>1, <3>2, <3>5 DEF FinalIsKept
    <3> QED
      BY <3>4, <3>6
  <2>5. CASE WriteFinal
    <3>1. /\ teardown \in {"write", "leave"} /\ teardown' = "over"
          /\ flusher' = flusher /\ monitor' = monitor /\ owed' = owed
          /\ store' = (IF teardown = "write" THEN "gone" ELSE store)
          /\ teardown # "write" => nvml' = nvml
          /\ (published' = draft /\ spoiled' = spoiled) \/ spoiled' = TRUE
      BY <2>5 DEF WriteFinal
    <3>2. store = "bound" /\ flusher = "dead" /\ (teardown = "write" => MonitorsJoined)
      BY <1>0, <3>1 DEF LifeIsOrdered
    <3>3. MonitorsJoined' <=> MonitorsJoined
      BY <3>1 DEF MonitorsJoined
    <3>4. LifeIsOrdered'
      <4>1. CASE teardown = "write"
        <5>1. store' = "gone" /\ flusher' = "dead" /\ MonitorsJoined'
          BY <3>1, <3>2, <3>3, <4>1
        <5> QED
          BY <1>0, <1>1, <1>3, <3>1, <3>2, <5>1 DEF LifeIsOrdered
      <4>2. CASE teardown = "leave"
        <5>1. store' = store /\ nvml' = nvml
          BY <3>1, <4>2
        <5> QED
          BY <1>0, <1>1, <1>3, <3>1, <3>2, <5>1 DEF LifeIsOrdered
      <4> QED
        BY <3>1, <4>1, <4>2
    <3>5. teardown = "write" => IsFinal(draft, rows', owed', calls')
      BY <1>0, <1>1, <3>1 DEF FinalIsKept
    <3>6. FinalIsKept'
      <4>1. teardown' # "write"
        BY <3>1
      <4>2. store' = "gone" => teardown = "write"
        BY <3>1, <3>2
      <4>3. spoiled' = TRUE => spoiled'
        OBVIOUS
      <4> QED
        BY <3>1, <3>5, <4>1, <4>2, <4>3 DEF FinalIsKept
    <3> QED
      BY <3>4, <3>6
  <2> QED
    BY <2>1, <2>2, <2>3, <2>4, <2>5 DEF ShutdownPerf
<1> QED
  BY <1>2, <1>4 DEF PerfInv

-----------------------------------------------------------------------------
(* The trainer and the server                                               *)

(* The steps that only the trainer takes: rank 1 stays where it is or within *)
(* its step, or raises.                                                      *)
LEMMA PerfStands ==
  ASSUME PerfInv, UNCHANGED perfVars, case' = case, step'[1] = step[1],
         \/ stage'[1] = stage[1]
         \/ stage[1] \in Stepping /\ stage'[1] \in Stepping
         \/ stage[1] \in Stepping \cup {"new"} /\ stage'[1] = "raised"
  PROVE  PerfInv'
<1>0. ScopesNest /\ LifeIsOrdered /\ CallsAreTimed /\ RowsTile /\ FinalIsKept
  BY DEF PerfInv
<1>1. /\ timer' = timer /\ rows' = rows /\ window' = window /\ scopes' = scopes /\ calls' = calls
      /\ owed' = owed /\ UNCHANGED <<threadVars, lifeVars>>
      /\ store' = store /\ teardown' = teardown /\ draft' = draft /\ published' = published
      /\ spoiled' = spoiled /\ flusher' = flusher /\ monitor' = monitor
  BY DEF perfVars, recordVars, threadVars, lifeVars
<1>2. CallsAreTimed' /\ RowsTile' /\ FinalIsKept'
  BY <1>0, <1>1, CallsStand, RowsStand, FinalIsLeft
<1>3. /\ stage[1] \in Stepping => stage[1] \notin {"new", "idle", "raised"}
      /\ stage'[1] \in Stepping => stage'[1] \notin {"new", "idle", "raised"}
  BY DEF Stepping, Looping
<1>4. ScopesNest'
  <2>1. InStep' <=> InStep
    BY <1>1 DEF InStep
  <2> QED
    BY <1>0, <1>1, <1>3, <2>1 DEF ScopesNest, NestsAt
<1>5. teardown # "no" => WorkIsOver(1)'
  BY <1>0, <1>3 DEF LifeIsOrdered, WorkIsOver
<1>6. LifeIsOrdered'
  <2>1. CASE store = "none"
    <3>1. NothingYet' /\ teardown' = "no" /\ store' = "none"
      BY <1>0, <1>1, <2>1 DEF LifeIsOrdered, NothingYet
    <3>2. case'.perf /\ stage'[1] \notin {"new", "raised"} => FALSE
      BY <1>0, <1>3, <2>1 DEF LifeIsOrdered
    <3>3. stage'[1] # "raised" => monitor' = [f \in Families |-> "absent"]
      BY <1>0, <1>1, <1>3, <2>1 DEF LifeIsOrdered
    <3> QED
      BY <3>1, <3>2, <3>3 DEF LifeIsOrdered
  <2>2. CASE store # "none"
    BY <1>0, <1>1, <1>5, <2>2, LifeStands
  <2> QED
    BY <2>1, <2>2
<1> QED
  BY <1>2, <1>4, <1>6 DEF PerfInv

(* The threads' scopes after one of them was entered or left.                *)
LEMMA ScopesMove ==
  ASSUME ScopesNest, case' = case, DOMAIN scopes' = Threads,
         \A u \in Threads : scopes'[u] \in {scopes[u], <<>>}
           \/ (u = "main" /\ NestsAt("main", "trainer/step")')
           \/ (u = "driver" /\ NestsAt("driver", "driver/drive")'),
         case.perf /\ stage'[1] \in Stepping => InStep',
         stage'[1] \in {"new", "idle"} => ~ InStep'
  PROVE  ScopesNest'
<1>1. \A S : <<>> \in Seq(S) /\ Len(<<>>) <= 1
  OBVIOUS
<1> QED
  BY <1>1 DEF ScopesNest, NestsAt, Threads

(* What rank 1 does in its process.                                          *)
LEMMA ConstructKeepsRecords ==
  ASSUME TrainerTypes, PerfInv, 1 \in Ranks, Construct(1)
  PROVE  PerfInv'
<1>0. ScopesNest /\ LifeIsOrdered /\ case \in Cases /\ stage[1] = "new" /\ case' = case /\ step' = step
  BY DEF PerfInv, TrainerTypes, Construct, InitTrainer, TrainerFails
<1>1. CASE InitTrainer(1) /\ InitPerf(Marker(<<"trainer/ready">>))
  <2>1. stage'[1] = "idle" /\ scopes' = scopes
    BY <1>1 DEF InitTrainer, Enter, TrainerTypes, InitPerf
  <2>2. teardown = "no"
    BY <1>0 DEF LifeIsOrdered, WorkIsOver
  <2>3. case.perf => store' # "none"
    BY <1>1 DEF InitPerf
  <2>4. Marker(<<"trainer/ready">>) # SampleKey
    BY KeysDiffer
  <2>5. LifeIsOrdered' /\ CallsAreTimed' /\ RowsTile' /\ FinalIsKept'
    BY <1>0, <1>1, <2>2, <2>3, <2>4, InitKeepsRecords
  <2>6. ScopesNest'
    <3>1. ~ InStep' /\ stage'[1] \notin Stepping /\ DOMAIN scopes' = Threads
      BY <1>0, <2>1 DEF ScopesNest, InStep, Stepping, Looping
    <3> QED
      BY <1>0, <2>1, <3>1, ScopesMove
  <2> QED
    BY <2>5, <2>6 DEF PerfInv
<1>2. CASE TrainerFails(1) /\ InitPerfFails
  <2>1. stage'[1] = "raised" /\ UNCHANGED <<recordVars, flusher, draft, published, spoiled, lifeVars>>
    BY <1>2 DEF TrainerFails, Raise, InitPerfFails, TrainerTypes
  <2>2. /\ timer' = timer /\ rows' = rows /\ window' = window /\ scopes' = scopes /\ calls' = calls
        /\ owed' = owed /\ store' = store /\ teardown' = teardown /\ flusher' = flusher
        /\ draft' = draft /\ published' = published /\ spoiled' = spoiled /\ store = "none"
    BY <1>2, <2>1 DEF recordVars, lifeVars, InitPerfFails
  <2>3. CallsAreTimed' /\ RowsTile' /\ FinalIsKept'
    BY <1>0, <2>2, CallsStand, RowsStand, FinalIsLeft DEF PerfInv
  <2>4. LifeIsOrdered'
    <3>1. NothingYet' /\ teardown' = "no" /\ store' = "none"
      BY <1>0, <2>2 DEF LifeIsOrdered, NothingYet
    <3> QED
      BY <2>1, <3>1 DEF LifeIsOrdered
  <2>5. ScopesNest'
    <3>1. ~ InStep' /\ stage'[1] \notin Stepping /\ DOMAIN scopes' = Threads
      BY <1>0, <2>1, <2>2 DEF ScopesNest, InStep, Stepping, Looping
    <3> QED
      BY <1>0, <2>1, <2>2, <3>1, ScopesMove
  <2> QED
    BY <2>3, <2>4, <2>5 DEF PerfInv
<1> QED
  BY <1>1, <1>2 DEF Construct, Measured

(* begin_step enters the scope of the step.                                 *)
LEMMA BeginKeepsRecords ==
  ASSUME TrainerTypes, PerfTypes, PerfInv, 1 \in Ranks, Begin(1)
  PROVE  PerfInv'
<1>0. ScopesNest /\ LifeIsOrdered /\ CallsAreTimed /\ RowsTile /\ FinalIsKept /\ case \in Cases /\ case' = case
  BY DEF PerfInv, TrainerTypes, Begin, BeginStep
<1>1. /\ stage[1] = "idle" /\ stage'[1] = "load" /\ step[1] + 1 \in 0 .. Len(case.feed)
      /\ EnterScope("main", "trainer/step")
  BY BeginFacts DEF Begin, Measured, TrainerTypes
<1>2. teardown = "no"
  <2>1. step[1] # Len(case.feed)
    BY <1>0, <1>1, StepsCount
  <2> QED
    BY <1>0, <1>1, <2>1 DEF LifeIsOrdered, WorkIsOver
<1>3. scopes["main"] = <<>>
  BY <1>0, <1>1 DEF ScopesNest, InStep
<1>4. CASE Current
  <2>1. Scoped("main", "trainer/step")
    BY DEF Scoped
  <2>2. /\ CallsAreTimed' /\ RowsTile' /\ FinalIsKept'
        /\ DOMAIN scopes' = Threads /\ NestsAt("main", "trainer/step")' /\ scopes'["main"] # <<>>
        /\ \A u \in Threads \ {"main"} : scopes'[u] = scopes[u]
        /\ UNCHANGED <<threadVars, lifeVars>>
    BY <1>0, <1>1, <1>3, <1>4, <2>1, EnteringKeepsRecords
  <2>3. LifeIsOrdered'
    <3>1. store # "none"
      BY <1>4 DEF Current
    <3> QED
      BY <1>0, <1>2, <2>2, <3>1, LifeStands
  <2>4. ScopesNest'
    <3>1. InStep'
      BY <2>2 DEF InStep
    <3> QED
      BY <1>0, <1>1, <2>2, <3>1, ScopesMove
  <2> QED
    BY <2>2, <2>3, <2>4 DEF PerfInv
<1>5. CASE ~ Current
  <2>1. UNCHANGED perfVars
    BY <1>1, <1>5 DEF EnterScope, perfVars, recordVars
  <2>2. store = "none" /\ ~ case.perf
    BY <1>0, <1>1, <1>2, <1>5 DEF LifeIsOrdered, Current, PerfTypes
  <2>3. /\ timer' = timer /\ rows' = rows /\ window' = window /\ scopes' = scopes /\ calls' = calls
        /\ owed' = owed /\ store' = store /\ teardown' = teardown /\ draft' = draft
        /\ published' = published /\ spoiled' = spoiled /\ flusher' = flusher /\ monitor' = monitor
    BY <2>1 DEF perfVars, recordVars, threadVars, lifeVars
  <2>4. CallsAreTimed' /\ RowsTile' /\ FinalIsKept'
    <3>1. CallsAreTimed'
      BY <1>0, <2>3, CallsStand
    <3>2. RowsTile'
      BY <1>0, <2>3, RowsStand
    <3>3. FinalIsKept'
      BY <1>0, <2>3, FinalIsLeft
    <3> QED
      BY <3>1, <3>2, <3>3
  <2>5. LifeIsOrdered'
    <3>1. /\ NothingYet' /\ teardown' = "no" /\ store' = "none" /\ ~ case'.perf
          /\ monitor' = [f \in Families |-> "absent"]
      BY <1>0, <1>1, <2>2, <2>3 DEF LifeIsOrdered, NothingYet
    <3> QED
      BY <3>1 DEF LifeIsOrdered
  <2>6. ScopesNest'
    BY <1>0, <1>1, <2>2, <2>3, ScopesMove DEF ScopesNest
  <2> QED
    BY <2>4, <2>5, <2>6 DEF PerfInv
<1> QED
  BY <1>4, <1>5

(* A rollout is loaded within it, or nothing is measured.                   *)
LEMMA LoadKeepsRecords ==
  ASSUME TrainerTypes, PerfInv, 1 \in Ranks, Load(1)
  PROVE  PerfInv'
<1>0. /\ ScopesNest /\ LifeIsOrdered /\ CallsAreTimed /\ RowsTile /\ FinalIsKept
      /\ case \in Cases /\ case' = case
  BY DEF PerfInv, TrainerTypes, Load, LoadRollout
<1>1. /\ stage[1] = "load" /\ stage'[1] \in {"load", "raised"} /\ step' = step
      /\ LoadScopes("main")
  <2>1. stage' = stage \/ stage' = [stage EXCEPT ![1] = "raised"]
    BY DEF Load, LoadRollout, Raise
  <2> QED
    BY <2>1 DEF Load, LoadRollout, Measured, TrainerTypes
<1>2. stage[1] \in Stepping
  BY <1>1 DEF Stepping
<1>3. CASE Current
  <2>1. store # "none" /\ teardown = "no"
    BY <1>0, <1>1, <1>3 DEF Current, LifeIsOrdered, WorkIsOver
  <2>2. InStep
    BY <1>0, <1>2, <2>1 DEF ScopesNest, LifeIsOrdered
  <2>3. /\ CallsAreTimed' /\ RowsTile' /\ FinalIsKept'
        /\ DOMAIN scopes' = Threads /\ NestsAt("main", "trainer/step")' /\ InStep'
        /\ scopes'["driver"] = scopes["driver"]
        /\ UNCHANGED <<threadVars, lifeVars>>
    BY <1>0, <1>1, <1>3, <2>2, LoadingKeepsRecords
  <2>4. LifeIsOrdered'
    BY <1>0, <2>1, <2>3, LifeStands
  <2>5. ScopesNest'
    BY <1>0, <1>1, <2>3, ScopesMove DEF Threads
  <2> QED
    BY <2>3, <2>4, <2>5 DEF PerfInv
<1>4. CASE ~ Current
  <2>1. UNCHANGED perfVars
    BY <1>1, <1>4 DEF LoadScopes, perfVars
  <2> QED
    BY <1>0, <1>1, <1>2, <2>1, PerfStands
<1> QED
  BY <1>3, <1>4

(* Whatever ends a scope of a thread, unless it is the step of rank 1 that   *)
(* goes on.                                                                  *)
LEMMA ExitKeepsRecords ==
  ASSUME PerfInv, case \in Cases, case' = case, NEW t, NEW name, Scoped(t, name), scopes[t] # <<>>,
         ExitScope(t), teardown # "no" => WorkIsOver(1)',
         t = "main" => stage'[1] \notin Stepping,
         t = "driver" => stage' = stage
  PROVE  PerfInv'
<1>0. ScopesNest /\ LifeIsOrdered /\ CallsAreTimed /\ RowsTile /\ FinalIsKept
  BY DEF PerfInv
<1>1. /\ CallsAreTimed' /\ RowsTile' /\ FinalIsKept'
      /\ scopes' = [scopes EXCEPT ![t] = <<>>] /\ DOMAIN scopes = Threads /\ t \in Threads
      /\ UNCHANGED <<threadVars, lifeVars>>
  BY LeavingKeepsRecords
<1>2. store # "none"
  BY <1>0, <1>1 DEF LifeIsOrdered, NothingYet
<1>3. LifeIsOrdered'
  BY <1>0, <1>1, <1>2, LifeStands
<1>4. ScopesNest'
  <2>1. DOMAIN scopes' = Threads /\ \A u \in Threads : scopes'[u] \in {scopes[u], <<>>}
    BY <1>1
  <2>2. CASE t = "main"
    <3>1. ~ InStep'
      BY <1>1, <2>2 DEF InStep
    <3> QED
      BY <1>0, <2>1, <2>2, <3>1, ScopesMove
  <2>3. CASE t = "driver"
    <3>1. InStep' <=> InStep
      BY <1>1, <2>3 DEF InStep
    <3> QED
      BY <1>0, <2>1, <2>3, <3>1, ScopesMove DEF ScopesNest
  <2> QED
    BY <1>1, <2>2, <2>3 DEF Threads
<1> QED
  BY <1>1, <1>3, <1>4 DEF PerfInv

(* The step is over, or its save fails.                                     *)
LEMMA FinishKeepsRecords ==
  ASSUME TrainerTypes, PerfInv, 1 \in Ranks, Finish(1)
  PROVE  PerfInv'
<1>0. /\ ScopesNest /\ LifeIsOrdered /\ CallsAreTimed /\ RowsTile /\ FinalIsKept
      /\ case \in Cases /\ case' = case
  BY DEF PerfInv, TrainerTypes, Finish, FinishStep, SaveFails, ExpertFails
<1>1. stage[1] = "finish" /\ stage'[1] \in {"idle", "raised"} /\ step' = step
  BY DEF Finish, FinishStep, SaveFails, ExpertFails, Enter, Raise, TrainerTypes
<1>2. teardown = "no" /\ stage[1] \in Stepping /\ stage'[1] \notin Stepping
  BY <1>0, <1>1 DEF LifeIsOrdered, WorkIsOver, Stepping, Looping
<1>3. CASE InStep
  <2>1. ExitScope("main") /\ scopes["main"] # <<>> /\ Scoped("main", "trainer/step")
    BY <1>3 DEF Finish, Leave, Measured, InStep, Scoped
  <2>2. "main" # "driver"
    OBVIOUS
  <2> QED
    BY <1>0, <1>2, <2>1, <2>2, ExitKeepsRecords
<1>4. CASE ~ InStep
  <2>1. UNCHANGED perfVars /\ ~ case.perf
    BY <1>0, <1>2, <1>4 DEF Finish, Leave, NotMeasured, ScopesNest
  <2>2. /\ timer' = timer /\ rows' = rows /\ window' = window /\ scopes' = scopes /\ calls' = calls
        /\ owed' = owed /\ store' = store /\ teardown' = teardown /\ draft' = draft
        /\ published' = published /\ spoiled' = spoiled /\ flusher' = flusher /\ monitor' = monitor
    BY <2>1 DEF perfVars, recordVars, threadVars, lifeVars
  <2>3. CallsAreTimed'
    BY <1>0, <2>2, CallsStand
  <2>4. RowsTile'
    BY <1>0, <2>2, RowsStand
  <2>5. FinalIsKept'
    BY <1>0, <2>2, FinalIsLeft
  <2>6. LifeIsOrdered'
    <3>1. store = "none"
      BY <1>0, <2>1 DEF LifeIsOrdered
    <3>2. /\ NothingYet' /\ teardown' = "no" /\ store' = "none" /\ ~ case'.perf
          /\ monitor' = [f \in Families |-> "absent"]
      BY <1>0, <1>1, <2>1, <2>2, <3>1 DEF LifeIsOrdered, NothingYet
    <3> QED
      BY <3>2 DEF LifeIsOrdered
  <2>7. ScopesNest'
    <3>1. ~ InStep' /\ DOMAIN scopes' = Threads
      BY <1>0, <1>4, <2>2 DEF InStep, ScopesNest
    <3> QED
      BY <1>0, <2>1, <2>2, <3>1, ScopesMove
  <2> QED
    BY <2>3, <2>4, <2>5, <2>6, <2>7 DEF PerfInv
<1> QED
  BY <1>3, <1>4

(* The exception leaves the scope.                                          *)
LEMMA UnwindKeepsRecords ==
  ASSUME case \in Cases, PerfInv, Unwind(1)
  PROVE  PerfInv'
<1>1. /\ stage[1] = "raised" /\ stage' = stage /\ case' = case /\ ExitScope("main")
      /\ scopes["main"] # <<>> /\ Scoped("main", "trainer/step")
  BY DEF Unwind, InStep, rankVars, Scoped
<1>2. WorkIsOver(1)' /\ stage'[1] \notin Stepping
  BY <1>1 DEF WorkIsOver, Stepping, Looping
<1>3. "main" # "driver"
  OBVIOUS
<1> QED
  BY <1>1, <1>2, <1>3, ExitKeepsRecords

(* A call of the server enters a scope or leaves it.                        *)
LEMMA DriveKeepsRecords ==
  ASSUME case \in Cases, PerfInv, Drive
  PROVE  PerfInv'
<1>0. /\ ScopesNest /\ LifeIsOrdered /\ case' = case /\ stage' = stage /\ step' = step
      /\ Scoped("driver", "driver/drive")
  BY DEF PerfInv, Drive, rankVars, Scoped
<1>1. teardown # "no" => WorkIsOver(1)'
  <2>1. WorkIsOver(1)' <=> WorkIsOver(1)
    BY <1>0 DEF WorkIsOver
  <2> QED
    BY <1>0, <2>1 DEF LifeIsOrdered
<1>2. CASE Current /\ scopes["driver"] = <<>> /\ EnterScope("driver", "driver/drive")
  <2>1. /\ CallsAreTimed' /\ RowsTile' /\ FinalIsKept'
        /\ DOMAIN scopes' = Threads /\ NestsAt("driver", "driver/drive")'
        /\ \A u \in Threads \ {"driver"} : scopes'[u] = scopes[u]
        /\ UNCHANGED <<threadVars, lifeVars>>
    BY <1>0, <1>2, EnteringKeepsRecords
  <2>2. LifeIsOrdered'
    <3>1. store # "none"
      BY <1>2 DEF Current
    <3> QED
      BY <1>0, <1>1, <2>1, <3>1, LifeStands
  <2>3. ScopesNest'
    <3>1. scopes'["main"] = scopes["main"] /\ (InStep' <=> InStep)
      BY <2>1 DEF InStep, Threads
    <3>2. /\ case.perf /\ stage'[1] \in Stepping => InStep'
          /\ stage'[1] \in {"new", "idle"} => ~ InStep'
      BY <1>0, <3>1 DEF ScopesNest
    <3> QED
      BY <1>0, <2>1, <3>2, ScopesMove
  <2> QED
    BY <2>1, <2>2, <2>3 DEF PerfInv
<1>3. CASE scopes["driver"] # <<>> /\ ExitScope("driver")
  <2>1. "main" # "driver"
    OBVIOUS
  <2> QED
    BY <1>0, <1>1, <1>3, <2>1, ExitKeepsRecords
<1> QED
  BY <1>2, <1>3 DEF Drive

(* The rollout backend starts perf if the trainer did not.                  *)
LEMMA BackendKeepsRecords ==
  ASSUME case \in Cases, PerfInv, InitBackend
  PROVE  PerfInv'
<1> DEFINE marker == Marker(<<"rollout/model_ready">>)
<1>0. /\ ScopesNest /\ LifeIsOrdered /\ case' = case /\ stage' = stage /\ step' = step
      /\ teardown = "no" /\ stage[1] # "raised" /\ InitPerf(marker) /\ scopes' = scopes
  BY DEF PerfInv, InitBackend, rankVars, InitPerf
<1>1. marker # SampleKey
  BY KeysDiffer
<1>2. case.perf => store' # "none"
  BY <1>0 DEF InitPerf
<1> HIDE DEF marker
<1>3. LifeIsOrdered' /\ CallsAreTimed' /\ RowsTile' /\ FinalIsKept'
  BY <1>0, <1>1, <1>2, InitKeepsRecords
<1>4. ScopesNest'
  BY <1>0, ScopesStand
<1> QED
  BY <1>3, <1>4 DEF PerfInv

(* The threads of perf itself.                                              *)
LEMMA BackgroundKeepsRecords ==
  ASSUME case \in Cases, PerfInv, Background
  PROVE  PerfInv'
<1>1. case' = case /\ stage' = stage /\ step' = step
  BY DEF Background, rankVars
<1>2. CASE FlushRenders \/ FlushWrites \/ FlushExits
  BY <1>1, <1>2, FlushKeepsRecords
<1>3. ASSUME NEW f \in Families, MonitorSamples(f) PROVE PerfInv'
  BY <1>1, <1>3, SamplingKeepsRecords
<1>4. ASSUME NEW f \in Families, MonitorExits(f) PROVE PerfInv'
  BY <1>1, <1>4, MonitorExitKeepsRecords
<1> QED
  BY <1>2, <1>3, <1>4 DEF Background

(* The iterations measure nothing.                                          *)
LEMMA LoopKeepsRecords ==
  ASSUME TrainerTypes, PerfInv, 1 \in Ranks, Loop(1)
  PROVE  PerfInv'
<1>1. /\ case' = case /\ step' = step /\ UNCHANGED perfVars
      /\ stage[1] \in Stepping
  BY DEF Loop, BeginLoop, TrainMinibatch, AfterReduce, NotMeasured, Stepping, Looping
<1>2. stage'[1] \in Stepping \cup {"raised"}
  <2>1. CASE BeginLoop(1)
    <3>1. stage' = [stage EXCEPT ![1] = "train"] \/ stage' = [stage EXCEPT ![1] = "raised"]
      BY <2>1 DEF BeginLoop, Enter, Raise
    <3> QED
      BY <3>1 DEF TrainerTypes, Stepping, Looping
  <2>2. CASE TrainMinibatch(1)
    <3>1. stage' = [stage EXCEPT ![1] = "reduce"] \/ stage' = [stage EXCEPT ![1] = "raised"]
      BY <2>2 DEF TrainMinibatch, Enter, Raise
    <3> QED
      BY <3>1 DEF TrainerTypes, Stepping, Looping
  <2>3. CASE AfterReduce(1)
    <3>1. \/ stage' = [stage EXCEPT ![1] = "finish"] \/ stage' = [stage EXCEPT ![1] = "train"]
          \/ stage' = [stage EXCEPT ![1] = "raised"]
      BY <2>3 DEF AfterReduce, NextInLoop, Enter, Raise
    <3> QED
      BY <3>1 DEF TrainerTypes, Stepping, Looping
  <2> QED
    BY <2>1, <2>2, <2>3 DEF Loop
<1> QED
  BY <1>1, <1>2, PerfStands

(* Every step.                                                               *)
LEMMA PerfInvStep ==
  ASSUME TrainerInv, PerfTypes, PerfInv, [Next]_vars
  PROVE  PerfInv'
<1>0. TrainerTypes /\ case \in Cases /\ 1 \in Ranks
  BY CaseFacts DEF TrainerInv, TrainerTypes, Ranks
<1>1. CASE Write \/ Done \/ UNCHANGED vars
  <2>1. case' = case /\ stage' = stage /\ step' = step /\ UNCHANGED perfVars
    BY <1>1 DEF Write, WriteEpisode, NotMeasured, Done, vars, rankVars
  <2> QED
    BY <2>1, PerfStands
<1>2. CASE AllReduce
  <2>1. /\ case' = case /\ step' = step /\ UNCHANGED perfVars
        /\ \A r \in Live : stage[r] = "reduce"
        /\ stage' = [r \in Ranks |-> IF r \in Live THEN "reduced" ELSE stage[r]]
    BY <1>2 DEF AllReduce, Reduce, NotMeasured
  <2>2. stage'[1] = stage[1] \/ (stage[1] = "reduce" /\ stage'[1] = "reduced")
    BY <1>0, <2>1
  <2>3. "reduce" \in Stepping /\ "reduced" \in Stepping
    BY DEF Stepping, Looping
  <2> QED
    BY <2>1, <2>2, <2>3, PerfStands
<1>3. ASSUME NEW r \in Ranks, r # 1, RankNext(r) PROVE PerfInv'
  <2>1. UNCHANGED perfVars /\ RankSteps(r)
    BY <1>3 DEF RankNext, Construct, Begin, Load, Loop, Finish, Unwind, Leave, NotMeasured, Measured, RankSteps
  <2>2. SameRank(1)
    BY <1>0, <1>3, <2>1, Untouched
  <2>3. case' = case
    BY <1>3, <2>1, CaseIsFixed DEF TrainerNext
  <2> QED
    BY <2>1, <2>2, <2>3, PerfStands DEF SameRank
<1>4. CASE RankNext(1)
  BY <1>0, <1>4, ConstructKeepsRecords, BeginKeepsRecords, LoadKeepsRecords, LoopKeepsRecords,
     FinishKeepsRecords, UnwindKeepsRecords DEF RankNext
<1>5. CASE Drive \/ InitBackend \/ Background \/ ShutdownPerf
  BY <1>0, <1>5, DriveKeepsRecords, BackendKeepsRecords, BackgroundKeepsRecords, ShutdownKeepsRecords
<1> QED
  BY <1>1, <1>2, <1>3, <1>4, <1>5 DEF Next

(* Nothing is recorded at the start.                                        *)
LEMMA PerfInit ==
  ASSUME Init
  PROVE  PerfInv
<1>1. /\ case \in Cases /\ stage = [r \in Ranks |-> "new"] /\ teardown = "no" /\ store = "none"
      /\ timer = <<>> /\ rows = [f \in Families |-> <<>>] /\ scopes = [t \in Threads |-> <<>>]
      /\ window = [reader \in Readers |-> 0] /\ flusher = "absent"
      /\ monitor = [f \in Families |-> "absent"]
      /\ calls = [n \in Names |-> 0] /\ owed = [n \in Names |-> 0]
  BY DEF Init
<1>2. 1 \in Ranks /\ stage[1] = "new"
  BY <1>1, CaseFacts DEF Ranks
<1>3. ScopesNest
  <2>1. \A S : <<>> \in Seq(S) /\ Len(<<>>) <= 1
    OBVIOUS
  <2>2. DOMAIN scopes = Threads /\ scopes["main"] = <<>> /\ scopes["driver"] = <<>>
    BY <1>1 DEF Threads
  <2> QED
    BY <1>2, <2>1, <2>2 DEF ScopesNest, NestsAt, InStep, Stepping, Looping
<1>4. LifeIsOrdered
  BY <1>1, <1>2 DEF LifeIsOrdered, NothingYet
<1>5. CallsAreTimed
  <2>1. DOMAIN timer = {}
    BY <1>1
  <2> QED
    BY <1>1, <2>1 DEF CallsAreTimed, Closed, Counted
<1>6. RowsTile
  <2>1. DOMAIN rows = Families /\ rows["cpu"] = <<>> /\ rows["gpu"] = <<>>
    BY <1>1 DEF Families
  <2>2. window["monitor"] = 0 /\ window["checkpoint"] = 0 /\ window \in [Readers -> Nat]
    BY <1>1 DEF Readers
  <2>3. CpuRows(<<>>, window, case.faults) /\ \A U : GpuRows(<<>>, U)
    BY <2>2, NoRows
  <2>4. CpuTime \in Nat
    BY <1>1, CpuTimeIsSum, TimeOfCalls
  <2>5. \A reader \in Readers : window[reader] <= CpuTime
    BY <1>1, <2>4
  <2> QED
    BY <2>1, <2>2, <2>3, <2>5 DEF RowsTile
<1>7. FinalIsKept
  BY <1>1 DEF FinalIsKept
<1> QED
  BY <1>3, <1>4, <1>5, <1>6, <1>7 DEF PerfInv

(* Perf's invariant with the trainer's: its scopes, its life, its rows and   *)
(* its artifact, whatever threads, failures and teardown do.                 *)
THEOREM PerfInvariant == Spec => [](TrainerInv /\ PerfTypes /\ PerfInv)
<1>1. Init => PerfInv
  BY PerfInit
<1>2. TrainerInv /\ PerfTypes /\ PerfInv /\ [Next]_vars => PerfInv'
  BY PerfInvStep
<1> QED
  BY <1>1, <1>2, TrainingInvariant, PTL DEF Spec

-----------------------------------------------------------------------------
(* Sums of the report                                                       *)

(* The sum over the files that have a path.                                  *)
LEMMA CountsOfPath ==
  ASSUME NEW path, NEW S, NEW g, \A a \in S : g[a] = a.timing[path].count
  PROVE  MapThenSumSet(LAMBDA a : a.timing[path].count, S) = SumOf(g, S)
<1> DEFINE P(it) == it = [s \in SUBSET S |-> IF s = {} THEN 0
                            ELSE Pick(s).timing[path].count + it[s \ {Pick(s)}]]
<1>1. MapThenSumSet(LAMBDA a : a.timing[path].count, S) = (CHOOSE it : P(it))[S]
  BY DEF MapThenSumSet, MapThenFoldSet, Pick
<1>2. SumOf(g, S) = (CHOOSE it : IsTable(it, g, SUBSET S))[S]
  BY DEF SumOf, MapThenSumSet, MapThenFoldSet, Pick, IsTable
<1>3. \A it : P(it) <=> IsTable(it, g, SUBSET S)
  <2>1. \A s \in SUBSET S : s # {} => Pick(s) \in S
    BY DEF Pick
  <2> QED
    BY <2>1 DEF IsTable
<1>4. (CHOOSE it : P(it)) = (CHOOSE it : IsTable(it, g, SUBSET S))
  <2> HIDE DEF P
  <2> QED
    BY <1>3
<1> QED
  BY <1>1, <1>2, <1>4

LEMMA TimesOfPath ==
  ASSUME NEW path, NEW S, NEW g, \A a \in S : g[a] = a.timing[path].total
  PROVE  MapThenSumSet(LAMBDA a : a.timing[path].total, S) = SumOf(g, S)
<1> DEFINE P(it) == it = [s \in SUBSET S |-> IF s = {} THEN 0
                            ELSE Pick(s).timing[path].total + it[s \ {Pick(s)}]]
<1>1. MapThenSumSet(LAMBDA a : a.timing[path].total, S) = (CHOOSE it : P(it))[S]
  BY DEF MapThenSumSet, MapThenFoldSet, Pick
<1>2. SumOf(g, S) = (CHOOSE it : IsTable(it, g, SUBSET S))[S]
  BY DEF SumOf, MapThenSumSet, MapThenFoldSet, Pick, IsTable
<1>3. \A it : P(it) <=> IsTable(it, g, SUBSET S)
  <2>1. \A s \in SUBSET S : s # {} => Pick(s) \in S
    BY DEF Pick
  <2> QED
    BY <2>1 DEF IsTable
<1>4. (CHOOSE it : P(it)) = (CHOOSE it : IsTable(it, g, SUBSET S))
  <2> HIDE DEF P
  <2> QED
    BY <1>3
<1> QED
  BY <1>1, <1>2, <1>4

(* The sum over paths of a tree,                                             *)
LEMMA TimesOfTree ==
  ASSUME NEW tree, NEW S, NEW g, \A p \in S : g[p] = tree[p].total
  PROVE  MapThenSumSet(LAMBDA p : tree[p].total, S) = SumOf(g, S)
<1> DEFINE P(it) == it = [s \in SUBSET S |-> IF s = {} THEN 0
                            ELSE tree[Pick(s)].total + it[s \ {Pick(s)}]]
<1>1. MapThenSumSet(LAMBDA p : tree[p].total, S) = (CHOOSE it : P(it))[S]
  BY DEF MapThenSumSet, MapThenFoldSet, Pick
<1>2. SumOf(g, S) = (CHOOSE it : IsTable(it, g, SUBSET S))[S]
  BY DEF SumOf, MapThenSumSet, MapThenFoldSet, Pick, IsTable
<1>3. \A it : P(it) <=> IsTable(it, g, SUBSET S)
  <2>1. \A s \in SUBSET S : s # {} => Pick(s) \in S
    BY DEF Pick
  <2> QED
    BY <2>1 DEF IsTable
<1>4. (CHOOSE it : P(it)) = (CHOOSE it : IsTable(it, g, SUBSET S))
  <2> HIDE DEF P
  <2> QED
    BY <1>3
<1> QED
  BY <1>1, <1>2, <1>4

(* and of the rows of a table.                                               *)
LEMMA CountsOfRows ==
  ASSUME NEW timing, NEW S, NEW g, \A p \in S : g[p] = timing.rows[p].count
  PROVE  MapThenSumSet(LAMBDA p : timing.rows[p].count, S) = SumOf(g, S)
<1> DEFINE P(it) == it = [s \in SUBSET S |-> IF s = {} THEN 0
                            ELSE timing.rows[Pick(s)].count + it[s \ {Pick(s)}]]
<1>1. MapThenSumSet(LAMBDA p : timing.rows[p].count, S) = (CHOOSE it : P(it))[S]
  BY DEF MapThenSumSet, MapThenFoldSet, Pick
<1>2. SumOf(g, S) = (CHOOSE it : IsTable(it, g, SUBSET S))[S]
  BY DEF SumOf, MapThenSumSet, MapThenFoldSet, Pick, IsTable
<1>3. \A it : P(it) <=> IsTable(it, g, SUBSET S)
  <2>1. \A s \in SUBSET S : s # {} => Pick(s) \in S
    BY DEF Pick
  <2> QED
    BY <2>1 DEF IsTable
<1>4. (CHOOSE it : P(it)) = (CHOOSE it : IsTable(it, g, SUBSET S))
  <2> HIDE DEF P
  <2> QED
    BY <1>3
<1> QED
  BY <1>1, <1>2, <1>4

LEMMA OwnTimesOfRows ==
  ASSUME NEW timing, NEW S, NEW g, \A p \in S : g[p] = timing.rows[p].own
  PROVE  MapThenSumSet(LAMBDA p : timing.rows[p].own, S) = SumOf(g, S)
<1> DEFINE P(it) == it = [s \in SUBSET S |-> IF s = {} THEN 0
                            ELSE timing.rows[Pick(s)].own + it[s \ {Pick(s)}]]
<1>1. MapThenSumSet(LAMBDA p : timing.rows[p].own, S) = (CHOOSE it : P(it))[S]
  BY DEF MapThenSumSet, MapThenFoldSet, Pick
<1>2. SumOf(g, S) = (CHOOSE it : IsTable(it, g, SUBSET S))[S]
  BY DEF SumOf, MapThenSumSet, MapThenFoldSet, Pick, IsTable
<1>3. \A it : P(it) <=> IsTable(it, g, SUBSET S)
  <2>1. \A s \in SUBSET S : s # {} => Pick(s) \in S
    BY DEF Pick
  <2> QED
    BY <2>1 DEF IsTable
<1>4. (CHOOSE it : P(it)) = (CHOOSE it : IsTable(it, g, SUBSET S))
  <2> HIDE DEF P
  <2> QED
    BY <1>3
<1> QED
  BY <1>1, <1>2, <1>4

LEMMA SamplesOfOthers ==
  ASSUME NEW S, NEW g, \A a \in S : g[a] = a.resources["cpu"][SampleKey].mean[1]
  PROVE  MapThenSumSet(LAMBDA a : a.resources["cpu"][SampleKey].mean[1], S) = SumOf(g, S)
<1> DEFINE P(it) == it = [s \in SUBSET S |-> IF s = {} THEN 0
                            ELSE Pick(s).resources["cpu"][SampleKey].mean[1] + it[s \ {Pick(s)}]]
<1>1. MapThenSumSet(LAMBDA a : a.resources["cpu"][SampleKey].mean[1], S) = (CHOOSE it : P(it))[S]
  BY DEF MapThenSumSet, MapThenFoldSet, Pick
<1>2. SumOf(g, S) = (CHOOSE it : IsTable(it, g, SUBSET S))[S]
  BY DEF SumOf, MapThenSumSet, MapThenFoldSet, Pick, IsTable
<1>3. \A it : P(it) <=> IsTable(it, g, SUBSET S)
  <2>1. \A s \in SUBSET S : s # {} => Pick(s) \in S
    BY DEF Pick
  <2> QED
    BY <2>1 DEF IsTable
<1>4. (CHOOSE it : P(it)) = (CHOOSE it : IsTable(it, g, SUBSET S))
  <2> HIDE DEF P
  <2> QED
    BY <1>3
<1> QED
  BY <1>1, <1>2, <1>4

(* The sums of the report: what the files say of a path.                     *)
With(artifacts, path) == {a \in artifacts : path \in DOMAIN a.timing}
Paths(artifacts)      == UNION {DOMAIN a.timing : a \in artifacts}

LEMMA MergedCounts ==
  ASSUME NEW A, NEW path \in Paths(A), NEW g, \A a \in With(A, path) : g[a] = a.timing[path].count
  PROVE  MergeTiming(A)[path].count = SumOf(g, With(A, path))
<1> DEFINE S == With(A, path)
<1>1. MergeTiming(A)[path].count = MapThenSumSet(LAMBDA a : a.timing[path].count, S)
  BY DEF MergeTiming, With, Paths
<1>2. MapThenSumSet(LAMBDA a : a.timing[path].count, S) = SumOf(g, S)
  BY CountsOfPath
<1> QED
  BY <1>1, <1>2

LEMMA MergedTimes ==
  ASSUME NEW A, NEW path \in Paths(A), NEW g, \A a \in With(A, path) : g[a] = a.timing[path].total
  PROVE  MergeTiming(A)[path].total = SumOf(g, With(A, path))
<1> DEFINE S == With(A, path)
<1>1. MergeTiming(A)[path].total = MapThenSumSet(LAMBDA a : a.timing[path].total, S)
  BY DEF MergeTiming, With, Paths
<1>2. MapThenSumSet(LAMBDA a : a.timing[path].total, S) = SumOf(g, S)
  BY TimesOfPath
<1> QED
  BY <1>1, <1>2

(* The paths of a table of times: with a path those of all scopes around it.*)
Labels == STRING \cup Names   \* STRING, where a prover does not know a literal

IsTree(D) ==
  /\ IsFiniteSet(D) /\ D \subseteq Seq(Labels) \ {<<>>}
  /\ \A p \in D : \A n \in 1 .. Len(p) : SubSeq(p, 1, n) \in D

(* Of a tree no row is left out of the table.                               *)
LEMMA WholeTable ==
  ASSUME NEW tree, IsTree(DOMAIN tree)
  PROVE  TableOf(tree) = DOMAIN tree
BY DEF IsTree, TableOf

(* Every path but those of the roots has one parent.                        *)
Outer(p) == SubSeq(p, 1, Len(p) - 1)
Inner(D) == {p \in D : Len(p) # 1}

LEMMA OuterIsParent ==
  ASSUME NEW D, IsTree(D), NEW p \in Inner(D)
  PROVE  /\ Outer(p) \in D
         /\ \A q \in D : Outer(p) = q <=> Len(p) = Len(q) + 1 /\ IsPrefix(q, p)
<1>1. p \in Seq(Labels) /\ p # <<>> /\ Len(p) \in Nat /\ Len(p) # 0 /\ Len(p) # 1
  BY DEF IsTree, Inner
<1>2. Len(p) - 1 \in 1 .. Len(p) /\ Len(p) - 1 \in Int
  <2>1. \A n \in Nat : n # 0 /\ n # 1 => n - 1 \in 1 .. n /\ n - 1 \in Int
    OBVIOUS
  <2> QED
    BY <1>1, <2>1
<1>3. Outer(p) \in D
  BY <1>2 DEF IsTree, Inner, Outer
<1>4. Len(Outer(p)) = Len(p) - 1
  <2>1. \A i \in 1 .. Len(p) - 1 : p[i] \in Labels
    BY <1>1
  <2>2. Len(Outer(p)) = IF 1 <= Len(p) - 1 THEN Len(p) - 1 - 1 + 1 ELSE 0
    BY <1>2, <2>1, SubSeqProperties DEF Outer
  <2> QED
    BY <1>2, <2>2
<1>5. ASSUME NEW q \in D PROVE Outer(p) = q <=> Len(p) = Len(q) + 1 /\ IsPrefix(q, p)
  <2>1. q \in Seq(Labels) /\ Len(q) \in Nat /\ SubSeq(q, 1, Len(q)) = q
    BY SubSeqFull DEF IsTree
  <2>2. ASSUME Outer(p) = q PROVE Len(p) = Len(q) + 1 /\ IsPrefix(q, p)
    <3>1. Len(q) = Len(p) - 1 /\ SubSeq(p, 1, Len(q)) = q
      BY <1>4, <2>2 DEF Outer
    <3>2. Len(p) = Len(q) + 1 /\ Len(q) <= Len(p)
      BY <1>1, <3>1
    <3> QED
      BY <2>1, <3>1, <3>2 DEF IsPrefix
  <2>3. ASSUME Len(p) = Len(q) + 1, IsPrefix(q, p) PROVE Outer(p) = q
    <3>1. Len(q) = Len(p) - 1
      BY <1>1, <2>1, <2>3
    <3>2. q = SubSeq(p, 1, Len(q))
      BY <2>1, <2>3 DEF IsPrefix
    <3> QED
      BY <3>1, <3>2 DEF Outer
  <2> QED
    BY <2>2, <2>3
<1> QED
  BY <1>3, <1>5

(* The children of a scope are the paths it is the parent of.               *)
LEMMA ChildrenAreInner ==
  ASSUME NEW tree, IsTree(DOMAIN tree), NEW path \in DOMAIN tree
  PROVE  Children(tree, path) = {p \in Inner(DOMAIN tree) : Outer(p) = path}
<1> DEFINE D == DOMAIN tree
<1>1. ASSUME NEW p \in Children(tree, path) PROVE p \in Inner(D)
  <2>1. p \in D /\ Len(p) = Len(path) + 1
    BY <1>1 DEF Children
  <2>2. path \in Seq(Labels) /\ path # <<>>
    BY DEF IsTree
  <2>3. Len(path) \in Nat /\ Len(path) # 0
    BY <2>2
  <2>4. \A n \in Nat : n # 0 => n + 1 # 1
    OBVIOUS
  <2>5. Len(p) # 1
    BY <2>1, <2>3, <2>4
  <2> QED
    BY <2>1, <2>5 DEF Inner
<1>2. \A p \in Inner(D) : p \in D /\ (Outer(p) = path <=> Len(p) = Len(path) + 1 /\ IsPrefix(path, p))
  BY OuterIsParent DEF Inner
<1>3. \A p \in Inner(D) : p \in Children(tree, path) <=> Outer(p) = path
  <2> HIDE DEF D
  <2> QED
    BY <1>2 DEF Children, D
<1> QED
  BY <1>1, <1>3

(* The own times of all scopes are the time of the outermost: what a scope   *)
(* took is its own and its children's, and every scope but a root is a child *)
(* of one.                                                                    *)
LEMMA OwnTimesAddUp ==
  ASSUME NEW tree, IsTree(DOMAIN tree), \A p \in DOMAIN tree : tree[p].total \in Int,
         \A p \in DOMAIN TimingTable(tree).rows : TimingTable(tree).rows[p].own # NotApplicable
  PROVE  MapThenSumSet(LAMBDA p : TimingTable(tree).rows[p].own, DOMAIN TimingTable(tree).rows)
           = TimingTable(tree).total
<1> DEFINE D == DOMAIN tree
           T == TimingTable(tree)
           time == [p \in D |-> tree[p].total]
           inside == [p \in D |-> ChildrenTotal(tree, p)]
           own == [p \in D |-> T.rows[p].own]
           outer == [p \in Inner(D) |-> Outer(p)]
<1>1. /\ DOMAIN T.rows = D /\ T.total = RootTotal(tree)
      /\ \A p \in D : T.rows[p].own = IF NotStrict(tree, p) THEN NotApplicable ELSE Exclusive(tree, p)
  BY WholeTable DEF TimingTable
<1> HIDE DEF T
<1>2. MapThenSumSet(LAMBDA p : T.rows[p].own, DOMAIN T.rows) = SumOf(own, D)
  BY <1>1, OwnTimesOfRows
<1>3. IsFiniteSet(D) /\ \A s \in SUBSET D : IsFiniteSet(s)
  BY FS_Subset DEF IsTree
<1>4. \A p \in D : inside[p] = SumOf(time, {q \in Inner(D) : outer[q] = p})
  <2> SUFFICES ASSUME NEW p \in D PROVE ChildrenTotal(tree, p) = SumOf(time, {q \in Inner(D) : Outer(q) = p})
    OBVIOUS
  <2>1. Children(tree, p) = {q \in Inner(D) : Outer(q) = p} /\ Children(tree, p) \subseteq D
    BY ChildrenAreInner DEF Children
  <2>2. ChildrenTotal(tree, p) = SumOf(time, Children(tree, p))
    <3>1. \A q \in Children(tree, p) : time[q] = tree[q].total
      BY <2>1
    <3> HIDE DEF time, D
    <3> QED
      BY <3>1, TimesOfTree DEF ChildrenTotal
  <2> QED
    BY <2>1, <2>2
<1>5. Inner(D) \subseteq D /\ IsFiniteSet(Inner(D)) /\ \A q \in Inner(D) : outer[q] \in D
  BY <1>3, OuterIsParent DEF Inner
<1>6. SumOf(inside, D) = SumOf(time, Inner(D))
  <2>1. \A q \in Inner(D) : time[q] \in Int
    BY <1>5
  <2> DEFINE N == Inner(D)
  <2>2. IsFiniteSet(N) /\ IsFiniteSet(D)
    BY <1>3, <1>5
  <2>3. \A q \in N : outer[q] \in D
    BY <1>5
  <2>4. \A q \in N : time[q] \in Int
    BY <2>1
  <2> DEFINE parts == [p \in D |-> {q \in N : outer[q] = p}]
  <2>5. \A p \in D : parts[p] = {q \in N : outer[q] = p} /\ inside[p] = SumOf(time, parts[p])
    BY <1>4
  <2> HIDE DEF inside, time, outer, N, D, parts
  <2>6. SumOf(inside, D) = SumOf(time, N)
    BY <2>2, <2>3, <2>4, <2>5, SumOfParts
  <2> QED
    BY <2>6 DEF N
<1>7. SumOf(time, D) = SumOf(time, Inner(D)) + SumOf(time, Roots(tree))
  <2>1. Roots(tree) \subseteq D /\ Inner(D) \cup Roots(tree) = D /\ Inner(D) \cap Roots(tree) = {}
    BY DEF Roots, Inner
  <2>2. \A p \in Inner(D) \cup Roots(tree) : time[p] \in Int
    BY <2>1
  <2> HIDE DEF time, D
  <2>3. SumOf(time, Inner(D) \cup Roots(tree)) = SumOf(time, Inner(D)) + SumOf(time, Roots(tree))
    BY <1>3, <2>1, <2>2, SumOfUnion
  <2> QED
    BY <2>1, <2>3
<1>8. RootTotal(tree) = SumOf(time, Roots(tree))
  <2>1. \A p \in Roots(tree) : time[p] = tree[p].total
    BY DEF Roots
  <2> HIDE DEF time
  <2> QED
    BY <2>1, TimesOfTree DEF RootTotal
<1>9. \A p \in D : inside[p] \in Int /\ own[p] \in Int /\ time[p] = inside[p] + own[p]
  <2> SUFFICES ASSUME NEW p \in D PROVE inside[p] \in Int /\ own[p] \in Int /\ time[p] = inside[p] + own[p]
    OBVIOUS
  <2>1. inside[p] \in Int
    <3>1. {q \in Inner(D) : outer[q] = p} \in SUBSET D /\ \A q \in D : time[q] \in Int
      BY <1>5
    <3> HIDE DEF inside, time, outer, D
    <3>2. SumOf(time, {q \in Inner(D) : outer[q] = p}) \in Int
      BY <1>3, <3>1, SumTakes
    <3> QED
      BY <1>4, <3>2
  <2>2. own[p] = Exclusive(tree, p)
    BY <1>1 DEF T
  <2>3. own[p] = tree[p].total - inside[p] /\ time[p] = tree[p].total /\ tree[p].total \in Int
    BY <2>2 DEF Exclusive
  <2> HIDE DEF inside, own, time
  <2> QED
    BY <2>1, <2>3
<1>10. SumOf(time, D) = SumOf(inside, D) + SumOf(own, D)
  <2> HIDE DEF inside, own, time, D
  <2> QED
    BY <1>3, <1>9, SumOfBoth
<1>11. SumOf(own, D) \in Int /\ SumOf(inside, D) \in Int /\ SumOf(time, Roots(tree)) \in Int
  <2>1. Roots(tree) \in SUBSET D /\ D \in SUBSET D /\ \A p \in D : time[p] \in Int
    BY DEF Roots
  <2> HIDE DEF inside, own, time, D
  <2> QED
    BY <1>3, <1>9, <2>1, SumTakes
<1>12. SumOf(own, D) = SumOf(time, Roots(tree))
  <2> HIDE DEF inside, own, time, D
  <2> QED
    BY <1>6, <1>7, <1>10, <1>11
<1> QED
  BY <1>1, <1>2, <1>8, <1>12 DEF T

(* What is merged: artifacts whose tables of times are trees.                *)
AreTimed(A) ==
  /\ IsFiniteSet(A)
  /\ \A a \in A : IsTree(DOMAIN a.timing) /\ TimesOf(a.timing)

LEMMA MergedTree ==
  ASSUME NEW A, AreTimed(A)
  PROVE  /\ DOMAIN MergeTiming(A) = Paths(A) /\ IsTree(Paths(A))
         /\ \A p \in Paths(A) : MergeTiming(A)[p].count \in Int /\ MergeTiming(A)[p].total \in Int
<1>1. DOMAIN MergeTiming(A) = Paths(A)
  BY DEF MergeTiming, Paths
<1>2. IsFiniteSet(Paths(A))
  <2> DEFINE doms == {DOMAIN a.timing : a \in A}
  <2>1. IsFiniteSet(doms)
    <3> DEFINE of == [a \in A |-> DOMAIN a.timing]
    <3>1. of \in Surjection(A, doms)
      BY DEF Surjection
    <3> QED
      BY <3>1, FS_Surjection DEF AreTimed
  <2>2. \A D \in doms : IsFiniteSet(D)
    BY DEF AreTimed, IsTree
  <2> HIDE DEF doms
  <2>3. IsFiniteSet(UNION doms)
    BY <2>1, <2>2, FS_UNION
  <2> QED
    BY <2>3 DEF Paths, doms
<1>3. IsTree(Paths(A))
  BY <1>2 DEF IsTree, Paths, AreTimed
<1>4. ASSUME NEW p \in Paths(A)
      PROVE  MergeTiming(A)[p].count \in Int /\ MergeTiming(A)[p].total \in Int
  <2> DEFINE S == With(A, p)
             counts == [a \in S |-> a.timing[p].count]
             totals == [a \in S |-> a.timing[p].total]
  <2>1. MergeTiming(A)[p].count = SumOf(counts, S)
    BY MergedCounts
  <2>2. MergeTiming(A)[p].total = SumOf(totals, S)
    BY MergedTimes
  <2>3. IsFiniteSet(S) /\ \A a \in S : counts[a] \in Int /\ totals[a] \in Int
    BY FS_Subset DEF AreTimed, With, TimesOf
  <2> HIDE DEF S, counts, totals
  <2>4. SumOf(counts, S) \in Int /\ SumOf(totals, S) \in Int
    BY <2>3, SumType
  <2> QED
    BY <2>1, <2>2, <2>4
<1> QED
  BY <1>1, <1>3, <1>4

(* One artifact more: what it counts is added, path by path,                 *)
CountAt(timing, path) == IF path \in DOMAIN timing THEN timing[path].count ELSE 0

LEMMA CountsAreAdded ==
  ASSUME NEW A, NEW x, x \notin A, AreTimed(A \cup {x}), AreTimed(A), NEW path \in Paths(A \cup {x})
  PROVE  MergeTiming(A \cup {x})[path].count = CountAt(x.timing, path) + CountAt(MergeTiming(A), path)
<1> DEFINE B == A \cup {x}
           S == With(A, path)
           c == [a \in B |-> a.timing[path].count]
<1>1. MergeTiming(B)[path].count = SumOf(c, With(B, path))
  <2>1. \A a \in With(B, path) : c[a] = a.timing[path].count
    BY DEF With
  <2> HIDE DEF c, B
  <2> QED
    BY <2>1, MergedCounts DEF B
<1>2. IsFiniteSet(S) /\ x \notin S /\ \A a \in With(B, path) : c[a] \in Int
  BY FS_Subset DEF With, AreTimed, TimesOf
<1>3. SumOf(c, S) = CountAt(MergeTiming(A), path)
  <2>1. DOMAIN MergeTiming(A) = Paths(A)
    BY MergedTree
  <2>2. CASE path \in Paths(A)
    <3>1. \A a \in S : c[a] = a.timing[path].count
      BY DEF With
    <3>2. MergeTiming(A)[path].count = SumOf(c, S)
      <4> HIDE DEF c
      <4> QED
        BY <2>2, <3>1, MergedCounts
    <3> QED
      BY <2>1, <2>2, <3>2 DEF CountAt
  <2>3. CASE path \notin Paths(A)
    <3>1. S = {}
      BY <2>3 DEF With, Paths
    <3> QED
      BY <2>1, <2>3, <3>1, SumOfNone DEF CountAt
  <2> QED
    BY <2>2, <2>3
<1>4. SumOf(c, S) \in Int
  <2>1. \A a \in S : c[a] \in Int
    BY <1>2 DEF With
  <2> HIDE DEF c, S
  <2> QED
    BY <1>2, <2>1, SumType
<1>5. CASE path \in DOMAIN x.timing
  <2>1. With(B, path) = S \cup {x} /\ c[x] = CountAt(x.timing, path) /\ c[x] \in Int
    BY <1>2, <1>5 DEF With, CountAt
  <2> HIDE DEF c, S, B
  <2>2. SumOf(c, S \cup {x}) = c[x] + SumOf(c, S)
    BY <1>2, <2>1, SumWith
  <2> QED
    BY <1>1, <1>3, <1>4, <2>1, <2>2 DEF B
<1>6. CASE path \notin DOMAIN x.timing
  <2>1. With(B, path) = S /\ CountAt(x.timing, path) = 0
    BY <1>6 DEF With, CountAt
  <2> HIDE DEF c, S, B
  <2> QED
    BY <1>1, <1>3, <1>4, <2>1 DEF B
<1> QED
  BY <1>5, <1>6

(* and name by name, where its paths are those of the timed calls.           *)
LEMMA TimedNames ==
  /\ \A n \in Names : Last(PathOf(n)) = n
  /\ \A p \in TimedPaths : p = PathOf(Last(p))
<1>1. Last(StepPath) = "trainer/step" /\ Last(DrivePath) = "driver/drive"
  BY DEF StepPath, DrivePath, Last
<1>2. Last(LoadPath) = "trainer/artifact_load" /\ Last(ReadPath) = "trainer/artifact_load/disk_read"
  BY ShortPaths DEF LoadPath, ReadPath
<1> QED
  BY <1>1, <1>2 DEF Names, PathOf, TimedPaths

LEMMA NamesAreAdded ==
  ASSUME NEW A, NEW x, x \notin A, AreTimed(A \cup {x}), AreTimed(A), DOMAIN x.timing \subseteq TimedPaths,
         NEW n \in Names
  PROVE  /\ CountsByName(TimingTable(MergeTiming(A \cup {x})), n)
              = Counted(x.timing, n) + CountsByName(TimingTable(MergeTiming(A)), n)
         /\ CountsByName(TimingTable(MergeTiming(A)), n) \in Int
<1> DEFINE B == A \cup {x}
           all == TimingTable(MergeTiming(B))
           others == TimingTable(MergeTiming(A))
           Q == {p \in Paths(B) : Last(p) = n}
           R == {p \in Paths(A) : Last(p) = n}
           k == [p \in Paths(B) |-> MergeTiming(B)[p].count]
           g == [p \in Paths(B) |-> CountAt(x.timing, p)]
           h == [p \in Paths(B) |-> CountAt(MergeTiming(A), p)]
<1>1. /\ DOMAIN MergeTiming(B) = Paths(B) /\ IsTree(Paths(B))
      /\ DOMAIN MergeTiming(A) = Paths(A) /\ IsTree(Paths(A))
      /\ \A p \in Paths(B) : k[p] \in Int
      /\ \A p \in Paths(A) : MergeTiming(A)[p].count \in Int
  BY MergedTree
<1>2. /\ DOMAIN all.rows = Paths(B) /\ \A p \in Paths(B) : all.rows[p].count = MergeTiming(B)[p].count
      /\ DOMAIN others.rows = Paths(A) /\ \A p \in Paths(A) : others.rows[p].count = MergeTiming(A)[p].count
  BY <1>1, WholeTable DEF TimingTable
<1> HIDE DEF all, others
<1>3. Paths(A) \subseteq Paths(B) /\ DOMAIN x.timing \subseteq Paths(B)
  BY DEF Paths
<1>4. CountsByName(all, n) = SumOf(k, Q)
  <2>1. {p \in DOMAIN all.rows : Last(p) = n} = Q /\ \A p \in Q : k[p] = all.rows[p].count
    BY <1>2
  <2> HIDE DEF Q, k
  <2> QED
    BY <2>1, CountsOfRows DEF CountsByName
<1>5. CountsByName(others, n) = SumOf(h, R)
  <2>1. {p \in DOMAIN others.rows : Last(p) = n} = R /\ \A p \in R : h[p] = others.rows[p].count
    BY <1>1, <1>2, <1>3 DEF CountAt
  <2> HIDE DEF R, h
  <2> QED
    BY <2>1, CountsOfRows DEF CountsByName
<1>6. IsFiniteSet(Q) /\ R \in SUBSET Q /\ IsFiniteSet(R)
  BY <1>1, <1>3, FS_Subset DEF IsTree
<1>7. \A p \in Paths(B) : g[p] \in Int /\ h[p] \in Int /\ k[p] = g[p] + h[p]
  <2> SUFFICES ASSUME NEW p \in Paths(B) PROVE g[p] \in Int /\ h[p] \in Int /\ k[p] = g[p] + h[p]
    OBVIOUS
  <2>1. CountAt(x.timing, p) \in Int
    BY DEF CountAt, AreTimed, TimesOf
  <2>2. CountAt(MergeTiming(A), p) \in Int
    BY <1>1 DEF CountAt
  <2>3. MergeTiming(B)[p].count = CountAt(x.timing, p) + CountAt(MergeTiming(A), p)
    BY CountsAreAdded
  <2> QED
    BY <2>1, <2>2, <2>3
<1>8. SumOf(k, Q) = SumOf(g, Q) + SumOf(h, Q)
  <2>1. \A p \in Q : g[p] \in Int /\ h[p] \in Int /\ k[p] = g[p] + h[p]
    BY <1>7
  <2> HIDE DEF Q, k, g, h
  <2> QED
    BY <1>6, <2>1, SumOfBoth
<1>9. SumOf(h, Q) = SumOf(h, R) /\ SumOf(h, R) \in Int
  <2>1. /\ \A p \in R : h[p] \in Int
        /\ \A p \in Q \ R : h[p] = 0
    BY <1>1, <1>3, <1>7 DEF CountAt
  <2> HIDE DEF Q, R, h
  <2> QED
    BY <1>6, <2>1, SumOfZeros, SumType
<1>10. SumOf(g, Q) = Counted(x.timing, n)
  <2> DEFINE own == Q \cap {PathOf(n)}
  <2>1. own \in SUBSET Q /\ (\A p \in own : g[p] \in Int) /\ \A p \in Q \ own : g[p] = 0
    <3>1. \A p \in Q : p \in DOMAIN x.timing => p = PathOf(n)
      BY TimedNames
    <3> QED
      BY <1>7, <3>1 DEF CountAt
  <2>2. SumOf(g, Q) = SumOf(g, own)
    <3> HIDE DEF Q, g, own
    <3> QED
      BY <1>6, <2>1, SumOfZeros
  <2>3. CASE PathOf(n) \in Paths(B)
    <3>1. own = {PathOf(n)} /\ g[PathOf(n)] = Counted(x.timing, n) /\ g[PathOf(n)] \in Int
      BY <1>7, <2>3, TimedNames DEF CountAt, Counted
    <3> HIDE DEF g, own
    <3>2. SumOf(g, {PathOf(n)}) = g[PathOf(n)]
      BY <3>1, SumOfOne
    <3> QED
      BY <2>2, <3>1, <3>2
  <2>4. CASE PathOf(n) \notin Paths(B)
    <3>1. own = {} /\ Counted(x.timing, n) = 0
      BY <1>3, <2>4 DEF Counted
    <3> HIDE DEF own
    <3> QED
      BY <2>2, <3>1, SumOfNone
  <2> QED
    BY <2>3, <2>4
<1> HIDE DEF k, g, h, Q, R
<1>11. CountsByName(all, n) = Counted(x.timing, n) + CountsByName(others, n)
  BY <1>4, <1>5, <1>8, <1>9, <1>10
<1> QED
  BY <1>5, <1>9, <1>11 DEF all, others

(* The pooled mean of rows whose readings all were seen is that of all       *)
(* readings.                                                                  *)
CellCount(group, cell) == MapThenSumSet(LAMBDA a : cell[a].count, group)
CellTotal(group, cell) == MapThenSumSet(LAMBDA a : (cell[a].mean[1] * cell[a].count) \div cell[a].mean[2], group)

LEMMA CellTotalIsSum ==
  ASSUME NEW S, NEW cell, NEW g,
         \A a \in S : g[a] = (cell[a].mean[1] * cell[a].count) \div cell[a].mean[2]
  PROVE  CellTotal(S, cell) = SumOf(g, S)
<1> DEFINE mean(a) == (cell[a].mean[1] * cell[a].count) \div cell[a].mean[2]
           P(it) == it = [s \in SUBSET S |-> IF s = {} THEN 0 ELSE mean(Pick(s)) + it[s \ {Pick(s)}]]
<1>1. CellTotal(S, cell) = (CHOOSE it : P(it))[S]
  BY DEF CellTotal, MapThenSumSet, MapThenFoldSet, Pick
<1>2. SumOf(g, S) = (CHOOSE it : IsTable(it, g, SUBSET S))[S]
  BY DEF SumOf, MapThenSumSet, MapThenFoldSet, Pick, IsTable
<1>3. \A it : P(it) <=> IsTable(it, g, SUBSET S)
  <2>1. \A s \in SUBSET S : s # {} => mean(Pick(s)) = g[Pick(s)]
    BY DEF Pick
  <2> HIDE DEF mean
  <2> QED
    BY <2>1 DEF IsTable
<1>4. (CHOOSE it : P(it)) = (CHOOSE it : IsTable(it, g, SUBSET S))
  <2> HIDE DEF P
  <2> QED
    BY <1>3
<1> QED
  BY <1>1, <1>2, <1>4

LEMMA MeansArePooled ==
  ASSUME NEW group, IsFiniteSet(group), group # {}, NEW cell, NEW g,
         \A a \in group : /\ cell[a].count \in Nat \ {0} /\ cell[a].mean[1] \in Nat
                          /\ cell[a].mean[2] = cell[a].count /\ g[a] = cell[a].mean[1]
  PROVE  PooledMean(group, cell) = <<SumOf(g, group), CellCount(group, cell)>>
<1>1. {a \in group : cell[a].mean[2] > 0} = group
  OBVIOUS
<1>2. PooledMean(group, cell) = <<CellTotal(group, cell), CellCount(group, cell)>>
  BY <1>1 DEF PooledMean, CellTotal, CellCount
<1>3. \A a \in group : g[a] = (cell[a].mean[1] * cell[a].count) \div cell[a].mean[2]
  <2> SUFFICES ASSUME NEW a \in group
               PROVE  g[a] = (cell[a].mean[1] * cell[a].count) \div cell[a].mean[2]
    OBVIOUS
  <2>1. /\ cell[a].count \in Nat \ {0} /\ cell[a].mean[1] \in Nat
        /\ cell[a].mean[2] = cell[a].count /\ g[a] = cell[a].mean[1]
    OBVIOUS
  <2>2. (cell[a].mean[1] * cell[a].count) \div cell[a].count = cell[a].mean[1]
    BY <2>1, Blocks
  <2> QED
    BY <2>1, <2>2
<1>4. CellTotal(group, cell) = SumOf(g, group)
  BY <1>3, CellTotalIsSum
<1> QED
  BY <1>2, <1>4

(* The row of the samples of one rank, one artifact more.                    *)
LEMMA SamplesArePooled ==
  ASSUME NEW A, NEW x, x \notin A, IsFiniteSet(A), x.rank = 0,
         \A a \in A \cup {x} : SampleKey \in DOMAIN a.resources["cpu"] =>
           LET cell == a.resources["cpu"][SampleKey] IN
           cell.count \in Nat \ {0} /\ cell.mean[1] \in Nat /\ cell.mean[2] = cell.count,
         SampleKey \in DOMAIN x.resources["cpu"]
  PROVE  LET row    == CpuTable(A \cup {x}, AnyCapture)[<<SampleKey, 0>>]
             theirs == MapThenSumSet(LAMBDA a : a.resources["cpu"][SampleKey].mean[1],
                                     Keyed(A, "cpu", SampleKey, 0)) IN
         row.mean[1] = x.resources["cpu"][SampleKey].mean[1] + theirs /\ row.mean[2] = row.count
<1> DEFINE B == A \cup {x}
           group == Keyed(B, "cpu", SampleKey, 0)
           rest == Keyed(A, "cpu", SampleKey, 0)
           cell == [a \in group |-> a.resources["cpu"][SampleKey]]
           g == [a \in group |-> a.resources["cpu"][SampleKey].mean[1]]
           row == CpuTable(B, AnyCapture)[<<SampleKey, 0>>]
           theirs == MapThenSumSet(LAMBDA a : a.resources["cpu"][SampleKey].mean[1], rest)
<1>1. group = rest \cup {x} /\ x \notin rest /\ rest \subseteq A
  BY DEF Keyed
<1>2. IsFiniteSet(rest) /\ IsFiniteSet(group) /\ group # {}
  <2>1. IsFiniteSet(rest)
    BY <1>1, FS_Subset
  <2> HIDE DEF rest, group
  <2> QED
    BY <1>1, <2>1, FS_AddElement
<1>3. row = ResourceRow(B, "cpu", SampleKey, 0)
  <2> DEFINE keys == RowKeys(B, "cpu", AnyCapture)
  <2>1. SampleKey \in UNION {DOMAIN b.resources["cpu"] : b \in B}
    OBVIOUS
  <2>2. AnyCapture \in {AnyCapture, SampleKey.capture}
    OBVIOUS
  <2>3. <<SampleKey, x.rank>> \in keys
    BY <2>1, <2>2 DEF RowKeys
  <2>4. <<SampleKey, 0>> \in {k \in keys : Keyed(B, "cpu", k[1], k[2]) # {}}
    BY <1>2, <2>3
  <2> HIDE DEF keys, B
  <2>5. CpuTable(B, AnyCapture) = [k \in {k \in keys : Keyed(B, "cpu", k[1], k[2]) # {}} |->
                                     ResourceRow(B, "cpu", k[1], k[2])]
    BY DEF CpuTable, ResourceTable, keys
  <2> QED
    BY <2>4, <2>5
<1> HIDE DEF row
<1>4. \A a \in group : /\ cell[a].count \in Nat \ {0} /\ cell[a].mean[1] \in Nat
                       /\ cell[a].mean[2] = cell[a].count /\ g[a] = cell[a].mean[1]
  BY DEF Keyed
<1>5. row.count = CellCount(group, cell) /\ row.mean = PooledMean(group, cell)
  BY <1>3 DEF ResourceRow, CellCount
<1>6. PooledMean(group, cell) = <<SumOf(g, group), CellCount(group, cell)>>
  <2> HIDE DEF group, cell, g
  <2> QED
    BY <1>2, <1>4, MeansArePooled
<1>7. theirs = SumOf(g, rest)
  <2>1. \A a \in rest : g[a] = a.resources["cpu"][SampleKey].mean[1]
    BY <1>1
  <2> HIDE DEF g, rest
  <2> QED
    BY <2>1, SamplesOfOthers
<1>8. SumOf(g, group) = g[x] + SumOf(g, rest)
  <2>1. \A a \in group : g[a] \in Int
    <3> HIDE DEF g, group, cell
    <3> QED
      BY <1>4
  <2> HIDE DEF g, group, rest
  <2> QED
    BY <1>1, <1>2, <2>1, SumWith
<1>9. g[x] = x.resources["cpu"][SampleKey].mean[1]
  BY <1>1
<1> HIDE DEF theirs, g, group, cell
<1>10. row.mean[1] = SumOf(g, group) /\ row.mean[2] = row.count
  BY <1>5, <1>6
<1>11. row.mean[1] = x.resources["cpu"][SampleKey].mean[1] + theirs
  BY <1>7, <1>8, <1>9, <1>10
<1> QED
  BY <1>10, <1>11 DEF row, theirs

-----------------------------------------------------------------------------
(* The report over the final artifact                                       *)

(* The artifacts of the other workers, and that of the teardown.             *)
LEMMA OthersAreTimed ==
  ASSUME case \in Cases, NEW A \in SUBSET case.others
  PROVE  /\ AreTimed(A)
         /\ \A a \in A : /\ a.pid # 1
                         /\ SampleKey \in DOMAIN a.resources["cpu"] =>
                              LET cell == a.resources["cpu"][SampleKey] IN
                              cell.count \in Nat \ {0} /\ cell.mean[1] \in Nat /\ cell.mean[2] = cell.count
<1>1. /\ IsFiniteSet(case.others)
      /\ \A a \in case.others :
           /\ a.pid # 1 /\ IsFiniteSet(DOMAIN a.timing)
           /\ \A path \in DOMAIN a.timing :
                /\ path \in Seq(STRING) \ {<<>>}
                /\ {a.timing[path].count, a.timing[path].total} \subseteq Nat
                /\ \A n \in 1 .. Len(path) : SubSeq(path, 1, n) \in DOMAIN a.timing
           /\ \A key \in DOMAIN a.resources["cpu"] : LET cell == a.resources["cpu"][key] IN
                cell.count \in Nat \ {0} /\ cell.mean[1] \in Nat /\ cell.mean[2] = cell.count
  BY PerfAssumption
<1>2. IsFiniteSet(A)
  BY <1>1, FS_Subset
<1>3. \A a \in A : IsTree(DOMAIN a.timing) /\ TimesOf(a.timing)
  <2>1. Seq(STRING) \subseteq Seq(Labels)
    BY DEF Labels
  <2> QED
    BY <1>1, <2>1 DEF IsTree, TimesOf
<1>4. AreTimed(A)
  BY <1>2, <1>3 DEF AreTimed
<1>5. \A a \in A : /\ a.pid # 1
                   /\ SampleKey \in DOMAIN a.resources["cpu"] =>
                        LET cell == a.resources["cpu"][SampleKey] IN
                        cell.count \in Nat \ {0} /\ cell.mean[1] \in Nat /\ cell.mean[2] = cell.count
  BY <1>1
<1> QED
  BY <1>4, <1>5

(* The prefixes of a short path.                                            *)
LEMMA PrefixIs ==
  ASSUME NEW S, NEW s \in Seq(S), NEW r \in Seq(S), Len(r) <= Len(s), \A i \in 1 .. Len(r) : s[i] = r[i]
  PROVE  SubSeq(s, 1, Len(r)) = r
<1>1. Len(r) \in Nat /\ Len(r) \in Int /\ \A i \in 1 .. Len(r) : r[i] \in S
  OBVIOUS
<1>2. \A i \in 1 .. Len(r) : s[i] \in S
  BY <1>1
<1> DEFINE n == Len(r)
           t == SubSeq(s, 1, n)
<1>3. /\ t \in Seq(S) /\ Len(t) = IF 1 <= n THEN n - 1 + 1 ELSE 0
      /\ \A i \in 1 .. n - 1 + 1 : t[i] = s[1 + i - 1]
  <2> HIDE DEF n
  <2>1. n \in Int /\ 1 \in Int /\ \A i \in 1 .. n : s[i] \in S
    BY <1>1, <1>2 DEF n
  <2> QED
    BY <2>1, SubSeqProperties
<1> HIDE DEF t
<1>4. Len(t) = n /\ \A i \in 1 .. n : t[i] = s[i]
  <2>1. /\ \A k \in Nat : k - 1 + 1 = k
        /\ \A k \in Nat : (IF 1 <= k THEN k ELSE 0) = k
        /\ \A i \in Nat : 1 + i - 1 = i
    OBVIOUS
  <2> QED
    BY <1>1, <1>3, <2>1
<1>5. \A i \in 1 .. Len(t) : t[i] = r[i]
  BY <1>4
<1> QED
  BY <1>3, <1>4, <1>5, SeqEqual DEF t

LEMMA ShortPrefixes ==
  ASSUME NEW S, NEW a \in S, NEW b \in S, NEW c \in S
  PROVE  /\ <<a>> \in Seq(S) /\ <<a, b>> \in Seq(S) /\ <<a, b, c>> \in Seq(S)
         /\ Len(<<a>>) = 1 /\ Len(<<a, b>>) = 2 /\ Len(<<a, b, c>>) = 3
         /\ SubSeq(<<a, b>>, 1, 1) = <<a>>
         /\ SubSeq(<<a, b, c>>, 1, 1) = <<a>> /\ SubSeq(<<a, b, c>>, 1, 2) = <<a, b>>
<1>1. <<a>> \in Seq(S) /\ <<a, b>> \in Seq(S) /\ <<a, b, c>> \in Seq(S)
  OBVIOUS
<1>2. Len(<<a>>) = 1 /\ Len(<<a, b>>) = 2 /\ Len(<<a, b, c>>) = 3
  OBVIOUS
<1>3. SubSeq(<<a, b>>, 1, 1) = <<a>>
  <2>1. \A i \in 1 .. Len(<<a>>) : <<a, b>>[i] = <<a>>[i]
    OBVIOUS
  <2>2. Len(<<a>>) <= Len(<<a, b>>)
    BY <1>2
  <2>3. SubSeq(<<a, b>>, 1, Len(<<a>>)) = <<a>>
    BY <1>1, <2>1, <2>2, PrefixIs
  <2> QED
    BY <1>2, <2>3
<1>4. SubSeq(<<a, b, c>>, 1, 1) = <<a>>
  <2>1. \A i \in 1 .. Len(<<a>>) : <<a, b, c>>[i] = <<a>>[i]
    OBVIOUS
  <2>2. Len(<<a>>) <= Len(<<a, b, c>>)
    BY <1>2
  <2>3. SubSeq(<<a, b, c>>, 1, Len(<<a>>)) = <<a>>
    BY <1>1, <2>1, <2>2, PrefixIs
  <2> QED
    BY <1>2, <2>3
<1>5. SubSeq(<<a, b, c>>, 1, 2) = <<a, b>>
  <2>1. \A i \in 1 .. Len(<<a, b>>) : <<a, b, c>>[i] = <<a, b>>[i]
    <3>1. <<a, b, c>>[1] = a /\ <<a, b, c>>[2] = b /\ <<a, b>>[1] = a /\ <<a, b>>[2] = b
      OBVIOUS
    <3>2. \A i \in 1 .. 2 : i = 1 \/ i = 2
      OBVIOUS
    <3> QED
      BY <1>2, <3>1, <3>2
  <2>2. Len(<<a, b>>) <= Len(<<a, b, c>>)
    BY <1>2
  <2>3. SubSeq(<<a, b, c>>, 1, Len(<<a, b>>)) = <<a, b>>
    BY <1>1, <2>1, <2>2, PrefixIs
  <2> QED
    BY <1>2, <2>3
<1> QED
  BY <1>1, <1>2, <1>3, <1>4, <1>5

(* What one process times is a tree.                                        *)
LEMMA ClosedIsTree ==
  ASSUME NEW timing, Closed(timing), LoadPath \in DOMAIN timing => StepPath \in DOMAIN timing
  PROVE  IsTree(DOMAIN timing) /\ TimesOf(timing)
<1>1. /\ StepPath \in Seq(Labels) /\ LoadPath \in Seq(Labels)
      /\ ReadPath \in Seq(Labels) /\ DrivePath \in Seq(Labels)
      /\ Len(StepPath) = 1 /\ Len(LoadPath) = 2 /\ Len(ReadPath) = 3 /\ Len(DrivePath) = 1
      /\ SubSeq(LoadPath, 1, 1) = StepPath /\ SubSeq(ReadPath, 1, 1) = StepPath /\ SubSeq(ReadPath, 1, 2) = LoadPath
  <2> DEFINE a == "trainer/step"
             b == "trainer/artifact_load"
             c == "trainer/artifact_load/disk_read"
             d == "driver/drive"
  <2>1. a \in Labels /\ b \in Labels /\ c \in Labels /\ d \in Labels
    BY DEF Labels, Names
  <2>2. StepPath = <<a>> /\ LoadPath = <<a, b>> /\ ReadPath = <<a, b, c>> /\ DrivePath = <<d>>
    BY DEF StepPath, LoadPath, ReadPath, DrivePath
  <2> HIDE DEF a, b, c, d
  <2>3. /\ <<a>> \in Seq(Labels) /\ <<a, b>> \in Seq(Labels) /\ <<a, b, c>> \in Seq(Labels)
        /\ Len(<<a>>) = 1 /\ Len(<<a, b>>) = 2 /\ Len(<<a, b, c>>) = 3
        /\ SubSeq(<<a, b>>, 1, 1) = <<a>>
        /\ SubSeq(<<a, b, c>>, 1, 1) = <<a>> /\ SubSeq(<<a, b, c>>, 1, 2) = <<a, b>>
    BY <2>1, ShortPrefixes
  <2>4. <<d>> \in Seq(Labels) /\ Len(<<d>>) = 1
    BY <2>1, ShortPrefixes
  <2> QED
    BY <2>2, <2>3, <2>4
<1>2. \A p \in Seq(Labels) : SubSeq(p, 1, Len(p)) = p
  BY SubSeqFull
<1>3. /\ \A n : n \in 1 .. 1 => n = 1
      /\ \A n : n \in 1 .. 2 => n = 1 \/ n = 2
      /\ \A n : n \in 1 .. 3 => n = 1 \/ n = 2 \/ n = 3
  OBVIOUS
<1>4. IsFiniteSet(DOMAIN timing)
  <2> DEFINE two == {StepPath} \cup {LoadPath}
             three == two \cup {ReadPath}
  <2>1. IsFiniteSet(two)
    BY FS_Singleton, FS_AddElement
  <2> HIDE DEF two
  <2>2. IsFiniteSet(three)
    BY <2>1, FS_AddElement
  <2> HIDE DEF three
  <2>3. IsFiniteSet(three \cup {DrivePath})
    BY <2>2, FS_AddElement
  <2>4. TimedPaths = three \cup {DrivePath}
    BY DEF TimedPaths, two, three
  <2>5. DOMAIN timing \subseteq TimedPaths
    BY DEF Closed
  <2> QED
    BY <2>3, <2>4, <2>5, FS_Subset
<1>5. ASSUME NEW p \in DOMAIN timing, NEW n \in 1 .. Len(p)
      PROVE  SubSeq(p, 1, n) \in DOMAIN timing
  <2>1. p \in {StepPath, LoadPath, ReadPath, DrivePath}
    BY DEF Closed, TimedPaths
  <2>2. CASE p = StepPath \/ p = DrivePath
    <3>1. Len(p) = 1 /\ p \in Seq(Labels)
      BY <1>1, <2>2
    <3>2. n = Len(p)
      BY <1>3, <3>1
    <3> QED
      BY <1>2, <3>1, <3>2
  <2>3. CASE p = LoadPath
    <3>1. Len(p) = 2 /\ p \in Seq(Labels) /\ SubSeq(p, 1, 1) = StepPath
      BY <1>1, <2>3
    <3>2. n = 1 \/ n = Len(p)
      BY <1>3, <3>1
    <3> QED
      BY <1>2, <2>3, <3>1, <3>2
  <2>4. CASE p = ReadPath
    <3>1. /\ Len(p) = 3 /\ p \in Seq(Labels)
          /\ SubSeq(p, 1, 1) = StepPath /\ SubSeq(p, 1, 2) = LoadPath
      BY <1>1, <2>4
    <3>2. n = 1 \/ n = 2 \/ n = Len(p)
      BY <1>3, <3>1
    <3>3. LoadPath \in DOMAIN timing /\ StepPath \in DOMAIN timing
      BY <2>4 DEF Closed
    <3> QED
      BY <1>2, <3>1, <3>2, <3>3
  <2> QED
    BY <2>1, <2>2, <2>3, <2>4
<1>6. DOMAIN timing \subseteq Seq(Labels) \ {<<>>}
  <2>1. DOMAIN timing \subseteq {StepPath, LoadPath, ReadPath, DrivePath}
    BY DEF Closed, TimedPaths
  <2>2. Len(<<>>) = 0
    OBVIOUS
  <2>3. StepPath # <<>> /\ LoadPath # <<>> /\ ReadPath # <<>> /\ DrivePath # <<>>
    <3>1. ASSUME NEW p, Len(p) # 0 PROVE p # <<>>
      BY <2>2, <3>1, Zenon
    <3>2. Len(StepPath) # 0 /\ Len(LoadPath) # 0 /\ Len(ReadPath) # 0 /\ Len(DrivePath) # 0
      BY <1>1
    <3> QED
      BY <3>1, <3>2
  <2>4. {StepPath, LoadPath, ReadPath, DrivePath} \subseteq Seq(Labels) \ {<<>>}
    BY <1>1, <2>3
  <2> QED
    BY <2>1, <2>4
<1> QED
  BY <1>4, <1>5, <1>6 DEF IsTree, Closed, TimesOf

(* The report over the final artifact and those of the others.              *)
LEMMA ReportHolds ==
  ASSUME TrainerInv, PerfInv, store = "gone", ~ spoiled
  PROVE  ReportIsComplete
<1> DEFINE A == Selected(case.others, {0})
           x == published
           B == A \cup {x}
           report == Report(Directory, {0}, AnyCapture)
           timing == report.timing
           others == TimingTable(MergeTiming(A))
           theirs == MapThenSumSet(LAMBDA a : a.resources["cpu"][SampleKey].mean[1],
                                   Keyed(case.others, "cpu", SampleKey, 0))
           mine   == At(rows["cpu"], SampleKey, EmptyRow)
           sample == report.cpu[<<SampleKey, 0>>]
<1>1. /\ case \in Cases /\ IsFinal(x, rows, owed, calls) /\ CallsAreTimed /\ RowsTile
      /\ A \in SUBSET case.others
  BY DEF TrainerInv, TrainerTypes, PerfInv, FinalIsKept, Selected
<1>2. /\ x.rank = 0 /\ x.pid = 1 /\ Closed(x.timing)
      /\ LoadPath \in DOMAIN x.timing => StepPath \in DOMAIN x.timing
      /\ \A n \in Names : Counted(x.timing, n) \in owed[n] .. calls[n]
      /\ \A f \in Families :
           /\ SampleKey \in DOMAIN x.resources[f] <=> SampleKey \in DOMAIN rows[f]
           /\ SampleKey \in DOMAIN rows[f] => x.resources[f][SampleKey] = JsonRow(rows[f][SampleKey])
  BY <1>1 DEF IsFinal
<1>3. /\ AreTimed(A) /\ x \notin A
      /\ \A a \in A : SampleKey \in DOMAIN a.resources["cpu"] =>
           LET cell == a.resources["cpu"][SampleKey] IN
           cell.count \in Nat \ {0} /\ cell.mean[1] \in Nat /\ cell.mean[2] = cell.count
  <2> HIDE DEF A
  <2> QED
    BY <1>1, <1>2, OthersAreTimed
<1>4. AreTimed(B)
  <2>1. IsTree(DOMAIN x.timing) /\ TimesOf(x.timing)
    BY <1>2, ClosedIsTree
  <2> HIDE DEF A
  <2>2. IsFiniteSet(B)
    BY <1>3, FS_AddElement DEF AreTimed
  <2> QED
    BY <1>3, <2>1, <2>2 DEF AreTimed
<1>5. /\ timing = TimingTable(MergeTiming(B)) /\ report.cpu = CpuTable(B, AnyCapture)
  <2>1. Selected(Directory, {0}) = B
    BY <1>2 DEF Selected, Directory, Everyone
  <2>2. B # {}
    OBVIOUS
  <2> HIDE DEF B
  <2> QED
    BY <2>1, <2>2 DEF Report
<1> HIDE DEF report, A
<1>6. \A n \in Names : CountsByName(timing, n) - CountsByName(others, n) \in owed[n] .. calls[n]
  <2> SUFFICES ASSUME NEW n \in Names
               PROVE  CountsByName(timing, n) - CountsByName(others, n) \in owed[n] .. calls[n]
    OBVIOUS
  <2>1. /\ CountsByName(timing, n) = Counted(x.timing, n) + CountsByName(others, n)
        /\ CountsByName(others, n) \in Int
    <3>1. DOMAIN x.timing \subseteq TimedPaths
      BY <1>2 DEF Closed
    <3> HIDE DEF x
    <3>2. /\ CountsByName(TimingTable(MergeTiming(A \cup {x})), n)
               = Counted(x.timing, n) + CountsByName(TimingTable(MergeTiming(A)), n)
          /\ CountsByName(TimingTable(MergeTiming(A)), n) \in Int
      BY <1>3, <1>4, <3>1, NamesAreAdded
    <3> QED
      BY <1>5, <3>2
  <2>2. Counted(x.timing, n) \in owed[n] .. calls[n] /\ owed[n] \in Nat /\ calls[n] \in Nat
    BY <1>1, <1>2 DEF CallsAreTimed
  <2> DEFINE all == CountsByName(timing, n)
             before == CountsByName(others, n)
             own == Counted(x.timing, n)
  <2> HIDE DEF all, before, own
  <2>3. all = own + before /\ before \in Int /\ own \in owed[n] .. calls[n]
    BY <2>1, <2>2 DEF all, before, own
  <2>4. all - before = own
    BY <2>2, <2>3
  <2> QED
    BY <2>3, <2>4 DEF all, before
<1>7. (\A p \in DOMAIN timing.rows : timing.rows[p].own # NotApplicable) =>
        MapThenSumSet(LAMBDA p : timing.rows[p].own, DOMAIN timing.rows) = timing.total
  <2> DEFINE tree == MergeTiming(B)
  <2>1. IsTree(DOMAIN tree) /\ \A p \in DOMAIN tree : tree[p].total \in Int
    <3> HIDE DEF B
    <3> QED
      BY <1>4, MergedTree
  <2> HIDE DEF tree
  <2>2. timing = TimingTable(tree)
    BY <1>5 DEF tree
  <2>3. (\A p \in DOMAIN TimingTable(tree).rows : TimingTable(tree).rows[p].own # NotApplicable) =>
          MapThenSumSet(LAMBDA p : TimingTable(tree).rows[p].own, DOMAIN TimingTable(tree).rows)
            = TimingTable(tree).total
    BY <2>1, OwnTimesAddUp
  <2> QED
    BY <2>2, <2>3
<1>8. \A f \in Families : SampleKey \in DOMAIN rows[f] =>
        published.resources[f][SampleKey] = JsonRow(rows[f][SampleKey])
  BY <1>2
<1>9. mine.count > 0 => sample.mean[1] * sample.count = (mine.sum + theirs) * sample.mean[2]
  <2> SUFFICES ASSUME mine.count > 0
               PROVE  sample.mean[1] * sample.count = (mine.sum + theirs) * sample.mean[2]
    OBVIOUS
  <2>1. SampleKey \in DOMAIN rows["cpu"] /\ mine = rows["cpu"][SampleKey]
    BY DEF At, EmptyRow
  <2>2. /\ SampleKey \in DOMAIN x.resources["cpu"]
        /\ x.resources["cpu"][SampleKey] = JsonRow(mine)
    BY <1>2, <2>1 DEF Families
  <2>3. mine.count \in Nat \ {0} /\ mine.sum \in Nat /\ mine.seen = mine.count
    BY <1>1, <2>1 DEF RowsTile, CpuRows, RowTypes
  <2> HIDE DEF mine
  <2>4. LET cell == x.resources["cpu"][SampleKey] IN
        /\ cell.count \in Nat \ {0} /\ cell.mean[1] \in Nat /\ cell.mean[2] = cell.count
        /\ cell.mean[1] = mine.sum
    BY <2>2, <2>3 DEF JsonRow
  <2>5. Keyed(case.others, "cpu", SampleKey, 0) = Keyed(A, "cpu", SampleKey, 0)
    BY DEF Keyed, A, Selected, Everyone
  <2>6. /\ sample.mean[1] = x.resources["cpu"][SampleKey].mean[1] + theirs
        /\ sample.mean[2] = sample.count
    <3>1. IsFiniteSet(A) /\ x.rank = 0
      BY <1>2, <1>3 DEF AreTimed
    <3> HIDE DEF x
    <3>2. \A a \in A \cup {x} : SampleKey \in DOMAIN a.resources["cpu"] =>
            LET cell == a.resources["cpu"][SampleKey] IN
            cell.count \in Nat \ {0} /\ cell.mean[1] \in Nat /\ cell.mean[2] = cell.count
      BY <1>3, <2>4
    <3>3. LET row == CpuTable(A \cup {x}, AnyCapture)[<<SampleKey, 0>>]
              rest == MapThenSumSet(LAMBDA a : a.resources["cpu"][SampleKey].mean[1],
                                    Keyed(A, "cpu", SampleKey, 0)) IN
          row.mean[1] = x.resources["cpu"][SampleKey].mean[1] + rest /\ row.mean[2] = row.count
      BY <1>3, <2>2, <3>1, <3>2, SamplesArePooled
    <3> QED
      BY <1>5, <2>5, <3>3
  <2> HIDE DEF sample, theirs
  <2>7. sample.mean[1] = mine.sum + theirs
    BY <2>4, <2>6
  <2> QED
    BY <2>6, <2>7
<1> QED
  BY <1>6, <1>7, <1>8, <1>9 DEF ReportIsComplete, report, A

(* Perf's properties.                                                        *)
LEMMA PerfHolds ==
  ASSUME TrainerInv, PerfTypes, PerfInv
  PROVE  PerfSurvivesTeardown
<1>1. ReportIsComplete
  BY ReportHolds DEF ReportIsComplete
<1>2. NvmlOutlivesMonitors
  BY DEF NvmlOutlivesMonitors, PerfInv, PerfTypes, LifeIsOrdered, NothingYet, MonitorsJoined, Families
<1>3. ReadingsTile
  BY DEF ReadingsTile, PerfInv, RowsTile, CpuRows, GpuRows
<1> QED
  BY <1>1, <1>2, <1>3 DEF PerfSurvivesTeardown

(* What perf recorded is right, and none of it is lost at the exit, whatever *)
(* the threads, the failures and the other workers' artifacts are.           *)
THEOREM RecordsSurviveTeardown == Spec => []PerfSurvivesTeardown
<1>1. TrainerInv /\ PerfTypes /\ PerfInv => PerfSurvivesTeardown
  BY PerfHolds
<1> QED
  BY <1>1, PerfInvariant, PTL
=============================================================================

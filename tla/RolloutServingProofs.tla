------------------------ MODULE RolloutServingProofs ------------------------
(***************************************************************************)
(* Proofs about the rollout process, for any load.                         *)
(*                                                                         *)
(* One session of the Egodriver service: what sorting, buffering and       *)
(* appending poses gives, and that every handler keeps the types of the    *)
(* session.                                                                *)
(*                                                                         *)
(* The process: the type invariant and the five safety invariants of       *)
(* RolloutServing, for any number of payloads, retries, ticks, sessions and*)
(* faults. The invariant has five parts: types, the order of waiting and   *)
(* stopping, labels matched by position, jobs and their sessions, the life *)
(* of a session. Each process keeps each part; driver steps are looked at  *)
(* session by session.                                                     *)
(***************************************************************************)
EXTENDS RolloutServing, FiniteSetTheorems, SequenceTheorems, TLAPS

-----------------------------------------------------------------------------
(* One session                                                              *)

(* A set of naturals that is not empty has a smallest element: how a proof  *)
(* here goes by least counterexample where it cannot go by induction.       *)
LEMMA LeastNat ==
  ASSUME NEW S, S \subseteq Nat, S # {}
  PROVE  \E m \in S : \A n \in S : m <= n
<1> DEFINE R == OpToRel(<, Nat)
<1>1. IsWellFoundedOn(R, Nat)
  BY NatLessThanWellFounded
<1>2. \A x, y \in Nat : x < y => <<x, y>> \in R
  BY DEF OpToRel
<1> HIDE DEF R
<1>3. PICK m \in S : \A n \in S : ~ (<<n, m>> \in R)
  BY <1>1, WFMin
<1>4. ASSUME NEW n \in S
      PROVE  m <= n
  <2>1. ~(n < m)
    BY <1>2, <1>3
  <2> QED BY <2>1
<1> QED BY <1>4

(* Sorting a trajectory (driver_server.py, policy_input_from_tick_buffer)   *)
(* gives a trajectory of the same times: every place of the result is the   *)
(* rank of some pose.                                                       *)
LEMMA InTimeOrderType ==
  ASSUME NEW S, S \subseteq Nat, NEW q \in Seq(S)
  PROVE  InTimeOrder(q) \in Seq(S)
<1> DEFINE D == DOMAIN q
           n == Len(q)
           rank == [i \in D |-> Cardinality(SortBefore(q, i))]
<1>1. D = 1 .. n /\ n \in Nat /\ IsFiniteSet(D) /\ Cardinality(D) = n
  <2>1. D = 1 .. n /\ n \in Nat
    OBVIOUS
  <2> HIDE DEF D, n
  <2> QED
    BY <2>1, FS_Interval
<1>2. \A i \in D : q[i] \in Nat
  <2>1. \A i \in D : q[i] \in S
    OBVIOUS
  <2> QED
    BY <2>1
<1>3. \A i \in D : IsFiniteSet(SortBefore(q, i)) /\ rank[i] \in 0 .. n - 1
  <2> TAKE i \in D
  <2>1. SortBefore(q, i) \subseteq D \ {i}
    BY <1>1, <1>2 DEF SortBefore
  <2>2. IsFiniteSet(D \ {i}) /\ Cardinality(D \ {i}) = n - 1
    BY <1>1, FS_RemoveElement
  <2>3. IsFiniteSet(SortBefore(q, i)) /\ Cardinality(SortBefore(q, i)) <= n - 1
    BY <2>1, <2>2, FS_Subset
  <2>4. Cardinality(SortBefore(q, i)) \in Nat
    BY <2>3, FS_CardinalityType
  <2> HIDE DEF n
  <2> QED
    BY <2>3, <2>4, <1>1
<1>4. \A i, j \in D : j \in SortBefore(q, i) => rank[j] < rank[i]
  <2> SUFFICES ASSUME NEW i \in D, NEW j \in D, j \in SortBefore(q, i)
               PROVE  rank[j] < rank[i]
    OBVIOUS
  <2>1. SortBefore(q, j) \subseteq SortBefore(q, i)
    BY <1>1, <1>2 DEF SortBefore
  <2>2. j \notin SortBefore(q, j)
    BY <1>1, <1>2 DEF SortBefore
  <2>3. rank[j] <= rank[i] /\ (rank[i] = rank[j] => SortBefore(q, i) = SortBefore(q, j))
    BY <1>3, <2>1, FS_Subset
  <2> HIDE DEF n
  <2> QED
    BY <1>1, <1>3, <2>2, <2>3
<1>5. rank \in Injection(D, 0 .. n - 1)
  <2>1. \A i, j \in D : i # j => j \in SortBefore(q, i) \/ i \in SortBefore(q, j)
    BY <1>1, <1>2 DEF SortBefore
  <2>2. rank \in [D -> 0 .. n - 1]
    BY <1>3
  <2> HIDE DEF rank, D
  <2>3. \A i, j \in D : rank[i] = rank[j] => i = j
    <3> SUFFICES ASSUME NEW i \in D, NEW j \in D, rank[i] = rank[j], i # j
                 PROVE  FALSE
      OBVIOUS
    <3> QED
      BY <1>1, <1>4, <2>1, <2>2
  <2>4. IsInjective(rank)
    BY <2>2, <2>3 DEF IsInjective
  <2> QED
    BY <2>2, <2>4 DEF Injection
<1>6. Cardinality(0 .. n - 1) = n /\ IsFiniteSet(0 .. n - 1)
  <2> HIDE DEF rank, D, n
  <2> QED BY <1>1, FS_Interval
<1>7. rank \in Surjection(D, 0 .. n - 1)
  <2> HIDE DEF rank, D, n
  <2> QED BY <1>1, <1>5, <1>6, FS_Injection
<1>8. \A m \in 1 .. n : \E i \in D : Cardinality(SortBefore(q, i)) = m - 1
  <2> TAKE m \in 1 .. n
  <2>1. m - 1 \in 0 .. n - 1
    BY <1>1
  <2>2. \E i \in D : rank[i] = m - 1
    <3> HIDE DEF rank, D, n
    <3> QED BY <2>1, <1>7 DEF Surjection
  <2> QED
    BY <2>2
<1>9. \A m \in 1 .. n : InTimeOrder(q)[m] \in S
  <2> TAKE m \in 1 .. n
  <2> DEFINE i == CHOOSE k \in D : Cardinality(SortBefore(q, k)) = m - 1
  <2>1. i \in D
    BY <1>8
  <2>2. InTimeOrder(q)[m] = q[i]
    BY <1>1 DEF InTimeOrder
  <2> HIDE DEF i
  <2> QED
    BY <2>1, <2>2
<1> HIDE DEF D
<1>10. InTimeOrder(q) = [m \in 1 .. n |-> InTimeOrder(q)[m]]
  BY <1>1 DEF InTimeOrder, D
<1> DEFINE r == InTimeOrder(q)
<1>11. r \in [1 .. n -> S] /\ n \in Nat
  BY <1>1, <1>9, <1>10
<1> HIDE DEF r, n
<1> QED
  BY <1>11 DEF r

(* Timestamps that increase from each to the next increase from any to any  *)
(* later one (what Increasing says of neighbours, for all pairs).           *)
LEMMA IncreasingPairs ==
  ASSUME NEW q \in Seq(Nat), Increasing(q),
         NEW i \in 1 .. Len(q), NEW j \in 1 .. Len(q), i < j
  PROVE  q[i] < q[j]
<1> DEFINE Bad == {d \in Nat : \E k \in 1 .. Len(q) :
                     k + d + 1 \in 1 .. Len(q) /\ ~(q[k] < q[k + d + 1])}
<1>1. Bad = {}
  <2> SUFFICES ASSUME Bad # {} PROVE FALSE
    OBVIOUS
  <2>1. PICK d \in Bad : \A e \in Bad : d <= e
    <3> HIDE DEF Bad
    <3>1. Bad \subseteq Nat
      BY DEF Bad
    <3> QED BY <3>1, LeastNat
  <2>2. PICK k \in 1 .. Len(q) : k + d + 1 \in 1 .. Len(q) /\ ~(q[k] < q[k + d + 1])
    BY <2>1
  <2>3. d \in Nat /\ k \in Nat /\ Len(q) \in Nat
    BY <2>1
  <2>4. k + d \in 1 .. Len(q) - 1 /\ k + d \in 1 .. Len(q)
    <3> HIDE DEF Bad
    <3> QED BY <2>2, <2>3
  <2>5. q[k + d] < q[k + d + 1]
    BY <2>4 DEF Increasing
  <2>6. d # 0
    <3> SUFFICES ASSUME d = 0 PROVE FALSE
      OBVIOUS
    <3>1. k + d = k
      BY <2>3
    <3> QED BY <2>2, <2>5, <3>1
  <2>7. d - 1 \in Nat /\ k + (d - 1) + 1 = k + d /\ ~(d <= d - 1)
    <3> HIDE DEF Bad
    <3> QED BY <2>3, <2>6
  <2>8. d - 1 \notin Bad
    BY <2>1, <2>7
  <2>9. q[k] < q[k + d]
    BY <2>4, <2>7, <2>8
  <2>10. \A a, b, e \in Nat : a < b /\ b < e => a < e
    OBVIOUS
  <2>11. q[k] \in Nat /\ q[k + d] \in Nat /\ q[k + d + 1] \in Nat
    <3> HIDE DEF Bad
    <3>1. k + d + 1 \in 1 .. Len(q) /\ k \in 1 .. Len(q) /\ k + d \in 1 .. Len(q)
      BY <2>2, <2>4
    <3> QED BY <3>1, ElementOfSeq
  <2> QED
    BY <2>2, <2>5, <2>9, <2>10, <2>11
<1>2. j - i - 1 \in Nat /\ i + (j - i - 1) + 1 = j
  OBVIOUS
<1> QED
  BY <1>1, <1>2

(* What a deque(maxlen = n) holds: elements of the sequence, and no more    *)
(* than n of them.                                                          *)
LEMMA NewestType ==
  ASSUME NEW S, NEW q \in Seq(S), NEW n \in Nat
  PROVE  /\ Newest(q, n) \in Seq(S)
         /\ Len(Newest(q, n)) <= n /\ Len(Newest(q, n)) <= Len(q)
<1> DEFINE m == Least(n, Len(q))
<1>1. m \in 0 .. Len(q) /\ m <= n /\ Len(q) \in Nat
  BY DEF Least
<1> HIDE DEF m
<1>2. SubSeq(q, Len(q) - m + 1, Len(q)) \in Seq(S) /\ Len(SubSeq(q, Len(q) - m + 1, Len(q))) = m
  BY <1>1
<1> QED
  BY <1>1, <1>2 DEF Newest, m

(* EgomotionBuffer.add takes a prefix of the poses that keeps the history   *)
(* going forward: the CHOOSE of Accepted always has a value.                *)
LEMMA AcceptedIsPrefix ==
  ASSUME NEW ego \in Seq(Nat), NEW poses \in Seq(Nat)
  PROVE  \E n \in 0 .. Len(poses) :
           /\ Accepted(ego, poses) = SubSeq(poses, 1, n)
           /\ Increasing(Newest(ego, 1) \o SubSeq(poses, 1, n))
<1> DEFINE Fits(n) == Increasing(Newest(ego, 1) \o SubSeq(poses, 1, n))
           Longest(n) == Fits(n) /\ (n < Len(poses) => ~Fits(n + 1))
           Bad == {n \in 0 .. Len(poses) : ~Fits(n)}
<1>1. Fits(0)
  <2>1. SubSeq(poses, 1, 0) = <<>>
    OBVIOUS
  <2>2. Newest(ego, 1) \in Seq(Nat) /\ Len(Newest(ego, 1)) <= 1
    BY NewestType
  <2>3. Len(Newest(ego, 1) \o <<>>) <= 1
    BY <2>2
  <2> QED
    BY <2>1, <2>2, <2>3 DEF Increasing
<1>2. \E n \in 0 .. Len(poses) : Longest(n)
  <2> HIDE DEF Fits
  <2>1. CASE Bad = {}
    <3>1. Len(poses) \in 0 .. Len(poses)
      OBVIOUS
    <3> QED BY <2>1, <3>1
  <2>2. CASE Bad # {}
    <3>1. PICK m \in Bad : \A n \in Bad : m <= n
      <4>1. Bad \subseteq Nat
        OBVIOUS
      <4> HIDE DEF Bad
      <4> QED BY <2>2, <4>1, LeastNat
    <3>2. m \in 1 .. Len(poses) /\ ~Fits(m)
      BY <1>1, <3>1
    <3>3. m - 1 \notin Bad
      BY <3>1, <3>2
    <3>4. m - 1 \in 0 .. Len(poses) /\ Fits(m - 1)
      BY <3>2, <3>3
    <3>5. (m - 1) + 1 = m
      BY <3>2
    <3> QED
      BY <3>2, <3>4, <3>5
  <2> QED
    BY <2>1, <2>2
<1> DEFINE k == CHOOSE n \in 0 .. Len(poses) : Longest(n)
<1>3. k \in 0 .. Len(poses) /\ Longest(k)
  <2> HIDE DEF Longest
  <2> QED BY <1>2
<1>4. Accepted(ego, poses) = SubSeq(poses, 1, k)
  BY DEF Accepted
<1> HIDE DEF k
<1> QED
  BY <1>3, <1>4

(* The accepted poses are poses.                                            *)
LEMMA AcceptedType ==
  ASSUME NEW S, S \subseteq Nat, NEW ego \in Seq(S), NEW poses \in Seq(S)
  PROVE  Accepted(ego, poses) \in Seq(S)
<1>0. ego \in Seq(Nat) /\ poses \in Seq(Nat)
  BY SeqMonotonic
<1>1. PICK n \in 0 .. Len(poses) : Accepted(ego, poses) = SubSeq(poses, 1, n)
  BY <1>0, AcceptedIsPrefix
<1> QED
  BY <1>1

(* If no pose was refused, the poses go forward in time: what _preprocess   *)
(* demands before the model is asked.                                       *)
LEMMA AcceptedMovesForward ==
  ASSUME NEW ego \in Seq(Nat), NEW poses \in Seq(Nat), Accepted(ego, poses) = poses
  PROVE  Increasing(poses)
<1>1. PICK n \in 0 .. Len(poses) :
         Accepted(ego, poses) = SubSeq(poses, 1, n)
         /\ Increasing(Newest(ego, 1) \o SubSeq(poses, 1, n))
  BY AcceptedIsPrefix
<1>2. Increasing(Newest(ego, 1) \o poses)
  BY <1>1
<1> DEFINE h == Newest(ego, 1)
<1>3. h \in Seq(Nat)
  BY NewestType
<1> HIDE DEF h
<1>4. ASSUME NEW i \in 1 .. Len(poses) - 1
      PROVE  poses[i] < poses[i + 1]
  <2>0. /\ Len(h) \in Nat /\ Len(poses) \in Nat /\ Len(h \o poses) = Len(h) + Len(poses)
        /\ \A j \in 1 .. Len(h) + Len(poses) :
             (h \o poses)[j] = IF j <= Len(h) THEN h[j] ELSE poses[j - Len(h)]
    BY <1>3, ConcatProperties, LenProperties
  <2>1. Len(h) + i \in 1 .. Len(h \o poses) - 1
    BY <2>0
  <2>2. (h \o poses)[Len(h) + i] < (h \o poses)[Len(h) + i + 1]
    BY <1>2, <2>1 DEF Increasing, h
  <2>3. (h \o poses)[Len(h) + i] = poses[i] /\ (h \o poses)[Len(h) + i + 1] = poses[i + 1]
    <3>1. /\ Len(h) + i \in 1 .. Len(h) + Len(poses) /\ ~(Len(h) + i <= Len(h))
          /\ Len(h) + i + 1 \in 1 .. Len(h) + Len(poses) /\ ~(Len(h) + i + 1 <= Len(h))
          /\ Len(h) + i - Len(h) = i /\ Len(h) + i + 1 - Len(h) = i + 1
      BY <2>0
    <3> QED BY <2>0, <3>1
  <2> QED
    BY <2>2, <2>3
<1> QED
  BY <1>4 DEF Increasing

(* ingest keeps the buffers within their capacities.                        *)
LEMMA IngestType ==
  ASSUME NEW T, T \subseteq Nat \ {0},
         NEW b \in [frames: 0 .. NumContextFrames, ego: Seq(T), route: T \cup {0}],
         NEW input \in [frames: Nat, poses: Seq(T), route: T \cup {0}]
  PROVE  /\ Ingest(b, input) \in
              [frames: 0 .. NumContextFrames, ego: Seq(T), route: T \cup {0}]
         /\ Len(Ingest(b, input).ego) <= NumWaypoints + 1
<1>0. NumContextFrames \in Nat /\ NumWaypoints + 1 \in Nat
  BY BufferAssumption DEF BufferAssumption
<1>1. AddFrames(b.frames, input.frames) \in 0 .. NumContextFrames
  BY <1>0 DEF AddFrames, Least
<1>2. Accepted(b.ego, input.poses) \in Seq(T)
  BY AcceptedType
<1>3. b.ego \o Accepted(b.ego, input.poses) \in Seq(T)
  BY <1>2
<1>4. /\ AddPoses(b.ego, input.poses) \in Seq(T)
      /\ Len(AddPoses(b.ego, input.poses)) <= NumWaypoints + 1
  <2> DEFINE q == b.ego \o Accepted(b.ego, input.poses)
  <2>1. q \in Seq(T)
    BY <1>3
  <2> HIDE DEF q
  <2>2. Newest(q, NumWaypoints + 1) \in Seq(T)
           /\ Len(Newest(q, NumWaypoints + 1)) <= NumWaypoints + 1
    BY <1>0, <2>1, NewestType
  <2> QED
    BY <2>2 DEF AddPoses, q
<1> QED
  BY <1>1, <1>4 DEF Ingest

(* The poses a session has seen executed are among those of its input.      *)
LEMMA SeenIsFinite ==
  ASSUME NEW s, NEW T, now[s].poses \in Seq(T)
  PROVE  IsFiniteSet(SeenBefore(s)) /\ Cardinality(SeenBefore(s)) \in 0 .. Len(now[s].poses)
<1> DEFINE n == Len(now[s].poses)
<1>1. SeenBefore(s) \subseteq 1 .. n /\ n \in Nat
  BY DEF SeenBefore
<1> HIDE DEF n
<1>2. IsFiniteSet(1 .. n) /\ Cardinality(1 .. n) = n
  BY <1>1, FS_Interval
<1>3. IsFiniteSet(SeenBefore(s)) /\ Cardinality(SeenBefore(s)) <= n
  BY <1>1, <1>2, FS_Subset
<1>4. Cardinality(SeenBefore(s)) \in Nat
  BY <1>3, FS_CardinalityType
<1> QED
  BY <1>1, <1>3, <1>4 DEF n

(* What record_step appends is a part of the input's trajectory.            *)
LEMMA FreshType ==
  ASSUME NEW s, NEW T, now[s].poses \in Seq(T)
  PROVE  Fresh(s) \in Seq(T)
<1>1. Cardinality(SeenBefore(s)) \in 0 .. Len(now[s].poses)
  BY SeenIsFinite
<1> QED
  BY <1>1 DEF Fresh

(* What record_step appends is newer than all that was executed, so the     *)
(* executed trajectory goes on forward in time.                             *)
LEMMA FreshMovesForward ==
  ASSUME NEW s, NEW T, T \subseteq Nat, now[s].poses \in Seq(T), executed[s] \in Seq(T),
         Increasing(now[s].poses), Increasing(executed[s])
  PROVE  Fresh(s) \in Seq(T) /\ Increasing(executed[s] \o Fresh(s))
<1> DEFINE poses == now[s].poses
           done == executed[s]
           c == Cardinality(SeenBefore(s))
<1>0. poses \in Seq(T) /\ done \in Seq(T) /\ poses \in Seq(Nat) /\ done \in Seq(Nat)
  BY SeqMonotonic
<1>1. c \in 0 .. Len(poses) /\ IsFiniteSet(SeenBefore(s))
  BY SeenIsFinite
<1>2. Fresh(s) = SubSeq(poses, c + 1, Len(poses))
  BY DEF Fresh
<1>3. done # <<>> /\ c < Len(poses) => poses[c + 1] > done[Len(done)]
  <2> SUFFICES ASSUME done # <<>>, c < Len(poses), ~(poses[c + 1] > done[Len(done)])
               PROVE  FALSE
    OBVIOUS
  <2> HIDE DEF c
  <2>1. c + 1 \in 1 .. Len(poses) /\ Len(poses) \in Nat
    BY <1>0, <1>1
  <2>2. poses[c + 1] \in Nat /\ done[Len(done)] \in Nat
    <3> HIDE DEF poses, done
    <3>1. poses[c + 1] \in Nat
      BY <1>0, <2>1
    <3>2. Len(done) \in 1 .. Len(done)
      BY <1>0
    <3>3. done[Len(done)] \in Nat
      BY <1>0, <3>2
    <3> QED
      BY <3>1, <3>3
  <2>3. \A i \in 1 .. c + 1 : i \in SeenBefore(s)
    <3> TAKE i \in 1 .. c + 1
    <3>1. i \in 1 .. Len(poses) /\ poses[i] \in Nat
      <4> HIDE DEF poses, done
      <4>1. i \in 1 .. Len(poses)
        BY <1>1, <2>1
      <4> QED
        BY <1>0, <4>1
    <3>2. i < c + 1 => poses[i] < poses[c + 1]
      BY <1>0, <2>1, <3>1, IncreasingPairs
    <3>3. i = c + 1 => poses[i] = poses[c + 1]
      OBVIOUS
    <3>4. poses[i] <= done[Len(done)]
      BY <2>1, <2>2, <3>1, <3>2, <3>3
    <3> QED
      BY <1>0, <3>1, <3>4 DEF SeenBefore
  <2>4. Cardinality(1 .. c + 1) = c + 1
    BY <1>1, FS_Interval
  <2>5. Cardinality(1 .. c + 1) <= Cardinality(SeenBefore(s))
    <3>1. 1 .. c + 1 \in SUBSET SeenBefore(s)
      BY <2>3
    <3> QED BY <1>1, <3>1, FS_Subset
  <2> QED
    BY <2>4, <2>5, <1>1 DEF c
<1> HIDE DEF c, poses, done
<1> DEFINE f == SubSeq(poses, c + 1, Len(poses))
<1>4. /\ f \in Seq(T) /\ Len(f) = Len(poses) - c
      /\ \A i \in 1 .. Len(poses) - c : f[i] = poses[c + i]
  BY <1>0, <1>1
<1> HIDE DEF f
<1> DEFINE m == Len(done)
           n == Len(poses)
<1>5. /\ m \in Nat /\ n \in Nat /\ Len(done \o f) = m + (n - c)
      /\ \A i \in 1 .. m + (n - c) : (done \o f)[i] = IF i <= m THEN done[i] ELSE f[i - m]
  <2>1. f \in Seq(Nat) /\ Len(done) \in Nat /\ Len(poses) \in Nat
    <3>1. f \in Seq(Nat)
      BY <1>4, SeqMonotonic
    <3> QED BY <1>0, <3>1, LenProperties
  <2>2. /\ Len(done \o f) = Len(done) + Len(f)
        /\ \A i \in 1 .. Len(done) + Len(f) :
             (done \o f)[i] = IF i <= Len(done) THEN done[i] ELSE f[i - Len(done)]
    BY <1>0, <2>1, ConcatProperties
  <2>3. Len(f) = n - c
    BY <1>4
  <2> QED
    BY <2>1, <2>2, <2>3
<1>6. ASSUME NEW i \in 1 .. m + (n - c) - 1
      PROVE  (done \o f)[i] < (done \o f)[i + 1]
  <2>0. i \in 1 .. m + (n - c) /\ i + 1 \in 1 .. m + (n - c) /\ c \in 0 .. n
    BY <1>1, <1>5
  <2>1. CASE i < m
    <3>1. (done \o f)[i] = done[i] /\ (done \o f)[i + 1] = done[i + 1]
      <4> HIDE DEF m, n
      <4> QED BY <1>5, <2>0, <2>1
    <3>2. i \in 1 .. Len(done) - 1
      BY <1>5, <2>0, <2>1
    <3> QED
      BY <3>1, <3>2 DEF Increasing, done
  <2>2. CASE i = m
    <3>1. (done \o f)[i] = done[m] /\ (done \o f)[i + 1] = f[1] /\ c < n
      <4>1. i + 1 - m = 1 /\ ~(i + 1 <= m) /\ i <= m /\ c < n
        BY <1>5, <2>0, <2>2
      <4> HIDE DEF m, n
      <4> QED BY <1>5, <2>0, <2>2, <4>1
    <3>2. f[1] = poses[c + 1]
      <4>1. 1 \in 1 .. n - c
        BY <1>5, <2>0, <3>1
      <4> QED BY <1>4, <4>1
    <3>3. done # <<>>
      BY <1>0, <1>5, <2>0, <2>2
    <3>4. done[m] \in Nat /\ poses[c + 1] \in Nat
      <4>1. m \in 1 .. m /\ c + 1 \in 1 .. n
        BY <1>5, <2>0, <2>2, <3>1
      <4> QED BY <1>0, <4>1, ElementOfSeq
    <3> QED
      BY <1>3, <3>1, <3>2, <3>3, <3>4
  <2>3. CASE i > m
    <3> DEFINE k == i - m
    <3>1. /\ k \in 1 .. n - c /\ k + 1 \in 1 .. n - c /\ c + k \in 1 .. n - 1
          /\ i + 1 - m = k + 1 /\ ~(i + 1 <= m) /\ ~(i <= m) /\ c + (k + 1) = (c + k) + 1
      BY <1>5, <2>0, <2>3
    <3>2. (done \o f)[i] = f[k] /\ (done \o f)[i + 1] = f[k + 1]
      <4> HIDE DEF m, n
      <4> QED BY <1>5, <2>0, <3>1
    <3> HIDE DEF k
    <3>3. f[k] = poses[c + k] /\ f[k + 1] = poses[(c + k) + 1]
      <4>1. \A j \in 1 .. n - c : f[j] = poses[c + j]
        BY <1>4
      <4> HIDE DEF n
      <4>2. f[k] = poses[c + k]
        BY <3>1, <4>1
      <4>3. f[k + 1] = poses[c + (k + 1)]
        BY <3>1, <4>1
      <4> QED
        BY <3>1, <4>2, <4>3
    <3> QED
      BY <3>1, <3>2, <3>3 DEF Increasing, poses
  <2> HIDE DEF m, n
  <2> QED
    BY <1>5, <2>0, <2>1, <2>2, <2>3
<1>7. Increasing(done \o f)
  <2> HIDE DEF m, n
  <2> DEFINE g == done \o f
  <2>1. Len(g) = m + (n - c)
    BY <1>5
  <2>2. \A i \in 1 .. m + (n - c) - 1 : g[i] < g[i + 1]
    BY <1>6
  <2> HIDE DEF g
  <2>3. Increasing(g)
    <3>1. Len(g) - 1 = m + (n - c) - 1
      BY <1>1, <1>5, <2>1
    <3> QED BY <2>2, <3>1 DEF Increasing
  <2> QED BY <2>3 DEF g
<1> QED
  BY <1>2, <1>4, <1>7 DEF f, done

(* The buffers of one session.                                              *)
Buffers ==
  {b \in [frames: 0 .. NumContextFrames, ego: Seq(load.times), route: load.times \cup {0}] :
     Len(b.ego) <= NumWaypoints + 1}

(* Types of what the driver keeps of a session; a handler under way knows   *)
(* which tick it serves.                                                    *)
DriverTypes ==
  /\ phase \in [Sessions -> {"absent", "open", "closed"}]
  /\ tick \in [Sessions -> [frames: Nat, poses: Seq(load.times), route: load.times \cup {0}]]
  /\ step \in [Sessions -> 0 .. load.ticks]
  /\ rpc \in [Sessions -> RpcPcs]
  /\ now \in [Sessions -> [tick: 0 .. load.ticks, poses: Seq(load.times)]]
  /\ buf \in [Sessions -> Buffers]
  /\ truth \in [Sessions -> [anchor: Nat, times: Seq(Nat)]]
  /\ \A s \in Sessions : rpc[s] # "idle" => now[s].tick \in Ticks

(* Types of what is recorded of a session.                                  *)
EpisodeTypes ==
  /\ outputs \in [Sessions -> Seq(Output)]
  /\ executed \in [Sessions -> Seq(load.times)]
  /\ drove \in [Sessions -> Seq({"student", "expert"})]

(* Types of what the expert's answers need; the collector never runs past   *)
(* the futures.                                                             *)
ExpertTypes ==
  /\ futures \in [Sessions -> Seq(Ticks \cup {None})]
  /\ ask \in [Sessions -> [Ticks -> QueryStates]]
  /\ tokens \in [Sessions -> Seq(Ticks \cup {None})]
  /\ collector \in [Sessions -> CollectorPcs]
  /\ record \in [Sessions -> {"absent", "kept", "taken"}]
  /\ hurried \in [Sessions -> BOOLEAN]
  /\ \A s \in Sessions : Len(tokens[s]) <= Len(futures[s])

SessionTypes == load \in Loads /\ DriverTypes /\ EpisodeTypes /\ ExpertTypes

(* What the proofs use of a load.                                           *)
LEMMA LoadFacts ==
  ASSUME load \in Loads
  PROVE  /\ load.payloads \in Nat /\ load.threads \in Nat \ {0} /\ load.retries \in Nat
         /\ load.ticks \in Nat /\ load.images \in Nat /\ load.submissions \in Nat
         /\ load.times \subseteq Nat \ {0}
         /\ load.expert \in {"off", "label", "mix"}
         /\ load.recordings \subseteq [anchor: Nat, times: Seq(Nat \ {0})]
         /\ Ticks \subseteq 0 .. load.ticks /\ 0 \notin Ticks /\ Ticks \subseteq Nat
         /\ Sessions \subseteq Nat /\ 0 \notin Sessions /\ Payloads \subseteq Nat
               /\ 0 \notin Payloads
<1>1. load \in Load
  BY ServingAssumption DEF ServingAssumption
<1>2. /\ load.payloads \in Nat /\ load.threads \in Nat \ {0} /\ load.retries \in Nat
      /\ load.ticks \in Nat /\ load.images \in Nat /\ load.submissions \in Nat
      /\ load.times \subseteq Nat \ {0}
      /\ load.expert \in {"off", "label", "mix"}
      /\ load.recordings \subseteq [anchor: Nat, times: Seq(Nat \ {0})]
  BY <1>1 DEF Load
<1>3. Ticks \subseteq 0 .. load.ticks /\ 0 \notin Ticks /\ Ticks \subseteq Nat
  BY <1>2 DEF Ticks
<1>4. Payloads \subseteq Nat /\ 0 \notin Payloads
  BY <1>2 DEF Payloads
<1>5. Sessions \subseteq Nat /\ 0 \notin Sessions
  BY <1>2 DEF Sessions
<1> QED
  BY <1>2, <1>3, <1>4, <1>5

(* The sets that depend on the load do not change with the state.           *)
LEMMA SameLoad ==
  ASSUME load' = load
  PROVE  /\ Sessions' = Sessions /\ Ticks' = Ticks /\ Payloads' = Payloads
         /\ Buffers' = Buffers /\ Output' = Output
  BY DEF Sessions, Ticks, Payloads, Buffers, Output

(* A step that leaves the variables of a group alone keeps their types.     *)
LEMMA DriverFrame ==
  ASSUME UNCHANGED <<load, driverVars>>, DriverTypes
  PROVE  DriverTypes'
  BY SameLoad DEF driverVars, DriverTypes

LEMMA EpisodeFrame ==
  ASSUME UNCHANGED <<load, episodeVars>>, EpisodeTypes
  PROVE  EpisodeTypes'
  BY SameLoad DEF episodeVars, EpisodeTypes

LEMMA ExpertFrame ==
  ASSUME UNCHANGED <<load, expertVars>>, ExpertTypes
  PROVE  ExpertTypes'
  BY SameLoad DEF expertVars, ExpertTypes

(* The initial state of every session is typed.                             *)
LEMMA SessionInit == Init => SessionTypes
<1> SUFFICES ASSUME Init PROVE SessionTypes
  OBVIOUS
<1>0. load \in Loads /\ 0 \in 0 .. load.ticks /\ 0 \in 0 .. NumContextFrames
         /\ 0 <= NumWaypoints + 1
  BY LoadFacts, BufferAssumption DEF Init, BufferAssumption
<1>1. DriverTypes
  BY <1>0 DEF Init, DriverTypes, EmptyTick, EmptyBuffers, NoTruth, RpcPcs, Buffers
<1>2. EpisodeTypes
  BY DEF Init, EpisodeTypes
<1>3. ExpertTypes
  BY DEF Init, ExpertTypes, QueryStates, CollectorPcs
<1> QED
  BY <1>0, <1>1, <1>2, <1>3 DEF SessionTypes

(* The submit_* calls keep the types.                                       *)
LEMMA ObserveTypes ==
  ASSUME SessionTypes, NEW s \in Sessions,
         \/ SubmitImage(s)
         \/ \E t \in load.times : SubmitEgomotion(s, t) \/ SubmitRoute(s, t)
  PROVE  SessionTypes'
<1> DEFINE TickType == [frames: Nat, poses: Seq(load.times), route: load.times \cup {0}]
<1>1. tick[s] \in TickType /\ load \in Loads
  BY DEF SessionTypes, DriverTypes
<1>2. PICK observed \in TickType : Observe(s, observed)
  <2>1. CASE SubmitImage(s)
    <3> DEFINE o == [tick[s] EXCEPT !.frames = @ + 1]
    <3>1. o \in TickType
      BY <1>1
    <3> QED BY <2>1, <3>1 DEF SubmitImage
  <2>2. ASSUME NEW t \in load.times, SubmitEgomotion(s, t)
        PROVE  \E o \in TickType : Observe(s, o)
    <3> DEFINE o == [tick[s] EXCEPT !.poses = Append(@, t)]
    <3>0. tick[s].poses \in Seq(load.times)
      BY <1>1
    <3>1. Append(tick[s].poses, t) \in Seq(load.times)
      BY <3>0, AppendProperties
    <3>2. o \in TickType
      BY <1>1, <3>1
    <3> QED BY <2>2, <3>2 DEF SubmitEgomotion
  <2>3. ASSUME NEW t \in load.times, SubmitRoute(s, t)
        PROVE  \E o \in TickType : Observe(s, o)
    <3> DEFINE o == [tick[s] EXCEPT !.route = t]
    <3>1. o \in TickType
      BY <1>1
    <3> QED BY <2>3, <3>1 DEF SubmitRoute
  <2> QED
    BY <2>1, <2>2, <2>3
<1>3. DriverTypes'
  BY <1>2, SameLoad DEF Observe, SessionTypes, DriverTypes, driverVars
<1>4. UNCHANGED <<load, episodeVars, expertVars>>
  BY <1>2 DEF Observe
<1> QED
  BY <1>3, <1>4, EpisodeFrame, ExpertFrame DEF SessionTypes

(* drive() up to the engine keeps the types: the sorted input is one, and   *)
(* the buffers take it in.                                                  *)
LEMMA DriveTypes ==
  ASSUME SessionTypes, NEW s \in Sessions, Drive(s)
  PROVE  SessionTypes'
<1> DEFINE TickType == [frames: Nat, poses: Seq(load.times), route: load.times \cup {0}]
           input == [tick[s] EXCEPT !.poses = InTimeOrder(@)]
<1>0. load \in Loads /\ load' = load
  BY DEF SessionTypes, Drive
<1>1. tick[s] \in TickType
  BY DEF SessionTypes, DriverTypes
<1>2. input \in TickType
  <2>1. InTimeOrder(tick[s].poses) \in Seq(load.times)
    <3>1. load.times \subseteq Nat /\ tick[s].poses \in Seq(load.times)
      BY <1>0, <1>1, LoadFacts
    <3> QED BY <3>1, InTimeOrderType
  <2> QED
    BY <1>1, <2>1
<1>3. NextTick(tick[s]) \in TickType
  <2>1. <<>> \in Seq(load.times)
    OBVIOUS
  <2> QED
    BY <1>1, <2>1 DEF NextTick, EmptyTick
<1>4. Ingest(buf[s], input) \in Buffers
  <2>1. /\ load.times \subseteq Nat \ {0}
        /\ buf[s] \in [frames: 0 .. NumContextFrames, ego: Seq(load.times),
              route: load.times \cup {0}]
    BY <1>0, LoadFacts DEF SessionTypes, DriverTypes, Buffers
  <2> HIDE DEF input
  <2> QED
    BY <1>2, <2>1, IngestType DEF Buffers
<1>5. step[s] + 1 \in Ticks /\ step[s] + 1 \in 0 .. load.ticks
  BY <1>0, LoadFacts DEF Drive, SessionTypes, DriverTypes, Ticks
<1>6. /\ step' = [step EXCEPT ![s] = @ + 1]
      /\ tick' = [tick EXCEPT ![s] = NextTick(@)]
      /\ buf' = [buf EXCEPT ![s] = Ingest(@, input)] \/ buf' = buf
      /\ \/ /\ rpc' = [rpc EXCEPT ![s] = "ask"]
            /\ now' = [now EXCEPT ![s] = [tick |-> step'[s], poses |-> input.poses]]
         \/ UNCHANGED <<rpc, now>>
      /\ UNCHANGED <<truth, phase>>
  BY DEF Drive
<1>7. input.poses \in Seq(load.times)
  BY <1>2
<1> HIDE DEF input
<1>8. DriverTypes'
  <2>0. DriverTypes
    BY DEF SessionTypes
  <2>1. step' \in [Sessions -> 0 .. load.ticks] /\ step'[s] = step[s] + 1
    BY <1>5, <1>6, <2>0 DEF DriverTypes
  <2>2. tick' \in [Sessions -> TickType]
    BY <1>3, <1>6, <2>0 DEF DriverTypes
  <2>3. buf' \in [Sessions -> Buffers]
    BY <1>4, <1>6, <2>0 DEF DriverTypes
  <2>4. rpc' \in [Sessions -> RpcPcs]
    BY <1>6, <2>0 DEF DriverTypes, RpcPcs
  <2>5. now' \in [Sessions -> [tick: 0 .. load.ticks, poses: Seq(load.times)]]
    <3> DEFINE entry == [tick |-> step'[s], poses |-> input.poses]
    <3>1. entry \in [tick: 0 .. load.ticks, poses: Seq(load.times)]
      BY <1>5, <1>7, <2>1
    <3> HIDE DEF entry
    <3>2. now' = [now EXCEPT ![s] = entry] \/ now' = now
      BY <1>6 DEF entry
    <3> QED
      BY <2>0, <3>1, <3>2 DEF DriverTypes
  <2>6. \A z \in Sessions : rpc'[z] # "idle" => now'[z].tick \in Ticks
    <3>1. \A z \in Sessions : rpc[z] # "idle" => now[z].tick \in Ticks
      BY <2>0 DEF DriverTypes
    <3>2. CASE UNCHANGED <<rpc, now>>
      BY <3>1, <3>2
    <3>3. CASE /\ rpc' = [rpc EXCEPT ![s] = "ask"]
               /\ now' = [now EXCEPT ![s] = [tick |-> step'[s], poses |-> input.poses]]
      <4>1. now'[s].tick = step'[s] /\ step'[s] \in Ticks
        BY <1>5, <2>0, <2>1, <3>3 DEF DriverTypes
      <4>2. \A z \in Sessions : z # s => now'[z] = now[z] /\ rpc'[z] = rpc[z]
        BY <2>0, <3>3 DEF DriverTypes
      <4> QED
        BY <3>1, <4>1, <4>2
    <3> QED
      BY <1>6, <3>2, <3>3
  <2>7. UNCHANGED <<truth, phase>>
    BY <1>6
  <2> HIDE DEF TickType
  <2> QED
    BY <1>0, <2>0, <2>1, <2>2, <2>3, <2>4, <2>5, <2>6, <2>7, SameLoad DEF DriverTypes, TickType
<1>9. UNCHANGED <<load, episodeVars, expertVars>>
  BY DEF Drive
<1> QED
  BY <1>8, <1>9, EpisodeFrame, ExpertFrame DEF SessionTypes

(* The end of a drive call keeps the driver's types.                        *)
LEMMA ReturnTypes ==
  ASSUME load \in Loads, UNCHANGED <<load, truth, phase, tick, step, buf>>, DriverTypes,
            NEW s \in Sessions, Return(s)
  PROVE  DriverTypes'
<1> DEFINE entry == [tick |-> 0, poses |-> <<>>]
<1>1. entry \in [tick: 0 .. load.ticks, poses: Seq(load.times)]
  BY LoadFacts
<1>2. now' = [now EXCEPT ![s] = entry] /\ rpc' = [rpc EXCEPT ![s] = "idle"]
  BY DEF Return
<1> HIDE DEF entry
<1>3. now' \in [Sessions -> [tick: 0 .. load.ticks, poses: Seq(load.times)]]
  BY <1>1, <1>2 DEF DriverTypes
<1>4. rpc' \in [Sessions -> RpcPcs] /\ \A z \in Sessions : rpc'[z] # "idle"
         => now'[z].tick \in Ticks
  BY <1>2 DEF DriverTypes, RpcPcs
<1> QED
  BY <1>3, <1>4, SameLoad DEF DriverTypes

(* Recording a step keeps the types of the record.                          *)
LEMMA RecordTypes ==
  ASSUME load \in Loads, load' = load, DriverTypes, EpisodeTypes, NEW s \in Sessions,
         NEW out \in Output, RecordAndRespond(s, out)
  PROVE  EpisodeTypes'
<1>1. now[s].poses \in Seq(load.times)
  BY DEF DriverTypes
<1>2. Fresh(s) \in Seq(load.times)
  BY <1>1, FreshType
<1>3. out.driver \in {"student", "expert"}
  BY DEF Output
<1>4. outputs' \in [Sessions -> Seq(Output)]
  <2>1. Append(outputs[s], out) \in Seq(Output)
    BY DEF EpisodeTypes
  <2> QED
    BY <2>1 DEF RecordAndRespond, RecordStep, EpisodeTypes
<1>5. executed' \in [Sessions -> Seq(load.times)]
  <2>1. executed[s] \o Fresh(s) \in Seq(load.times)
    BY <1>2 DEF EpisodeTypes
  <2> QED
    BY <2>1 DEF RecordAndRespond, RecordStep, EpisodeTypes
<1>6. drove' \in [Sessions -> Seq({"student", "expert"})]
  <2>1. Append(drove[s], out.driver) \in Seq({"student", "expert"})
    BY <1>3 DEF EpisodeTypes
  <2> QED
    BY <2>1 DEF RecordAndRespond, Respond, EpisodeTypes
<1> QED
  BY <1>4, <1>5, <1>6, SameLoad DEF EpisodeTypes

(* Appending to expert_futures keeps the expert's types.                    *)
LEMMA PutFutureTypes ==
  ASSUME load' = load, ExpertTypes, NEW s \in Sessions, NEW f \in Ticks \cup {None},
         PutFuture(s, f), UNCHANGED <<tokens, collector, record, hurried>>,
         ask' \in [Sessions -> [Ticks -> QueryStates]]
  PROVE  ExpertTypes'
<1>1. futures[s] \in Seq(Ticks \cup {None}) /\ tokens[s] \in Seq(Ticks \cup {None})
  BY DEF ExpertTypes
<1>2. Append(futures[s], f) \in Seq(Ticks \cup {None})
         /\ Len(Append(futures[s], f)) = Len(futures[s]) + 1
  BY <1>1
<1>3. futures' \in [Sessions -> Seq(Ticks \cup {None})]
  BY <1>2 DEF PutFuture, ExpertTypes
<1>4. \A z \in Sessions : Len(tokens'[z]) <= Len(futures'[z])
  <2>1. futures'[s] = Append(futures[s], f) /\ \A z \in Sessions : z # s
           => futures'[z] = futures[z]
    BY DEF PutFuture, ExpertTypes
  <2>2. Len(futures[s]) \in Nat /\ Len(tokens[s]) \in Nat /\ Len(tokens[s]) <= Len(futures[s])
    BY <1>1 DEF ExpertTypes
  <2>3. Len(tokens'[s]) <= Len(futures'[s])
    BY <1>2, <2>1, <2>2
  <2> QED
    BY <2>1, <2>3 DEF ExpertTypes
<1> QED
  BY <1>3, <1>4, SameLoad DEF ExpertTypes

(* What a handler records is an output of a real tick, never of None.       *)
LEMMA OutputTypes ==
  ASSUME load \in Loads, DriverTypes, NEW s \in Sessions, rpc[s] # "idle"
  PROVE  /\ now[s].tick \in Ticks /\ now[s].tick # None
         /\ StudentOutput(s) \in Output
         /\ \A d \in {"student", "expert"} : LabelledOutput(s, d) \in Output
<1>1. now[s].tick \in Ticks /\ now[s].tick # None
  BY LoadFacts DEF DriverTypes, None
<1> QED
  BY <1>1 DEF StudentOutput, LabelledOutput, Output

(* Every way a drive call ends keeps the types.                             *)
LEMMA AnswerTypes ==
  ASSUME SessionTypes, NEW s \in Sessions,
         \/ PostprocessRaises(s) \/ RespondUnlabelled(s) \/ QueryAndRespond(s)
         \/ \E d \in {"student", "expert"} : RespondLabelled(s, d)
         \/ RespondAnyway(s)
  PROVE  SessionTypes'
<1> USE DEF SessionTypes
<1>0. None \in Ticks \cup {None} /\ ask \in [Sessions -> [Ticks -> QueryStates]]
  BY DEF ExpertTypes
<1>1. CASE PostprocessRaises(s)
  <2>1. Return(s) /\ UNCHANGED <<load, truth, phase, tick, step, buf, episodeVars, expertVars>>
    BY <1>1 DEF PostprocessRaises
  <2> QED
    BY <2>1, ReturnTypes, EpisodeFrame, ExpertFrame
<1>2. ASSUME NEW out \in Output, RecordAndRespond(s, out),
             UNCHANGED <<load, truth, phase, tick, step, buf>>, ExpertTypes'
      PROVE  SessionTypes'
  <2>1. Return(s) /\ load' = load
    BY <1>2 DEF RecordAndRespond
  <2>2. DriverTypes'
    BY <1>2, <2>1, ReturnTypes
  <2>3. EpisodeTypes'
    BY <1>2, RecordTypes
  <2> QED
    BY <1>2, <2>1, <2>2, <2>3
<1>3. CASE RespondUnlabelled(s)
  <2>1. StudentOutput(s) \in Output
    BY <1>3, OutputTypes DEF RespondUnlabelled
  <2>2. ExpertTypes'
    <3>1. CASE UNCHANGED futures
      BY <1>3, <3>1, ExpertFrame DEF RespondUnlabelled, expertVars
    <3>2. CASE PutFuture(s, None)
      BY <1>0, <1>3, <3>2, PutFutureTypes DEF RespondUnlabelled
    <3> QED
      BY <1>3, <3>1, <3>2 DEF RespondUnlabelled
  <2> QED
    BY <1>2, <1>3, <2>1, <2>2 DEF RespondUnlabelled
<1>4. CASE QueryAndRespond(s)
  <2>1. StudentOutput(s) \in Output /\ now[s].tick \in Ticks
    BY <1>4, OutputTypes DEF QueryAndRespond
  <2>2. ask' \in [Sessions -> [Ticks -> QueryStates]]
    BY <1>0, <1>4, <2>1 DEF QueryAndRespond, Query, QueryStates
  <2>3. ExpertTypes'
    BY <1>4, <2>1, <2>2, PutFutureTypes DEF QueryAndRespond
  <2> QED
    BY <1>2, <1>4, <2>1, <2>3 DEF QueryAndRespond
<1>5. ASSUME NEW d \in {"student", "expert"}, RespondLabelled(s, d)
      PROVE  SessionTypes'
  <2>1. LabelledOutput(s, d) \in Output
    BY <1>5, OutputTypes DEF RespondLabelled
  <2>2. ExpertTypes'
    BY <1>0, <1>5, PutFutureTypes DEF RespondLabelled
  <2> QED
    BY <1>2, <1>5, <2>1, <2>2 DEF RespondLabelled
<1>6. CASE RespondAnyway(s)
  <2>1. StudentOutput(s) \in Output
    BY <1>6, OutputTypes DEF RespondAnyway
  <2>2. ExpertTypes'
    BY <1>0, <1>6, PutFutureTypes DEF RespondAnyway
  <2> QED
    BY <1>2, <1>6, <2>1, <2>2 DEF RespondAnyway
<1> QED
  BY <1>1, <1>3, <1>4, <1>5, <1>6

(* Labelling a record keeps its outputs outputs.                            *)
LEMMA LabelledType ==
  ASSUME NEW outs \in Seq(Output), NEW toks \in Seq(Ticks \cup {None})
  PROVE  Labelled(outs, toks) \in Seq(Output)
<1>1. outs \in [1 .. Len(outs) -> Output] /\ Len(outs) \in Nat /\ DOMAIN outs = 1 .. Len(outs)
  OBVIOUS
<1>2. \A i \in DOMAIN toks : toks[i] \in Ticks \cup {None}
  OBVIOUS
<1>3. \A o \in Output : \A t \in Ticks \cup {None} : [o EXCEPT !.label = t] \in Output
  BY DEF Output
<1>4. Labelled(outs, toks) \in [1 .. Len(outs) -> Output]
  BY <1>1, <1>2, <1>3 DEF Labelled
<1> QED
  BY <1>1, <1>4

(* close_session, the collector and the expert's client keep the types.     *)
LEMMA CollectorTypes ==
  ASSUME SessionTypes, NEW s \in Sessions,
         \/ CloseSession(s) \/ CollectFuture(s) \/ LabelRecord(s) \/ SetEvent(s)
         \/ \E t \in Ticks : ExpertReplies(s, t)
  PROVE  SessionTypes'
<1> USE DEF SessionTypes
<1>1. CASE CloseSession(s)
  <2>1. EmptyTick \in [frames: Nat, poses: Seq(load.times), route: load.times \cup {0}]
    BY DEF EmptyTick
  <2>2. EmptyBuffers \in Buffers
    <3>1. 0 \in 0 .. NumContextFrames /\ 0 <= NumWaypoints + 1
      BY BufferAssumption DEF BufferAssumption
    <3> QED
      BY <3>1 DEF EmptyBuffers, Buffers
  <2>3. DriverTypes'
    BY <1>1, <2>1, <2>2, SameLoad DEF CloseSession, DriverTypes
  <2>4. ExpertTypes'
    BY <1>1, SameLoad DEF CloseSession, ExpertTypes, CollectorPcs
  <2>5. UNCHANGED <<load, episodeVars>>
    BY <1>1 DEF CloseSession
  <2> QED
    BY <2>3, <2>4, <2>5, EpisodeFrame
<1>2. CASE CollectFuture(s)
  <2> DEFINE f == futures[s][Len(tokens[s]) + 1]
  <2>1. /\ futures[s] \in Seq(Ticks \cup {None}) /\ tokens[s] \in Seq(Ticks \cup {None})
        /\ Len(tokens[s]) \in Nat /\ Len(futures[s]) \in Nat /\ Len(tokens[s]) < Len(futures[s])
    BY <1>2 DEF ExpertTypes, CollectFuture
  <2>2. f \in Ticks \cup {None}
    <3>1. Len(tokens[s]) + 1 \in 1 .. Len(futures[s])
      BY <2>1
    <3> QED BY <2>1, <3>1, ElementOfSeq
  <2>3. PICK token \in Ticks \cup {None} : tokens' = [tokens EXCEPT ![s] = Append(@, token)]
    BY <1>2, <2>2 DEF CollectFuture
  <2>4. Append(tokens[s], token) \in Seq(Ticks \cup {None})
           /\ Len(Append(tokens[s], token)) = Len(tokens[s]) + 1
    BY <2>1, AppendProperties
  <2>5. tokens' \in [Sessions -> Seq(Ticks \cup {None})]
    BY <2>3, <2>4 DEF ExpertTypes
  <2>6. \A z \in Sessions : Len(tokens'[z]) <= Len(futures'[z])
    <3>1. tokens'[s] = Append(tokens[s], token) /\ \A z \in Sessions : z # s
             => tokens'[z] = tokens[z]
      BY <2>3 DEF ExpertTypes
    <3>2. futures' = futures
      BY <1>2 DEF CollectFuture
    <3>3. Len(tokens'[s]) <= Len(futures'[s])
      BY <2>1, <2>4, <3>1, <3>2
    <3> QED
      BY <3>1, <3>2, <3>3 DEF ExpertTypes
  <2>7. UNCHANGED <<load, driverVars, episodeVars, futures, ask, collector, record, hurried>>
    BY <1>2 DEF CollectFuture
  <2>8. ExpertTypes'
    BY <2>5, <2>6, <2>7, SameLoad DEF ExpertTypes
  <2> QED
    BY <2>7, <2>8, DriverFrame, EpisodeFrame
<1>3. CASE LabelRecord(s)
  <2>1. UNCHANGED <<load, driverVars, executed, drove, futures, ask, tokens, record, hurried>>
    BY <1>3 DEF LabelRecord
  <2>2. collector' \in [Sessions -> CollectorPcs]
    BY <1>3 DEF LabelRecord, ExpertTypes, CollectorPcs
  <2>3. ExpertTypes'
    BY <2>1, <2>2, SameLoad DEF ExpertTypes
  <2>4. outputs[s] \in Seq(Output) /\ tokens[s] \in Seq(Ticks \cup {None})
    BY DEF EpisodeTypes, ExpertTypes
  <2>5. outputs' \in [Sessions -> Seq(Output)]
    <3>1. CASE outputs' = outputs
      BY <3>1 DEF EpisodeTypes
    <3>2. CASE outputs' = [outputs EXCEPT ![s] = Labelled(@, tokens[s])]
      <4>1. Labelled(outputs[s], tokens[s]) \in Seq(Output)
        BY <2>4, LabelledType
      <4> QED
        BY <3>2, <4>1 DEF EpisodeTypes
    <3>3. ASSUME NEW i \in DOMAIN tokens[s],
                 outputs' = [outputs EXCEPT ![s] = Labelled(@, SubSeq(tokens[s], 1, i))]
          PROVE  outputs' \in [Sessions -> Seq(Output)]
      <4>1. SubSeq(tokens[s], 1, i) \in Seq(Ticks \cup {None})
        BY <2>4
      <4>2. Labelled(outputs[s], SubSeq(tokens[s], 1, i)) \in Seq(Output)
        BY <2>4, <4>1, LabelledType
      <4> QED
        BY <3>3, <4>2 DEF EpisodeTypes
    <3> QED
      BY <1>3, <3>1, <3>2, <3>3 DEF LabelRecord
  <2>6. EpisodeTypes'
    BY <2>1, <2>5, SameLoad DEF EpisodeTypes
  <2> QED
    BY <2>1, <2>3, <2>6, DriverFrame
<1>4. CASE SetEvent(s)
  <2>1. ExpertTypes'
    BY <1>4, SameLoad DEF SetEvent, ExpertTypes, CollectorPcs
  <2>2. UNCHANGED <<load, driverVars, episodeVars>>
    BY <1>4 DEF SetEvent
  <2> QED
    BY <2>1, <2>2, DriverFrame, EpisodeFrame
<1>5. ASSUME NEW t \in Ticks, ExpertReplies(s, t) PROVE SessionTypes'
  <2>1. PICK a \in QueryStates : ask' = [ask EXCEPT ![s][t] = a]
    BY <1>5 DEF ExpertReplies, Settled, QueryStates
  <2>2. ask' \in [Sessions -> [Ticks -> QueryStates]]
    BY <2>1 DEF ExpertTypes
  <2>3. UNCHANGED <<load, driverVars, episodeVars, futures, tokens, collector, record, hurried>>
    BY <1>5 DEF ExpertReplies
  <2>4. ExpertTypes'
    BY <2>2, <2>3, SameLoad DEF ExpertTypes
  <2> QED
    BY <2>3, <2>4, DriverFrame, EpisodeFrame
<1> QED
  BY <1>1, <1>2, <1>3, <1>4, <1>5

(* start_session and the waits of drive() keep the types.                   *)
LEMMA CallTypes ==
  ASSUME SessionTypes, NEW s \in Sessions, StartSession(s) \/ AskEngine(s) \/ QueryAndWait(s)
  PROVE  SessionTypes'
<1> USE DEF SessionTypes
<1>1. CASE StartSession(s)
  <2>1. DriverTypes'
    BY <1>1, SameLoad DEF StartSession, DriverTypes
  <2> QED
    BY <1>1, <2>1, EpisodeFrame, ExpertFrame DEF StartSession
<1>2. CASE AskEngine(s)
  <2>1. DriverTypes'
    BY <1>2, SameLoad DEF AskEngine, DriverTypes, RpcPcs
  <2> QED
    BY <1>2, <2>1, EpisodeFrame, ExpertFrame DEF AskEngine
<1>3. CASE QueryAndWait(s)
  <2>1. DriverTypes'
    BY <1>3, SameLoad DEF QueryAndWait, DriverTypes, RpcPcs
  <2>2. now[s].tick \in Ticks
    BY <1>3, OutputTypes DEF QueryAndWait
  <2>3. ask' \in [Sessions -> [Ticks -> QueryStates]]
    BY <1>3, <2>2 DEF QueryAndWait, Query, QueryStates, ExpertTypes
  <2>4. ExpertTypes'
    BY <1>3, <2>3, SameLoad DEF QueryAndWait, ExpertTypes
  <2> QED
    BY <1>3, <2>1, <2>4, EpisodeFrame DEF QueryAndWait
<1> QED
  BY <1>1, <1>2, <1>3

(* submit_recording_ground_truth keeps the types.                           *)
LEMMA GroundTruthTypes ==
  ASSUME SessionTypes, NEW s \in Sessions, NEW recording \in load.recordings,
         SubmitGroundTruth(s, recording)
  PROVE  SessionTypes'
<1> USE DEF SessionTypes
<1> DEFINE entry == [recording EXCEPT !.times = InTimeOrder(@)]
<1>1. recording \in [anchor: Nat, times: Seq(Nat \ {0})]
  BY LoadFacts
<1>2. InTimeOrder(recording.times) \in Seq(Nat)
  <2>1. recording.times \in Seq(Nat)
    BY <1>1, SeqMonotonic
  <2> QED
    BY <2>1, InTimeOrderType
<1>3. entry \in [anchor: Nat, times: Seq(Nat)]
  BY <1>1, <1>2
<1> HIDE DEF entry
<1>4. truth' \in [Sessions -> [anchor: Nat, times: Seq(Nat)]]
  BY <1>3 DEF SubmitGroundTruth, DriverTypes, entry
<1>5. DriverTypes'
  BY <1>4, SameLoad DEF SubmitGroundTruth, DriverTypes
<1> QED
  BY <1>5, EpisodeFrame, ExpertFrame DEF SubmitGroundTruth

-----------------------------------------------------------------------------
(* The process                                                              *)

(* Types of the engine and of the backend around it.                        *)
EngineTypes ==
  /\ queue \in Seq(Sessions \cup {Shutdown}) /\ batch \in Seq(Sessions)
  /\ engine \in EnginePcs /\ Len(batch) <= MaxBatch
  /\ backend \in BackendLife /\ grace \in BOOLEAN /\ accepting \in BOOLEAN

(* Where the requests are: a handler waits for the engine exactly if its    *)
(* session is queued or in the batch, once, and an engine that has returned *)
(* has taken the sentinel.                                                  *)
Queueing ==
  /\ IsInjective(queue) /\ IsInjective(batch) /\ Range(queue) \cap Range(batch) = {}
  /\ \A s \in Sessions : rpc[s] = "infer" <=> s \in Range(queue) \cup Range(batch)
  /\ engine \notin {"forward", "dead"} => batch = <<>>
  /\ Shutdown \in Range(queue) => engine # "exited"

(* The order of the shutdown: the sentinel is posted after the server has   *)
(* stopped, and then no call is under way unless the grace period ran out.  *)
Stopping ==
  /\ Shutdown \in Range(queue) \/ engine = "exited" => backend \in {"joining", "down"}
  /\ accepting <=> backend \in {"serving", "ready", "failed", "dismissed"}
  /\ backend \in {"fresh", "serving", "failed", "other"} => engine = "absent"
  /\ backend \in {"joining", "down"} /\ ~grace => \A s \in Sessions : rpc[s] = "idle"

WaitInv == EngineTypes /\ Queueing /\ Stopping

(* At the start nobody waits.                                               *)
LEMMA WaitInit == Init => WaitInv
<1> SUFFICES ASSUME Init PROVE WaitInv
  OBVIOUS
<1>1. EngineTypes
  <2>1. 0 <= MaxBatch
    BY ServingAssumption DEF ServingAssumption
  <2>2. queue \in Seq(Sessions \cup {Shutdown}) /\ batch \in Seq(Sessions) /\ Len(batch) = 0
    BY DEF Init
  <2> QED
    BY <2>1, <2>2 DEF Init, EngineTypes, EnginePcs, BackendLife
<1>2. Range(queue) = {} /\ Range(batch) = {} /\ IsInjective(queue) /\ IsInjective(batch)
  BY DEF Init, Range, IsInjective
<1>3. Queueing
  BY <1>2 DEF Init, Queueing
<1>4. Stopping
  BY <1>2 DEF Init, Stopping
<1> QED
  BY <1>1, <1>3, <1>4 DEF WaitInv

(* A driver step, other than one that asks the engine, leaves engine,       *)
(* backend and jobs alone; it moves its own handler, never one that waits   *)
(* for the engine, and starts one only while the server takes calls.        *)
LEMMA RpcStep ==
  ASSUME NEW s \in Sessions, ~AskEngine(s),
         DriverNext(s) \/ \E recording \in load.recordings : SubmitGroundTruth(s, recording)
  PROVE  /\ UNCHANGED <<load, engineVars, serverVars, jobVars, genVars>>
         /\ \/ rpc' = rpc
            \/ \E v \in RpcPcs \ {"infer"} :
                 /\ rpc' = [rpc EXCEPT ![s] = v] /\ rpc[s] # "infer"
                 /\ rpc[s] = "idle" => accepting
<1>1. CASE DriverNext(s)
  <2>1. CASE StartSession(s) \/ SubmitImage(s) \/ CloseSession(s) \/ CollectFuture(s)
                \/ LabelRecord(s) \/ SetEvent(s)
    BY <2>1 DEF StartSession, SubmitImage, Observe, CloseSession, CollectFuture, LabelRecord,
          SetEvent, driverVars
  <2>2. CASE \E t \in load.times : SubmitEgomotion(s, t) \/ SubmitRoute(s, t)
    BY <2>2 DEF SubmitEgomotion, SubmitRoute, Observe
  <2>3. CASE Drive(s)
    BY <2>3 DEF Drive, Called, RpcPcs
  <2>4. CASE PostprocessRaises(s) \/ RespondUnlabelled(s) \/ QueryAndRespond(s) \/ RespondAnyway(s)
    BY <2>4 DEF PostprocessRaises, RespondUnlabelled, QueryAndRespond, RespondAnyway,
       RecordAndRespond, Return, RpcPcs
  <2>5. CASE \E d \in {"student", "expert"} : RespondLabelled(s, d)
    BY <2>5 DEF RespondLabelled, RecordAndRespond, Return, RpcPcs
  <2>6. CASE QueryAndWait(s)
    BY <2>6 DEF QueryAndWait, RpcPcs
  <2>7. CASE \E t \in Ticks : ExpertReplies(s, t)
    BY <2>7 DEF ExpertReplies, driverVars
  <2> QED
    BY <1>1, <2>1, <2>2, <2>3, <2>4, <2>5, <2>6, <2>7 DEF DriverNext
<1>2. CASE \E recording \in load.recordings : SubmitGroundTruth(s, recording)
  BY <1>2 DEF SubmitGroundTruth
<1> QED
  BY <1>1, <1>2

(* The driver keeps the waiting in order: a call it starts is refused once  *)
(* the server stops, a request it posts was not there before.               *)
LEMMA DriverKeepsWait ==
  ASSUME SessionTypes, WaitInv, NEW s \in Sessions,
         DriverNext(s) \/ \E recording \in load.recordings : SubmitGroundTruth(s, recording)
  PROVE  WaitInv'
<1>0. rpc \in [Sessions -> RpcPcs] /\ load \in Loads
  BY DEF SessionTypes, DriverTypes
<1>1. CASE ~AskEngine(s)
  <2>1. /\ UNCHANGED <<load, queue, batch, engine, backend, grace, accepting>>
        /\ \/ rpc' = rpc
           \/ \E v \in RpcPcs \ {"infer"} :
                /\ rpc' = [rpc EXCEPT ![s] = v] /\ rpc[s] # "infer"
                /\ rpc[s] = "idle" => accepting
    BY <1>1, RpcStep DEF engineVars, serverVars
  <2>2. EngineTypes'
    BY <2>1, SameLoad DEF WaitInv, EngineTypes
  <2>3. Queueing'
    <3>1. \A z \in Sessions : rpc'[z] = "infer" <=> rpc[z] = "infer"
      BY <1>0, <2>1
    <3> QED
      BY <2>1, <3>1, SameLoad DEF WaitInv, Queueing
  <2>4. Stopping'
    <3>1. backend \in {"joining", "down"} /\ ~grace => \A z \in Sessions : rpc'[z] = "idle"
      BY <1>0, <2>1 DEF WaitInv, Stopping
    <3> QED
      BY <2>1, <3>1, SameLoad DEF WaitInv, Stopping
  <2> QED
    BY <2>2, <2>3, <2>4 DEF WaitInv
<1>2. CASE AskEngine(s)
  <2>1. /\ UNCHANGED <<load, batch, engine, backend, grace, accepting>>
        /\ queue' = Append(queue, s) /\ rpc' = [rpc EXCEPT ![s] = "infer"] /\ rpc[s] = "ask"
    BY <1>2 DEF AskEngine, Infer, serverVars
  <2>2. s # Shutdown
    BY <1>0, LoadFacts DEF Shutdown
  <2>3. queue \in Seq(Sessions \cup {Shutdown}) /\ batch \in Seq(Sessions)
    BY DEF WaitInv, EngineTypes
  <2>4. queue' \in Seq(Sessions \cup {Shutdown}) /\ Range(queue') = Range(queue) \cup {s}
    <3>1. /\ DOMAIN queue' = 1 .. Len(queue) + 1 /\ queue'[Len(queue) + 1] = s
          /\ \A i \in 1 .. Len(queue) : queue'[i] = queue[i]
          /\ DOMAIN queue = 1 .. Len(queue)
      BY <2>1, <2>3
    <3> QED
      BY <2>1, <2>3, <3>1 DEF Range
  <2>5. s \notin Range(queue) \cup Range(batch)
    BY <2>1 DEF WaitInv, Queueing
  <2>6. IsInjective(queue')
    <3>1. \A i \in 1 .. Len(queue) : queue[i] # s
      BY <2>3, <2>5 DEF Range
    <3> QED
      BY <2>1, <2>3, <3>1 DEF WaitInv, Queueing, IsInjective
  <2>7. EngineTypes'
    BY <2>1, <2>4, SameLoad DEF WaitInv, EngineTypes
  <2>8. Queueing'
    <3>1. \A z \in Sessions : rpc'[z] = "infer" <=> z \in Range(queue') \cup Range(batch')
      BY <1>0, <2>1, <2>4 DEF WaitInv, Queueing
    <3>2. Range(queue') \cap Range(batch') = {}
      BY <2>1, <2>4, <2>5 DEF WaitInv, Queueing
    <3>3. Shutdown \in Range(queue') => engine' # "exited"
      BY <2>1, <2>2, <2>4 DEF WaitInv, Queueing
    <3> QED
      BY <2>1, <2>6, <3>1, <3>2, <3>3, SameLoad DEF WaitInv, Queueing
  <2>9. Stopping'
    <3>1. ~(backend \in {"joining", "down"} /\ ~grace)
      BY <2>1 DEF WaitInv, Stopping
    <3>2. Shutdown \in Range(queue') => Shutdown \in Range(queue)
      BY <2>2, <2>4
    <3> QED
      BY <2>1, <3>1, <3>2 DEF WaitInv, Stopping
  <2> QED
    BY <2>7, <2>8, <2>9 DEF WaitInv
<1> QED
  BY <1>1, <1>2

(* A batch is a prefix of the queue, no longer than configured, without the *)
(* sentinel.                                                                *)
LEMMA BatchFacts ==
  ASSUME EngineTypes, load \in Loads
  PROVE  /\ BatchSize(queue) \in 0 .. Len(queue) /\ BatchSize(queue) <= MaxBatch
         /\ IsInjective(queue) => \A i \in 1 .. BatchSize(queue) : queue[i] \in Sessions
<1> DEFINE n == RequestsAhead(queue)
<1>1. queue \in Seq(Sessions \cup {Shutdown}) /\ Len(queue) \in Nat
         /\ DOMAIN queue = 1 .. Len(queue)
  BY DEF EngineTypes
<1>2. n \in 0 .. Len(queue) /\ (IsInjective(queue) => \A i \in 1 .. n : queue[i] # Shutdown)
  <2>1. CASE Shutdown \in Range(queue)
    <3>1. PICK k \in 1 .. Len(queue) : queue[k] = Shutdown
      BY <1>1, <2>1 DEF Range
    <3>2. k - 1 \in 0 .. Len(queue) - 1 /\ (k - 1) + 1 = k
      BY <1>1
    <3>3. n \in 0 .. Len(queue) - 1 /\ queue[n + 1] = Shutdown
      <4>1. n = CHOOSE m \in 0 .. Len(queue) - 1 : queue[m + 1] = Shutdown
        BY <2>1 DEF RequestsAhead
      <4>2. \E m \in 0 .. Len(queue) - 1 : queue[m + 1] = Shutdown
        BY <3>1, <3>2
      <4> HIDE DEF n
      <4> QED BY <4>1, <4>2
    <3> HIDE DEF n
    <3>4. n + 1 \in 1 .. Len(queue) /\ \A i \in 1 .. n : i # n + 1 /\ i \in 1 .. Len(queue)
      BY <1>1, <3>3
    <3> QED
      BY <1>1, <3>3, <3>4 DEF IsInjective
  <2>2. CASE Shutdown \notin Range(queue)
    <3>1. n = Len(queue)
      BY <2>2 DEF RequestsAhead
    <3>2. \A i \in 1 .. Len(queue) : queue[i] # Shutdown
      BY <1>1, <2>2 DEF Range
    <3> QED
      BY <1>1, <3>1, <3>2
  <2> QED
    BY <2>1, <2>2
<1>3. MaxBatch \in Nat
  BY ServingAssumption DEF ServingAssumption
<1> HIDE DEF n
<1>4. BatchSize(queue) \in 0 .. n /\ BatchSize(queue) <= MaxBatch
  BY <1>2, <1>3 DEF BatchSize, Least, n
<1>5. \A i \in 1 .. BatchSize(queue) : i \in 1 .. n /\ i \in 1 .. Len(queue)
  BY <1>1, <1>2, <1>4
<1>6. \A i \in 1 .. Len(queue) : queue[i] # Shutdown => queue[i] \in Sessions
  BY <1>1
<1> QED
  BY <1>1, <1>2, <1>4, <1>5, <1>6

(* The engine keeps the waiting in order: a batch moves from queue to batch *)
(* as a whole, its answers end exactly its waits.                           *)
LEMMA EngineKeepsWait ==
  ASSUME SessionTypes, WaitInv, EngineNext
  PROVE  WaitInv'
<1>0. /\ rpc \in [Sessions -> RpcPcs] /\ load \in Loads
      /\ queue \in Seq(Sessions \cup {Shutdown}) /\ batch \in Seq(Sessions)
      /\ Len(queue) \in Nat /\ DOMAIN queue = 1 .. Len(queue) /\ MaxBatch \in Nat
      /\ Shutdown \notin Sessions
  <2>1. /\ rpc \in [Sessions -> RpcPcs] /\ load \in Loads
        /\ queue \in Seq(Sessions \cup {Shutdown}) /\ batch \in Seq(Sessions)
    BY DEF SessionTypes, DriverTypes, WaitInv, EngineTypes
  <2>2. MaxBatch \in Nat
    BY ServingAssumption DEF ServingAssumption
  <2>3. Shutdown \notin Sessions
    BY <2>1, LoadFacts DEF Shutdown
  <2> QED
    BY <2>1, <2>2, <2>3
<1>1. CASE CollectBatch
  <2> DEFINE n == BatchSize(queue)
  <2>0. UNCHANGED <<load, rpc, backend, grace, accepting>>
    BY <1>1 DEF CollectBatch, driverVars, serverVars
  <2>1. /\ n \in 1 .. Len(queue) /\ n <= MaxBatch
        /\ \A i \in 1 .. n : queue[i] \in Sessions
    BY <1>0, <1>1, BatchFacts DEF CollectBatch, WaitInv, Queueing
  <2>2. /\ batch' = SubSeq(queue, 1, n) /\ queue' = SubSeq(queue, n + 1, Len(queue))
        /\ engine' = "forward" /\ engine = "ready"
    BY <1>1 DEF CollectBatch
  <2> HIDE DEF n
  <2>3. /\ batch' \in Seq(Sessions) /\ Len(batch') = n /\ DOMAIN batch' = 1 .. n
        /\ \A i \in 1 .. n : batch'[i] = queue[i]
    BY <1>0, <2>1, <2>2
  <2>4. /\ queue' \in Seq(Sessions \cup {Shutdown}) /\ DOMAIN queue' = 1 .. Len(queue) - n
        /\ \A i \in 1 .. Len(queue) - n : queue'[i] = queue[i + n]
    BY <1>0, <2>1, <2>2
  <2>5. IsInjective(batch') /\ IsInjective(queue')
    <3>1. \A i, j \in 1 .. Len(queue) : queue[i] = queue[j] => i = j
      BY <1>0 DEF WaitInv, Queueing, IsInjective
    <3>2. \A i \in 1 .. n : i \in 1 .. Len(queue)
      BY <1>0, <2>1
    <3>3. \A i \in 1 .. Len(queue) - n : i + n \in 1 .. Len(queue)
      BY <1>0, <2>1
    <3>4. \A i, j \in 1 .. n : batch'[i] = batch'[j] => i = j
      BY <2>3, <3>1, <3>2
    <3>5. ASSUME NEW i \in 1 .. Len(queue) - n, NEW j \in 1 .. Len(queue) - n,
                    queue'[i] = queue'[j]
          PROVE  i = j
      <4>1. i + n = j + n
        BY <2>4, <3>1, <3>3, <3>5
      <4> QED BY <1>0, <2>1, <4>1
    <3> QED
      BY <2>3, <2>4, <3>4, <3>5 DEF IsInjective
  <2>6. /\ Range(queue') \cap Range(batch') = {}
        /\ Range(queue') \cup Range(batch') = Range(queue)
    <3>1. \A i, j \in 1 .. Len(queue) : queue[i] = queue[j] => i = j
      BY <1>0 DEF WaitInv, Queueing, IsInjective
    <3>2. /\ \A i \in 1 .. n : i \in 1 .. Len(queue) /\ \A j \in 1 .. Len(queue) - n : i # j + n
          /\ \A j \in 1 .. Len(queue) - n : j + n \in 1 .. Len(queue)
          /\ \A k \in 1 .. Len(queue) : k \in 1 .. n \/ (k - n \in 1 .. Len(queue) - n
                /\ (k - n) + n = k)
      BY <1>0, <2>1
    <3>3. Range(queue') \cap Range(batch') = {}
      BY <2>3, <2>4, <3>1, <3>2 DEF Range
    <3>4. Range(queue') \cup Range(batch') \subseteq Range(queue)
      BY <1>0, <2>3, <2>4, <3>2 DEF Range
    <3>5. ASSUME NEW k \in 1 .. Len(queue)
          PROVE  queue[k] \in Range(queue') \cup Range(batch')
      <4>1. CASE k \in 1 .. n
        <5>1. batch'[k] = queue[k] /\ k \in DOMAIN batch'
          BY <2>3, <4>1
        <5> QED BY <5>1 DEF Range
      <4>2. CASE k - n \in 1 .. Len(queue) - n /\ (k - n) + n = k
        <5>1. queue'[k - n] = queue[k] /\ k - n \in DOMAIN queue'
          BY <2>4, <4>2
        <5> QED BY <5>1 DEF Range
      <4> QED
        BY <3>2, <4>1, <4>2
    <3> QED
      BY <1>0, <3>3, <3>4, <3>5 DEF Range
  <2>7. EngineTypes'
    BY <2>0, <2>1, <2>2, <2>3, <2>4, SameLoad DEF WaitInv, EngineTypes, EnginePcs
  <2>8. Queueing'
    <3>1. Range(batch) = {}
      BY <2>2 DEF WaitInv, Queueing, Range
    <3> QED
      BY <2>0, <2>2, <2>5, <2>6, <3>1, SameLoad DEF WaitInv, Queueing
  <2>9. Stopping'
    BY <2>0, <2>2, <2>6, SameLoad DEF WaitInv, Stopping
  <2> QED
    BY <2>7, <2>8, <2>9 DEF WaitInv
<1>2. CASE AnswerBatch
  <2>1. /\ UNCHANGED <<load, queue, backend, grace, accepting>> /\ batch' = <<>>
              /\ engine' = "ready"
        /\ engine = "forward" /\ rpc' = Unbound(batch)
    BY <1>2 DEF AnswerBatch, serverVars
  <2>2. EngineTypes'
    BY <1>0, <2>1, SameLoad DEF WaitInv, EngineTypes, EnginePcs
  <2>3. Range(batch') = {} /\ IsInjective(batch')
    BY <2>1 DEF Range, IsInjective
  <2>4. \A s \in Sessions : rpc'[s] = "infer" <=> rpc[s] = "infer" /\ s \notin Range(batch)
    BY <1>0, <2>1 DEF Unbound
  <2>5. Queueing'
    BY <2>1, <2>3, <2>4, SameLoad DEF WaitInv, Queueing
  <2>6. backend \in {"joining", "down"} /\ ~grace => \A s \in Sessions : rpc'[s] = "idle"
    BY <1>0, <2>1 DEF Unbound, WaitInv, Queueing, Stopping
  <2>7. Stopping'
    BY <2>1, <2>6, SameLoad DEF WaitInv, Stopping
  <2> QED
    BY <2>2, <2>5, <2>7 DEF WaitInv
<1>3. CASE ForwardRaises
  <2>1. /\ UNCHANGED <<load, rpc, queue, batch, backend, grace, accepting>> /\ engine' = "dead"
        /\ engine = "forward"
    BY <1>3 DEF ForwardRaises, driverVars, serverVars
  <2> QED
    BY <2>1, SameLoad DEF WaitInv, EngineTypes, EnginePcs, Queueing, Stopping
<1>4. CASE TakeSentinel
  <2>1. /\ UNCHANGED <<load, rpc, batch, backend, grace, accepting>> /\ engine' = "exited"
        /\ engine = "ready" /\ queue # <<>> /\ queue[1] = Shutdown /\ queue' = Tail(queue)
    BY <1>4 DEF TakeSentinel, driverVars, serverVars
  <2>2. /\ queue' \in Seq(Sessions \cup {Shutdown}) /\ DOMAIN queue' = 1 .. Len(queue) - 1
        /\ \A i \in 1 .. Len(queue) - 1 : queue'[i] = queue[i + 1]
        /\ 1 \in 1 .. Len(queue)
    BY <1>0, <2>1
  <2>3. \A i, j \in 1 .. Len(queue) : queue[i] = queue[j] => i = j
    BY <1>0 DEF WaitInv, Queueing, IsInjective
  <2>4. /\ \A i \in 1 .. Len(queue) - 1 : i + 1 \in 1 .. Len(queue) /\ i + 1 # 1
        /\ \A i \in 1 .. Len(queue) : i = 1 \/ (i - 1 \in 1 .. Len(queue) - 1 /\ (i - 1) + 1 = i)
        /\ \A i, j \in 1 .. Len(queue) - 1 : i + 1 = j + 1 => i = j
    BY <1>0
  <2>5. IsInjective(queue')
    BY <2>2, <2>3, <2>4 DEF IsInjective
  <2>6. Range(queue') = Range(queue) \ {Shutdown}
    <3>1. \A x \in Range(queue') : x \in Range(queue) /\ x # Shutdown
      BY <1>0, <2>1, <2>2, <2>3, <2>4 DEF Range
    <3>2. ASSUME NEW i \in 1 .. Len(queue), queue[i] # Shutdown
          PROVE  queue[i] \in Range(queue')
      <4>1. i - 1 \in DOMAIN queue' /\ queue'[i - 1] = queue[i]
        BY <2>1, <2>2, <2>4, <3>2
      <4> QED BY <4>1 DEF Range
    <3>3. \A x \in Range(queue) : x # Shutdown => x \in Range(queue')
      BY <1>0, <3>2 DEF Range
    <3> QED
      BY <3>1, <3>3
  <2>7. EngineTypes'
    BY <2>1, <2>2, SameLoad DEF WaitInv, EngineTypes, EnginePcs
  <2>8. Queueing'
    BY <1>0, <2>1, <2>5, <2>6, SameLoad DEF WaitInv, Queueing
  <2>9. Stopping'
    <3>1. Shutdown \in Range(queue)
      BY <1>0, <2>1, <2>2 DEF Range
    <3> QED
      BY <2>1, <3>1, SameLoad DEF WaitInv, Stopping
  <2> QED
    BY <2>7, <2>8, <2>9 DEF WaitInv
<1> QED
  BY <1>1, <1>2, <1>3, <1>4 DEF EngineNext

(* The backend keeps the waiting in order: only shutdown() posts the        *)
(* sentinel, once.                                                          *)
LEMMA BackendKeepsWait ==
  ASSUME SessionTypes, WaitInv, BackendNext
  PROVE  WaitInv'
<1>0. /\ queue \in Seq(Sessions \cup {Shutdown}) /\ Len(queue) \in Nat
            /\ DOMAIN queue = 1 .. Len(queue)
      /\ Shutdown \notin Sessions
  BY LoadFacts DEF SessionTypes, WaitInv, EngineTypes, Shutdown
<1> USE DEF driverVars, engineVars, serverVars
<1>1. CASE StartDriver
  BY <1>1, SameLoad DEF StartDriver, WaitInv, EngineTypes, Queueing, Stopping, BackendLife
<1>2. CASE StartEngine
  <2>1. engine \notin {"exited"} /\ Shutdown \notin Range(queue)
    BY <1>2 DEF StartEngine, WaitInv, Stopping
  <2> QED
    BY <1>2, <2>1, SameLoad DEF StartEngine, WaitInv, EngineTypes, Queueing, Stopping,
          BackendLife, EnginePcs
<1>3. CASE ChannelTimesOut \/ StartOtherRank \/ DismissWorker \/ StopDriver \/ JoinEngine
  <2>1. UNCHANGED <<load, rpc, queue, batch, engine, grace>>
    BY <1>3 DEF ChannelTimesOut, StartOtherRank, DismissWorker, StopDriver, JoinEngine
  <2>2. EngineTypes' /\ Queueing'
    BY <1>3, <2>1, SameLoad DEF ChannelTimesOut, StartOtherRank, DismissWorker, StopDriver,
       JoinEngine, WaitInv, EngineTypes, Queueing, BackendLife
  <2>3. Stopping'
    BY <1>3, <2>1, SameLoad DEF ChannelTimesOut, StartOtherRank, DismissWorker, StopDriver,
       JoinEngine, WaitInv, Stopping
  <2> QED
    BY <2>2, <2>3 DEF WaitInv
<1>4. CASE StopEngine
  <2>1. /\ UNCHANGED <<load, rpc, batch, engine, accepting>> /\ queue' = Append(queue, Shutdown)
        /\ backend = "stopping" /\ backend' = "joining" /\ grace' \in {grace, TRUE}
        /\ ~grace' => CallsAreOver
    BY <1>4 DEF StopEngine, WaitInv, EngineTypes
  <2>2. /\ queue' \in Seq(Sessions \cup {Shutdown}) /\ DOMAIN queue' = 1 .. Len(queue) + 1
        /\ queue'[Len(queue) + 1] = Shutdown /\ \A i \in 1 .. Len(queue) : queue'[i] = queue[i]
    BY <1>0, <2>1
  <2>3. Range(queue') = Range(queue) \cup {Shutdown}
    BY <1>0, <2>2 DEF Range
  <2>4. Shutdown \notin Range(queue) /\ engine # "exited"
    BY <2>1 DEF WaitInv, Stopping
  <2>5. IsInjective(queue')
    <3>1. \A i \in 1 .. Len(queue) : queue[i] # Shutdown
      BY <1>0, <2>4 DEF Range
    <3> QED
      BY <1>0, <2>2, <3>1 DEF WaitInv, Queueing, IsInjective
  <2>6. Range(queue') \cap Range(batch) = {}
    <3>1. Range(batch) \subseteq Sessions
      BY DEF WaitInv, EngineTypes, Range
    <3> QED
      BY <1>0, <2>3, <3>1 DEF WaitInv, Queueing
  <2>7. EngineTypes'
    BY <2>1, <2>2, SameLoad DEF WaitInv, EngineTypes, BackendLife
  <2>8. Queueing'
    BY <1>0, <2>1, <2>3, <2>4, <2>5, <2>6, SameLoad DEF WaitInv, Queueing
  <2>9. Stopping'
    BY <2>1, SameLoad DEF WaitInv, Stopping, CallsAreOver
  <2> QED
    BY <2>7, <2>8, <2>9 DEF WaitInv
<1>5. ASSUME UNCHANGED <<load, rpc, queue, batch, engine, backend, grace, accepting>>
      PROVE  WaitInv'
  BY <1>5, SameLoad DEF WaitInv, EngineTypes, Queueing, Stopping
<1>6. CASE GenerateNothing \/ Generate \/ AwaitResult \/ AwaitTimesOut
  BY <1>5, <1>6 DEF GenerateNothing, Generate, AwaitResult, AwaitTimesOut
<1>7. ASSUME NEW p \in Payloads, EnqueuePrefetch(p) \/ WorkerNext(p)
      PROVE  WaitInv'
  BY <1>5, <1>7 DEF EnqueuePrefetch, WorkerNext, Simulate, SimulateReturns, SimulateFails,
     PopRecord, PopGivesUp
<1> QED
  BY <1>1, <1>2, <1>3, <1>4, <1>6, <1>7 DEF BackendNext

(* Each process keeps the types of the sessions.                            *)
LEMMA DriverKeepsTypes ==
  ASSUME SessionTypes, NEW s \in Sessions,
         DriverNext(s) \/ \E recording \in load.recordings : SubmitGroundTruth(s, recording)
  PROVE  SessionTypes'
<1>1. CASE \E recording \in load.recordings : SubmitGroundTruth(s, recording)
  BY <1>1, GroundTruthTypes
<1>2. CASE DriverNext(s)
  BY <1>2, CallTypes, ObserveTypes, DriveTypes, AnswerTypes, CollectorTypes DEF DriverNext
<1> QED
  BY <1>1, <1>2

LEMMA EngineKeepsTypes ==
  ASSUME SessionTypes, WaitInv, EngineNext
  PROVE  SessionTypes'
<1> USE DEF SessionTypes
<1>1. UNCHANGED <<load, episodeVars, expertVars, truth, phase, tick, step, now, buf>>
  BY DEF EngineNext, CollectBatch, AnswerBatch, ForwardRaises, TakeSentinel, driverVars
<1>2. rpc' = rpc \/ rpc' = Unbound(batch)
  BY DEF EngineNext, CollectBatch, AnswerBatch, ForwardRaises, TakeSentinel, driverVars
<1>3. rpc' \in [Sessions -> RpcPcs] /\ \A s \in Sessions : rpc'[s] # "idle"
         => now[s].tick \in Ticks
  <2>1. Unbound(batch) \in [Sessions -> RpcPcs]
    BY DEF Unbound, DriverTypes, RpcPcs
  <2>2. \A s \in Sessions : Unbound(batch)[s] # "idle" => rpc[s] # "idle"
    BY DEF Unbound, WaitInv, Queueing
  <2> QED
    BY <1>2, <2>1, <2>2 DEF DriverTypes
<1>4. DriverTypes'
  BY <1>1, <1>3, SameLoad DEF DriverTypes
<1> QED
  BY <1>1, <1>4, EpisodeFrame, ExpertFrame

(* ... and the backend touches only a record, by popping it.                *)
LEMMA BackendKeepsTypes ==
  ASSUME SessionTypes, BackendNext
  PROVE  /\ SessionTypes'
         /\ UNCHANGED <<load, driverVars, episodeVars, futures, ask, tokens, collector, batch>>
         /\ UNCHANGED <<record, hurried>> \/ \E p \in Payloads : PopRecord(p) \/ PopGivesUp(p)
<1> USE DEF SessionTypes, expertVars
<1>1. CASE UNCHANGED <<load, driverVars, episodeVars, expertVars, batch>>
  <2>1. SessionTypes'
    BY <1>1, DriverFrame, EpisodeFrame, ExpertFrame
  <2> QED
    BY <1>1, <2>1
<1>2. ASSUME NEW p \in Payloads, PopRecord(p) \/ PopGivesUp(p)
      PROVE  /\ SessionTypes'
             /\ UNCHANGED <<load, driverVars, episodeVars, futures, ask, tokens, collector, batch>>
  <2>1. /\ UNCHANGED <<load, driverVars, episodeVars, futures, ask, tokens, collector, batch>>
        /\ record' = [record EXCEPT ![session[p]] = "taken"]
        /\ hurried' = hurried \/ hurried' = [hurried EXCEPT ![session[p]] = TRUE]
    BY <1>2 DEF PopRecord, PopGivesUp, TakeRecord, engineVars
  <2>2. record' \in [Sessions -> {"absent", "kept", "taken"}] /\ hurried' \in [Sessions -> BOOLEAN]
    BY <2>1 DEF ExpertTypes
  <2>3. ExpertTypes'
    BY <2>1, <2>2, SameLoad DEF ExpertTypes
  <2> QED
    BY <2>1, <2>3, DriverFrame, EpisodeFrame
<1>3. ASSUME NEW p \in Payloads,
             EnqueuePrefetch(p) \/ Simulate(p) \/ SimulateReturns(p) \/ SimulateFails(p)
      PROVE  /\ SessionTypes'
             /\ UNCHANGED <<load, driverVars, episodeVars, expertVars, batch>>
  BY <1>1, <1>3 DEF EnqueuePrefetch, Simulate, SimulateReturns, SimulateFails, engineVars
<1> QED
  <2>1. CASE \/ StartDriver \/ StartEngine \/ ChannelTimesOut \/ StartOtherRank \/ GenerateNothing
             \/ Generate \/ AwaitResult \/ AwaitTimesOut
             \/ DismissWorker \/ StopDriver \/ StopEngine \/ JoinEngine
    <3>1. UNCHANGED <<load, driverVars, episodeVars, expertVars, batch>>
      BY <2>1 DEF StartDriver, StartEngine, ChannelTimesOut, StartOtherRank, GenerateNothing,
         Generate, AwaitResult, AwaitTimesOut, DismissWorker, StopDriver, StopEngine, JoinEngine,
         engineVars
    <3> QED
      BY <1>1, <3>1
  <2>2. ASSUME NEW p \in Payloads, EnqueuePrefetch(p) \/ WorkerNext(p)
        PROVE  /\ SessionTypes'
               /\ UNCHANGED <<load, driverVars, episodeVars, futures, ask, tokens, collector,
                     batch>>
               /\ UNCHANGED <<record, hurried>> \/ \E q \in Payloads : PopRecord(q)
                     \/ PopGivesUp(q)
    <3>1. CASE PopRecord(p) \/ PopGivesUp(p)
      BY <1>2, <3>1
    <3>2. CASE EnqueuePrefetch(p) \/ Simulate(p) \/ SimulateReturns(p) \/ SimulateFails(p)
      BY <1>3, <3>2
    <3> QED
      BY <2>2, <3>1, <3>2 DEF WorkerNext
  <2> QED
    BY <2>1, <2>2 DEF BackendNext

(* Outputs and responses match one to one; a label is that of the output's  *)
(* tick, and what the expert drove is labelled and masked.                  *)
Attributed(s) ==
  /\ Len(drove[s]) = Len(outputs[s])
  /\ \A i \in DOMAIN outputs[s] :
       /\ drove[s][i] = outputs[s][i].driver
       /\ outputs[s][i].label \in {None, outputs[s][i].tick}
       /\ outputs[s][i].driver = "expert" =>
            outputs[s][i].masked /\ outputs[s][i].label = outputs[s][i].tick

(* With an expert there is one future per output, of that output's tick or  *)
(* None, and a token is its future's or None: this is what matching by      *)
(* position needs.                                                          *)
Aligned(s) ==
  /\ rpc[s] = "expert" => load.expert # "off"
  /\ load.expert = "off" => futures[s] = <<>>
  /\ load.expert # "off" => Len(futures[s]) = Len(outputs[s])
  /\ \A i \in DOMAIN futures[s] : futures[s][i] \in {None, outputs[s][i].tick}
  /\ \A i \in DOMAIN tokens[s] : tokens[s][i] \in {None, futures[s][i]}

LabelInv == \A s \in Sessions : Attributed(s) /\ Aligned(s)

(* A step that leaves outputs, responses, futures and tokens of a session   *)
(* alone keeps them matched.                                                *)
LEMMA LabelFrame ==
  ASSUME load' = load, NEW s \in Sessions, Attributed(s), Aligned(s),
         outputs'[s] = outputs[s], drove'[s] = drove[s], futures'[s] = futures[s],
         tokens'[s] = tokens[s], rpc'[s] = "expert" => load.expert # "off"
  PROVE  Attributed(s)' /\ Aligned(s)'
  BY DEF Attributed, Aligned

(* Recording an output together with its future keeps them matched.         *)
LEMMA RecordKeepsLabels ==
  ASSUME SessionTypes, NEW s \in Sessions, Attributed(s), Aligned(s), load' = load,
            tokens' = tokens,
         NEW out \in Output, RecordAndRespond(s, out),
         NEW f \in Ticks \cup {None},
         \/ load.expert = "off" /\ futures' = futures
         \/ load.expert # "off" /\ PutFuture(s, f),
         f \in {None, out.tick}, out.label \in {None, out.tick},
         out.driver = "expert" => out.masked /\ out.label = out.tick
  PROVE  Attributed(s)' /\ Aligned(s)'
<1> DEFINE n == Len(outputs[s])
           m == Len(futures[s])
<1>1. /\ outputs[s] \in Seq(Output) /\ drove[s] \in Seq({"student", "expert"}) /\ n \in Nat
      /\ DOMAIN outputs[s] = 1 .. n /\ Len(drove[s]) = n /\ out.driver \in {"student", "expert"}
  <2>1. outputs[s] \in Seq(Output) /\ drove[s] \in Seq({"student", "expert"})
    BY DEF SessionTypes, EpisodeTypes
  <2>2. n \in Nat /\ DOMAIN outputs[s] = 1 .. n /\ Len(drove[s]) = n
    BY <2>1 DEF Attributed
  <2>3. out.driver \in {"student", "expert"}
    BY DEF Output
  <2> QED
    BY <2>1, <2>2, <2>3
<1>2. /\ outputs'[s] = Append(outputs[s], out) /\ drove'[s] = Append(drove[s], out.driver)
  BY DEF RecordAndRespond, RecordStep, Respond, SessionTypes, EpisodeTypes
<1>3. /\ DOMAIN outputs'[s] = 1 .. n + 1 /\ outputs'[s][n + 1] = out /\ Len(outputs'[s]) = n + 1
      /\ \A i \in 1 .. n : outputs'[s][i] = outputs[s][i]
  BY <1>1, <1>2
<1>4. /\ Len(drove'[s]) = n + 1 /\ drove'[s][n + 1] = out.driver
      /\ \A i \in 1 .. n : drove'[s][i] = drove[s][i]
  BY <1>1, <1>2
<1> HIDE DEF n
<1>5. Attributed(s)'
  <2>1. \A i \in 1 .. n + 1 : i = n + 1 \/ i \in 1 .. n
    BY <1>1
  <2> QED
    BY <1>1, <1>3, <1>4, <2>1 DEF Attributed
<1>6. /\ futures[s] \in Seq(Ticks \cup {None}) /\ m \in Nat /\ DOMAIN futures[s] = 1 .. m
      /\ tokens[s] \in Seq(Ticks \cup {None}) /\ Len(tokens[s]) <= m
  BY DEF SessionTypes, ExpertTypes
<1>7. Aligned(s)'
  <2>0. rpc'[s] = "idle"
    BY DEF RecordAndRespond, Return, SessionTypes, DriverTypes
  <2>1. CASE load.expert = "off"
    BY <1>6, <2>0, <2>1 DEF Aligned
  <2>2. CASE load.expert # "off"
    <3>1. m = n /\ futures'[s] = Append(futures[s], f)
      BY <2>2 DEF PutFuture, Aligned, SessionTypes, ExpertTypes, n
    <3>2. /\ DOMAIN futures'[s] = 1 .. n + 1 /\ futures'[s][n + 1] = f /\ Len(futures'[s]) = n + 1
          /\ \A i \in 1 .. n : futures'[s][i] = futures[s][i]
      BY <1>6, <3>1
    <3>3. \A i \in 1 .. n + 1 : i = n + 1 \/ i \in 1 .. n
      BY <1>1
    <3>4. \A i \in DOMAIN tokens[s] : i \in 1 .. n
      BY <1>6, <3>1
    <3> HIDE DEF m
    <3>5. \A i \in 1 .. n : futures[s][i] \in {None, outputs[s][i].tick}
      BY <1>6, <3>1 DEF Aligned
    <3>6. \A i \in 1 .. n + 1 : futures'[s][i] \in {None, outputs'[s][i].tick}
      BY <1>3, <3>2, <3>3, <3>5
    <3>7. \A i \in DOMAIN tokens[s] : tokens[s][i] \in {None, futures'[s][i]}
      BY <3>2, <3>4 DEF Aligned
    <3> QED
      BY <1>3, <2>0, <2>2, <3>2, <3>6, <3>7 DEF Aligned
  <2> QED
    BY <2>1, <2>2
<1> QED
  BY <1>5, <1>7

(* Every answer of a handler records output and future together.            *)
LEMMA AnswerKeepsLabels ==
  ASSUME SessionTypes, NEW s \in Sessions, Attributed(s), Aligned(s),
         \/ RespondUnlabelled(s) \/ QueryAndRespond(s)
         \/ \E d \in {"student", "expert"} : RespondLabelled(s, d)
         \/ RespondAnyway(s)
  PROVE  Attributed(s)' /\ Aligned(s)'
<1>0. load \in Loads /\ DriverTypes /\ None \in Ticks \cup {None}
  BY DEF SessionTypes
<1>1. CASE RespondUnlabelled(s)
  <2>1. StudentOutput(s) \in Output
    BY <1>0, <1>1, OutputTypes DEF RespondUnlabelled
  <2>2. StudentOutput(s).label = None /\ StudentOutput(s).driver = "student"
    BY DEF StudentOutput
  <2>3. /\ load' = load /\ tokens' = tokens /\ RecordAndRespond(s, StudentOutput(s))
        /\ \/ load.expert = "off" /\ futures' = futures
           \/ load.expert # "off" /\ PutFuture(s, None)
    BY <1>1 DEF RespondUnlabelled
  <2> QED
    BY <1>0, <2>1, <2>2, <2>3, RecordKeepsLabels
<1>2. CASE QueryAndRespond(s)
  <2>1. StudentOutput(s) \in Output /\ now[s].tick \in Ticks
    BY <1>0, <1>2, OutputTypes DEF QueryAndRespond
  <2>2. /\ StudentOutput(s).label = None /\ StudentOutput(s).driver = "student"
        /\ StudentOutput(s).tick = now[s].tick
    BY DEF StudentOutput
  <2>3. /\ load' = load /\ tokens' = tokens /\ RecordAndRespond(s, StudentOutput(s))
        /\ load.expert # "off" /\ PutFuture(s, now[s].tick)
    BY <1>2 DEF QueryAndRespond
  <2> QED
    BY <2>1, <2>2, <2>3, RecordKeepsLabels
<1>3. ASSUME NEW d \in {"student", "expert"}, RespondLabelled(s, d)
      PROVE  Attributed(s)' /\ Aligned(s)'
  <2> DEFINE out == LabelledOutput(s, d)
  <2>1. out \in Output
    BY <1>0, <1>3, OutputTypes DEF RespondLabelled
  <2>2. out.label = out.tick /\ (out.driver = "expert" => out.masked)
    BY DEF LabelledOutput, StudentOutput
  <2>3. load' = load /\ tokens' = tokens /\ RecordAndRespond(s, out) /\ PutFuture(s, None)
    BY <1>3 DEF RespondLabelled
  <2>4. load.expert # "off"
    BY <1>3 DEF RespondLabelled, Aligned
  <2> QED
    BY <1>0, <2>1, <2>2, <2>3, <2>4, RecordKeepsLabels
<1>4. CASE RespondAnyway(s)
  <2>1. StudentOutput(s) \in Output
    BY <1>0, <1>4, OutputTypes DEF RespondAnyway
  <2>2. StudentOutput(s).label = None /\ StudentOutput(s).driver = "student"
    BY DEF StudentOutput
  <2>3. /\ load' = load /\ tokens' = tokens /\ RecordAndRespond(s, StudentOutput(s))
        /\ PutFuture(s, None) /\ load.expert # "off"
    BY <1>4 DEF RespondAnyway, Aligned
  <2> QED
    BY <1>0, <2>1, <2>2, <2>3, RecordKeepsLabels
<1> QED
  BY <1>1, <1>2, <1>3, <1>4

(* The collector appends the token of the next future, and labels output i  *)
(* with token i, which is of the same tick.                                 *)
LEMMA CollectorKeepsLabels ==
  ASSUME SessionTypes, NEW s \in Sessions, Attributed(s), Aligned(s),
         CollectFuture(s) \/ LabelRecord(s)
  PROVE  Attributed(s)' /\ Aligned(s)'
<1>0. /\ outputs[s] \in Seq(Output) /\ futures[s] \in Seq(Ticks \cup {None})
      /\ tokens[s] \in Seq(Ticks \cup {None}) /\ Len(tokens[s]) <= Len(futures[s])
      /\ Len(futures[s]) \in Nat /\ Len(tokens[s]) \in Nat
            /\ DOMAIN tokens[s] = 1 .. Len(tokens[s])
  BY DEF SessionTypes, EpisodeTypes, ExpertTypes
<1>1. CASE CollectFuture(s)
  <2> DEFINE k == Len(tokens[s]) + 1
  <2>1. PICK token \in {None, futures[s][k]} : tokens' = [tokens EXCEPT ![s] = Append(@, token)]
    BY <1>1 DEF CollectFuture
  <2>2. /\ UNCHANGED <<load, outputs, drove, futures, rpc>>
        /\ Len(tokens[s]) < Len(futures[s])
    BY <1>1 DEF CollectFuture, driverVars, episodeVars
  <2>3. futures[s][k] \in Ticks \cup {None}
    <3>1. k \in 1 .. Len(futures[s])
      BY <1>0, <2>2
    <3> QED BY <1>0, <3>1, ElementOfSeq
  <2>4. tokens'[s] = Append(tokens[s], token)
    BY <2>1 DEF SessionTypes, ExpertTypes
  <2>5. /\ DOMAIN tokens'[s] = 1 .. k /\ tokens'[s][k] = token
        /\ \A i \in 1 .. Len(tokens[s]) : tokens'[s][i] = tokens[s][i]
    BY <1>0, <2>1, <2>3, <2>4
  <2>6. \A i \in 1 .. k : i = k \/ i \in 1 .. Len(tokens[s])
    BY <1>0
  <2> HIDE DEF k
  <2>7. \A i \in DOMAIN tokens'[s] : tokens'[s][i] \in {None, futures[s][i]}
    BY <1>0, <2>1, <2>5, <2>6 DEF Aligned
  <2> QED
    BY <2>2, <2>7 DEF Attributed, Aligned
<1>2. CASE LabelRecord(s)
  <2>1. /\ UNCHANGED <<load, drove, futures, tokens, rpc>>
        /\ Len(tokens[s]) = Len(futures[s])
    BY <1>2 DEF LabelRecord, driverVars
  <2>2. CASE outputs' = outputs
    BY <2>1, <2>2, LabelFrame DEF Aligned
  <2>3. ASSUME NEW toks \in Seq(Ticks \cup {None}),
               outputs' = [outputs EXCEPT ![s] = Labelled(@, toks)],
               \A i \in DOMAIN toks : i \in DOMAIN tokens[s] /\ toks[i] = tokens[s][i]
        PROVE  Attributed(s)' /\ Aligned(s)'
    <3>1. outputs'[s] = Labelled(outputs[s], toks)
      BY <2>3 DEF SessionTypes, EpisodeTypes
    <3>2. DOMAIN outputs'[s] = DOMAIN outputs[s] /\ Len(outputs'[s]) = Len(outputs[s])
      <4>1. Labelled(outputs[s], toks) \in Seq(Output)
        BY <1>0, LabelledType
      <4>2. DOMAIN Labelled(outputs[s], toks) = DOMAIN outputs[s]
        BY DEF Labelled
      <4> QED
        BY <1>0, <3>1, <4>1, <4>2
    <3>3. \A i \in DOMAIN outputs[s] :
            outputs'[s][i] = IF i \in DOMAIN toks /\ toks[i] # None
                               THEN [outputs[s][i] EXCEPT !.label = toks[i]] ELSE outputs[s][i]
      BY <3>1 DEF Labelled
    <3>4. \A i \in DOMAIN outputs[s] : i \in DOMAIN toks /\ toks[i] # None
             => toks[i] = outputs[s][i].tick
      BY <1>0, <2>1, <2>3 DEF Aligned
    <3>5. \A i \in DOMAIN outputs[s] :
            /\ outputs'[s][i].tick = outputs[s][i].tick
                  /\ outputs'[s][i].driver = outputs[s][i].driver
            /\ outputs'[s][i].masked = outputs[s][i].masked
            /\ outputs'[s][i].label \in {outputs[s][i].label, outputs[s][i].tick}
      <4> TAKE i \in DOMAIN outputs[s]
      <4>1. outputs[s][i] \in Output
        BY <1>0
      <4>2. CASE i \in DOMAIN toks /\ toks[i] # None
        <5>1. outputs'[s][i] = [outputs[s][i] EXCEPT !.label = toks[i]]
                 /\ toks[i] = outputs[s][i].tick
          BY <3>3, <3>4, <4>2
        <5> QED
          BY <4>1, <5>1 DEF Output
      <4>3. CASE ~(i \in DOMAIN toks /\ toks[i] # None)
        BY <3>3, <4>3
      <4> QED
        BY <4>2, <4>3
    <3>6. Attributed(s)'
      BY <2>1, <3>2, <3>5 DEF Attributed
    <3>7. \A i \in DOMAIN futures[s] : futures[s][i] \in {None, outputs'[s][i].tick}
      <4>1. \A i \in DOMAIN futures[s] : i \in DOMAIN outputs[s]
        BY <1>0 DEF Aligned
      <4> QED
        BY <3>5, <4>1 DEF Aligned
    <3> QED
      BY <2>1, <3>2, <3>6, <3>7 DEF Aligned
  <2>4. CASE outputs' = [outputs EXCEPT ![s] = Labelled(@, tokens[s])]
    BY <1>0, <2>3, <2>4
  <2>5. ASSUME NEW i \in DOMAIN tokens[s],
               outputs' = [outputs EXCEPT ![s] = Labelled(@, SubSeq(tokens[s], 1, i))]
        PROVE  Attributed(s)' /\ Aligned(s)'
    <3> DEFINE toks == SubSeq(tokens[s], 1, i)
    <3>1. toks \in Seq(Ticks \cup {None}) /\ \A j \in DOMAIN toks : j \in DOMAIN tokens[s]
             /\ toks[j] = tokens[s][j]
      BY <1>0
    <3> QED
      BY <2>3, <2>5, <3>1
  <2> QED
    BY <1>2, <2>2, <2>4, <2>5 DEF LabelRecord
<1> QED
  BY <1>1, <1>2

(* A driver step of one session leaves all other sessions alone.            *)
LEMMA OtherSessions ==
  ASSUME SessionTypes, NEW s \in Sessions, NEW z \in Sessions, z # s,
         DriverNext(s) \/ \E recording \in load.recordings : SubmitGroundTruth(s, recording)
  PROVE  /\ phase'[z] = phase[z] /\ rpc'[z] = rpc[z] /\ now'[z] = now[z]
         /\ outputs'[z] = outputs[z] /\ executed'[z] = executed[z] /\ drove'[z] = drove[z]
         /\ futures'[z] = futures[z] /\ tokens'[z] = tokens[z] /\ collector'[z] = collector[z]
         /\ record'[z] = record[z] /\ hurried'[z] = hurried[z]
<1> USE DEF SessionTypes, DriverTypes, EpisodeTypes, ExpertTypes, driverVars, episodeVars,
       expertVars
<1>1. CASE StartSession(s) \/ SubmitImage(s) \/ CloseSession(s)
  BY <1>1 DEF StartSession, SubmitImage, Observe, CloseSession
<1>2. CASE CollectFuture(s) \/ LabelRecord(s) \/ SetEvent(s)
  BY <1>2 DEF CollectFuture, LabelRecord, SetEvent
<1>3. CASE \E t \in load.times : SubmitEgomotion(s, t) \/ SubmitRoute(s, t)
  BY <1>3 DEF SubmitEgomotion, SubmitRoute, Observe
<1>4. CASE Drive(s) \/ AskEngine(s) \/ QueryAndWait(s)
  <2>1. CASE Drive(s)
    <3>1. /\ UNCHANGED <<phase, outputs, executed, drove, futures, tokens, collector, record,
                hurried>>
          /\ rpc' = rpc \/ rpc' = [rpc EXCEPT ![s] = "ask"]
          /\ now' = now \/ \E entry : now' = [now EXCEPT ![s] = entry]
      BY <2>1 DEF Drive
    <3> QED
      BY <3>1
  <2>2. CASE AskEngine(s) \/ QueryAndWait(s)
    BY <2>2 DEF AskEngine, QueryAndWait
  <2> QED
    BY <1>4, <2>1, <2>2
<1>5. ASSUME NEW out, RecordAndRespond(s, out), futures' = futures \/ \E f : PutFuture(s, f),
             UNCHANGED <<phase, tokens, collector, record, hurried>>
      PROVE  /\ phase'[z] = phase[z] /\ rpc'[z] = rpc[z] /\ now'[z] = now[z]
             /\ outputs'[z] = outputs[z] /\ executed'[z] = executed[z] /\ drove'[z] = drove[z]
             /\ futures'[z] = futures[z] /\ tokens'[z] = tokens[z] /\ collector'[z] = collector[z]
             /\ record'[z] = record[z] /\ hurried'[z] = hurried[z]
  BY <1>5 DEF RecordAndRespond, RecordStep, Respond, Return, PutFuture
<1>6. CASE RespondUnlabelled(s) \/ QueryAndRespond(s) \/ RespondAnyway(s)
  BY <1>5, <1>6 DEF RespondUnlabelled, QueryAndRespond, RespondAnyway
<1>7. CASE \E d \in {"student", "expert"} : RespondLabelled(s, d)
  BY <1>5, <1>7 DEF RespondLabelled
<1>8. CASE PostprocessRaises(s)
  BY <1>8 DEF PostprocessRaises, Return
<1>9. CASE \E t \in Ticks : ExpertReplies(s, t)
  BY <1>9 DEF ExpertReplies
<1>10. CASE \E recording \in load.recordings : SubmitGroundTruth(s, recording)
  BY <1>10 DEF SubmitGroundTruth
<1> QED
  BY <1>1, <1>2, <1>3, <1>4, <1>6, <1>7, <1>8, <1>9, <1>10 DEF DriverNext

(* Each process keeps labels on their ticks.                                *)
LEMMA DriverKeepsLabels ==
  ASSUME SessionTypes, LabelInv, NEW s \in Sessions,
         DriverNext(s) \/ \E recording \in load.recordings : SubmitGroundTruth(s, recording)
  PROVE  LabelInv'
<1>0. load' = load
  <2>1. CASE AskEngine(s)
    BY <2>1 DEF AskEngine
  <2> QED
    BY <2>1, RpcStep
<1>1. ASSUME NEW z \in Sessions PROVE Attributed(z)' /\ Aligned(z)'
  <2>1. Attributed(z) /\ Aligned(z)
    BY DEF LabelInv
  <2>2. CASE z # s
    <3>1. /\ outputs'[z] = outputs[z] /\ drove'[z] = drove[z] /\ futures'[z] = futures[z]
          /\ tokens'[z] = tokens[z] /\ rpc'[z] = rpc[z]
      BY <2>2, OtherSessions
    <3> QED
      BY <1>0, <2>1, <3>1, LabelFrame DEF Aligned
  <2>3. CASE z = s
    <3>1. CASE \/ RespondUnlabelled(s) \/ QueryAndRespond(s)
               \/ \E d \in {"student", "expert"} : RespondLabelled(s, d)
               \/ RespondAnyway(s)
      BY <2>1, <2>3, <3>1, AnswerKeepsLabels
    <3>2. CASE CollectFuture(s) \/ LabelRecord(s)
      BY <2>1, <2>3, <3>2, CollectorKeepsLabels
    <3>3. ASSUME UNCHANGED <<outputs, drove, futures, tokens>>,
                 rpc'[s] = "expert" => rpc[s] = "expert" \/ load.expert # "off"
          PROVE  Attributed(z)' /\ Aligned(z)'
      BY <1>0, <2>1, <2>3, <3>3, LabelFrame DEF Aligned
    <3>4. rpc \in [Sessions -> RpcPcs]
      BY DEF SessionTypes, DriverTypes
    <3> USE DEF driverVars, episodeVars, expertVars
    <3>5. CASE StartSession(s) \/ SubmitImage(s) \/ CloseSession(s) \/ SetEvent(s)
      BY <3>3, <3>5 DEF StartSession, SubmitImage, Observe, CloseSession, SetEvent
    <3>6. CASE \E t \in load.times : SubmitEgomotion(s, t) \/ SubmitRoute(s, t)
      BY <3>3, <3>6 DEF SubmitEgomotion, SubmitRoute, Observe
    <3>7. CASE Drive(s) \/ AskEngine(s) \/ QueryAndWait(s)
      BY <3>3, <3>4, <3>7 DEF Drive, AskEngine, QueryAndWait
    <3>8. CASE PostprocessRaises(s)
      BY <3>3, <3>4, <3>8 DEF PostprocessRaises, Return
    <3>9. CASE \E t \in Ticks : ExpertReplies(s, t)
      BY <3>3, <3>9 DEF ExpertReplies
    <3>10. CASE \E recording \in load.recordings : SubmitGroundTruth(s, recording)
      BY <3>3, <3>10 DEF SubmitGroundTruth
    <3> QED
      BY <3>1, <3>2, <3>5, <3>6, <3>7, <3>8, <3>9, <3>10 DEF DriverNext
  <2> QED
    BY <2>2, <2>3
<1> QED
  BY <1>0, <1>1, SameLoad DEF LabelInv

LEMMA OthersKeepLabels ==
  ASSUME SessionTypes, WaitInv, LabelInv, EngineNext \/ BackendNext \/ UNCHANGED vars
  PROVE  LabelInv'
<1>1. /\ UNCHANGED <<load, outputs, drove, futures, tokens>>
      /\ rpc' = rpc \/ rpc' = Unbound(batch)
  <2>1. CASE EngineNext
    BY <2>1 DEF EngineNext, CollectBatch, AnswerBatch, ForwardRaises, TakeSentinel, driverVars,
       episodeVars, expertVars
  <2>2. CASE BackendNext
    BY <2>2, BackendKeepsTypes DEF driverVars, episodeVars
  <2>3. CASE UNCHANGED vars
    BY <2>3 DEF vars, driverVars, episodeVars, expertVars
  <2> QED
    BY <2>1, <2>2, <2>3
<1>2. ASSUME NEW s \in Sessions PROVE rpc'[s] = "expert" => rpc[s] = "expert"
  BY <1>1 DEF Unbound
<1>3. ASSUME NEW s \in Sessions PROVE Attributed(s)' /\ Aligned(s)'
  BY <1>1, <1>2, LabelFrame DEF LabelInv, Aligned
<1> QED
  BY <1>1, <1>3, SameLoad DEF LabelInv

(* The simulations begun so far: every retry of a payload but the one that  *)
(* still waits for its thread.                                              *)
Attempts ==
  {a \in Payloads \X (0 .. load.retries) :
     \/ a[2] < tries[a[1]]
     \/ a[2] = tries[a[1]] /\ job[a[1]] \in {"simulating", "popping", "done"}}

(* Types of jobs and results; no session number exceeds the simulations     *)
(* begun, a job past its retries is done, and rollout_generation has one    *)
(* result per payload it is past.                                           *)
JobTypes ==
  /\ job \in [Payloads -> JobStates]
  /\ session \in [Payloads -> 0 .. Cardinality(Attempts)]
  /\ tries \in [Payloads -> 0 .. load.retries + 1]
  /\ result \in [Payloads -> Results]
  /\ gen \in 0 .. load.payloads + 1
  /\ given \in Seq(Results) /\ Len(given) = IF gen = 0 THEN 0 ELSE gen - 1
  /\ \A p \in Payloads :
       /\ job[p] # "done" => tries[p] <= load.retries
       /\ job[p] \in {"simulating", "popping"} => session[p] # 0

(* There are as many sessions as attempts can be made.                      *)
LEMMA AttemptsBound ==
  ASSUME load \in Loads, NEW A \in SUBSET (Payloads \X (0 .. load.retries))
  PROVE  /\ IsFiniteSet(A) /\ Cardinality(A) \in Nat
         /\ 1 .. Cardinality(A) \subseteq Sessions
<1> DEFINE n == load.payloads
           k == load.retries
<1>1. n \in Nat /\ k \in Nat
  BY LoadFacts
<1> HIDE DEF n, k
<1>2. IsFiniteSet(1 .. n) /\ Cardinality(1 .. n) = n
  BY <1>1, FS_Interval
<1>3. IsFiniteSet(0 .. k) /\ Cardinality(0 .. k) = k + 1
  BY <1>1, FS_Interval
<1>4. IsFiniteSet((1 .. n) \X (0 .. k)) /\ Cardinality((1 .. n) \X (0 .. k)) = n * (k + 1)
  <2>1. /\ IsFiniteSet((1 .. n) \X (0 .. k))
        /\ Cardinality((1 .. n) \X (0 .. k)) = Cardinality(1 .. n) * Cardinality(0 .. k)
    BY <1>2, <1>3, FS_Product
  <2> QED BY <1>2, <1>3, <2>1
<1>5. Payloads = 1 .. n /\ Sessions = 1 .. n * (k + 1)
  BY DEF Payloads, Sessions, n, k
<1>6. A \subseteq (1 .. n) \X (0 .. k)
  BY <1>5 DEF k
<1>7. IsFiniteSet(A) /\ Cardinality(A) <= n * (k + 1)
  BY <1>4, <1>6, FS_Subset
<1>8. Cardinality(A) \in Nat
  BY <1>7, FS_CardinalityType
<1>9. n * (k + 1) \in Nat
  BY <1>1
<1> QED
  BY <1>5, <1>7, <1>8, <1>9

(* So the session of a job is a session, and a running job has one.         *)
LEMMA SessionsOfJobs ==
  ASSUME load \in Loads, JobTypes
  PROVE  /\ session \in [Payloads -> Sessions \cup {0}]
         /\ \A p \in Payloads : job[p] \in {"simulating", "popping"} => session[p] \in Sessions
<1>1. Cardinality(Attempts) \in Nat /\ 1 .. Cardinality(Attempts) \subseteq Sessions
  BY AttemptsBound DEF Attempts
<1>2. \A x \in 0 .. Cardinality(Attempts) : x = 0 \/ x \in 1 .. Cardinality(Attempts)
  BY <1>1
<1> QED
  BY <1>1, <1>2 DEF JobTypes

(* NewSession is one past the last session, hence within the attempts, this *)
(* one included.                                                            *)
LEMMA NewSessionType ==
  ASSUME load \in Loads, JobTypes
  PROVE  NewSession \in 1 .. Cardinality(Attempts) + 1
<1> DEFINE c == Cardinality(Attempts)
           Bounds == {n \in 0 .. c : \A p \in Payloads : session[p] <= n}
           Last(n) == /\ \A p \in Payloads : session[p] <= n
                      /\ n = 0 \/ \E p \in Payloads : session[p] = n
           last == CHOOSE n \in {0} \cup Sessions : Last(n)
<1>1. c \in Nat /\ 1 .. c \subseteq Sessions
  BY AttemptsBound DEF Attempts
<1>2. \A p \in Payloads : session[p] \in 0 .. c
  BY DEF JobTypes
<1> HIDE DEF c
<1>3. PICK m \in Bounds : \A n \in Bounds : m <= n
  <2>1. c \in Bounds
    BY <1>1, <1>2
  <2>2. Bounds \subseteq Nat
    BY <1>1
  <2> HIDE DEF Bounds
  <2> QED BY <2>1, <2>2, LeastNat
<1>4. m \in 0 .. c /\ Last(m)
  <2>1. CASE m = 0
    BY <1>3, <2>1
  <2>2. CASE m # 0 /\ \A p \in Payloads : session[p] # m
    <3>1. m \in 1 .. c /\ m - 1 \in 0 .. c /\ ~(m <= m - 1)
      BY <1>1, <1>3, <2>2
    <3>2. \A p \in Payloads : session[p] <= m - 1
      BY <1>1, <1>2, <1>3, <2>2, <3>1
    <3> QED
      BY <1>3, <3>1, <3>2
  <2> QED
    BY <1>3, <2>1, <2>2
<1>5. m \in {0} \cup Sessions
  <2>1. m = 0 \/ m \in 1 .. c
    BY <1>1, <1>4
  <2> QED BY <1>1, <2>1
<1>6. last \in {0} \cup Sessions /\ Last(last)
  <2> HIDE DEF Last
  <2> QED BY <1>4, <1>5
<1>7. last \in 0 .. c
  <2>1. last = 0 \/ \E p \in Payloads : session[p] = last
    BY <1>6
  <2> HIDE DEF last
  <2> QED BY <1>1, <1>2, <2>1
<1>8. NewSession = 1 + last
  BY DEF NewSession
<1> HIDE DEF last
<1> QED
  BY <1>1, <1>7, <1>8 DEF c

(* At the start no attempt has been made.                                   *)
LEMMA JobInit == Init => JobTypes
<1> SUFFICES ASSUME Init PROVE JobTypes
  OBVIOUS
<1>1. load \in Loads
  BY DEF Init
<1>2. load.payloads \in Nat /\ load.retries \in Nat /\ Cardinality(Attempts) \in Nat
  BY <1>1, LoadFacts, AttemptsBound DEF Attempts
<1> QED
  BY <1>2 DEF Init, JobTypes, JobStates, Results

(* Attempts are never taken back, so their number only grows.               *)
LEMMA MoreAttempts ==
  ASSUME load \in Loads, load' = load, JobTypes, Attempts \subseteq Attempts'
  PROVE  /\ Cardinality(Attempts) \in Nat /\ Cardinality(Attempts') \in Nat
         /\ Cardinality(Attempts) <= Cardinality(Attempts')
<1>1. IsFiniteSet(Attempts) /\ Cardinality(Attempts) \in Nat
  BY AttemptsBound DEF Attempts
<1>2. Attempts' \in SUBSET (Payloads \X (0 .. load.retries))
  BY SameLoad DEF Attempts
<1>3. IsFiniteSet(Attempts') /\ Cardinality(Attempts') \in Nat
  BY <1>2, AttemptsBound
<1> QED
  BY <1>1, <1>3, FS_Subset

(* A step that leaves jobs and results alone keeps their types.             *)
LEMMA JobFrame ==
  ASSUME load' = load, UNCHANGED <<jobVars, genVars>>, JobTypes
  PROVE  JobTypes'
  BY SameLoad DEF JobTypes, Attempts, jobVars, genVars

(* A step that moves jobs along without taking an attempt back keeps their  *)
(* types.                                                                   *)
LEMMA JobsMove ==
  ASSUME load \in Loads, load' = load, UNCHANGED <<session, gen, given>>, JobTypes,
         job' \in [Payloads -> JobStates], tries' \in [Payloads -> 0 .. load.retries + 1],
         result' \in [Payloads -> Results],
         \A p \in Payloads :
           /\ job'[p] # "done" => tries'[p] <= load.retries
           /\ job'[p] \in {"simulating", "popping"} => job[p] \in {"simulating", "popping"}
           /\ \/ /\ tries'[p] = tries[p]
                 /\ job[p] \in {"simulating", "popping", "done"} =>
                      job'[p] \in {"simulating", "popping", "done"}
              \/ tries'[p] = tries[p] + 1
  PROVE  JobTypes'
<1>1. Attempts \subseteq Attempts'
  <2> SUFFICES ASSUME NEW p \in Payloads, NEW k \in 0 .. load.retries,
                      k < tries[p] \/ (k = tries[p]
                         /\ job[p] \in {"simulating", "popping", "done"})
               PROVE  k < tries'[p] \/ (k = tries'[p]
                         /\ job'[p] \in {"simulating", "popping", "done"})
    BY SameLoad DEF Attempts
  <2>1. tries[p] \in Nat /\ k \in Nat
    BY LoadFacts DEF JobTypes
  <2>2. CASE tries'[p] = tries[p] /\ (job[p] \in {"simulating", "popping", "done"} =>
                                       job'[p] \in {"simulating", "popping", "done"})
    BY <2>2
  <2>3. CASE tries'[p] = tries[p] + 1
    BY <2>1, <2>3
  <2> QED
    BY <2>2, <2>3
<1>2. Cardinality(Attempts) \in Nat /\ Cardinality(Attempts') \in Nat
      /\ Cardinality(Attempts) <= Cardinality(Attempts')
  BY <1>1, MoreAttempts
<1>3. session' \in [Payloads -> 0 .. Cardinality(Attempts')]
  <2>1. 0 .. Cardinality(Attempts) \subseteq 0 .. Cardinality(Attempts')
    BY <1>2
  <2> QED
    BY <2>1 DEF JobTypes
<1>4. \A p \in Payloads : job'[p] \in {"simulating", "popping"} => session'[p] # 0
  BY DEF JobTypes
<1>5. /\ gen' \in 0 .. load.payloads + 1 /\ given' \in Seq(Results)
      /\ Len(given') = IF gen' = 0 THEN 0 ELSE gen' - 1
  BY DEF JobTypes
<1> QED
  BY <1>3, <1>4, <1>5, SameLoad DEF JobTypes

(* A failed rollout is retried within its budget or is done                 *)
(* (on_rollout_failed of the streaming worker).                             *)
LEMMA FailureMoves ==
  ASSUME load \in Loads, load' = load, UNCHANGED <<session, gen, given>>, JobTypes,
         NEW p \in Payloads, job[p] \in {"simulating", "popping"}, OnRolloutFailed(p)
  PROVE  JobTypes'
<1>0. load.retries \in Nat /\ tries[p] \in 0 .. load.retries
  BY LoadFacts DEF JobTypes
<1>1. tries' \in [Payloads -> 0 .. load.retries + 1] /\ tries'[p] = tries[p] + 1
      /\ \A q \in Payloads : q # p => tries'[q] = tries[q]
  BY <1>0 DEF OnRolloutFailed, JobTypes
<1>2. /\ job' \in [Payloads -> JobStates] /\ \A q \in Payloads : q # p => job'[q] = job[q]
      /\ job'[p] = "done" \/ (job'[p] = "queued" /\ tries[p] < load.retries)
  BY DEF OnRolloutFailed, JobTypes, JobStates
<1>3. result' \in [Payloads -> Results]
  BY DEF OnRolloutFailed, Resolve, JobTypes, Results
<1>4. \A q \in Payloads : job'[q] # "done" => tries'[q] <= load.retries
  <2> SUFFICES ASSUME NEW q \in Payloads, job'[q] # "done" PROVE tries'[q] <= load.retries
    OBVIOUS
  <2>1. CASE q = p
    BY <1>0, <1>1, <1>2, <2>1
  <2>2. CASE q # p
    BY <1>1, <1>2, <2>2 DEF JobTypes
  <2> QED
    BY <2>1, <2>2
<1> QED
  BY <1>1, <1>2, <1>3, <1>4, JobsMove

(* The backend and its worker threads keep the types of the jobs.           *)
LEMMA BackendKeepsJobs ==
  ASSUME load \in Loads, JobTypes, BackendNext
  PROVE  JobTypes'
<1>0. load.payloads \in Nat /\ load.retries \in Nat /\ Payloads = 1 .. load.payloads
  BY LoadFacts DEF Payloads
<1>1. CASE \/ StartDriver \/ StartEngine \/ ChannelTimesOut \/ StartOtherRank
           \/ StopDriver \/ StopEngine \/ JoinEngine
  BY <1>1, JobFrame DEF StartDriver, StartEngine, ChannelTimesOut, StartOtherRank, StopDriver,
     StopEngine, JoinEngine
<1>2. CASE GenerateNothing
  <2>1. UNCHANGED <<load, jobVars>> /\ given' = [p \in 1 .. load.payloads |-> "empty"]
        /\ gen' = load.payloads + 1
    BY <1>0, <1>2 DEF GenerateNothing
  <2>2. given' \in Seq(Results) /\ Len(given') = load.payloads
    <3> DEFINE n == load.payloads
    <3>1. n \in Nat /\ given' = [p \in 1 .. n |-> "empty"]
      BY <1>0, <2>1
    <3> HIDE DEF n
    <3>2. given' \in Seq(Results) /\ Len(given') = n
      BY <3>1 DEF Results
    <3> QED BY <3>2 DEF n
  <2>3. gen' \in 0 .. load.payloads + 1 /\ Len(given') = IF gen' = 0 THEN 0 ELSE gen' - 1
    BY <1>0, <2>1, <2>2
  <2> QED
    BY <2>1, <2>2, <2>3, SameLoad DEF JobTypes, Attempts, jobVars
<1>3. ASSUME NEW S, SubmitAll(S), UNCHANGED <<load, session, tries, result, given>>,
             gen' = gen \/ (gen = 0 /\ gen' = 1)
      PROVE  JobTypes'
  <2>1. /\ job' \in [Payloads -> JobStates]
        /\ \A p \in Payloads : job'[p] = job[p] \/ (job[p] = "none" /\ job'[p] = "queued")
    BY <1>3 DEF SubmitAll, JobTypes, JobStates
  <2>2. Attempts' = Attempts
    BY <1>3, <2>1, SameLoad DEF Attempts
  <2>3. /\ gen' \in 0 .. load.payloads + 1 /\ given' \in Seq(Results)
        /\ Len(given') = IF gen' = 0 THEN 0 ELSE gen' - 1
    BY <1>0, <1>3 DEF JobTypes
  <2> QED
    BY <1>3, <2>1, <2>2, <2>3, SameLoad DEF JobTypes
<1>4. CASE Generate
  BY <1>3, <1>4 DEF Generate
<1>5. CASE AwaitResult \/ AwaitTimesOut
  <2>1. /\ UNCHANGED <<load, jobVars>> /\ gen \in Payloads /\ gen' = gen + 1
        /\ \E r \in Results : given' = Append(given, r)
    BY <1>5 DEF AwaitResult, AwaitTimesOut, JobTypes, Results
  <2>2. given' \in Seq(Results) /\ Len(given') = Len(given) + 1
    BY <2>1 DEF JobTypes
  <2>3. gen' \in 0 .. load.payloads + 1 /\ Len(given') = IF gen' = 0 THEN 0 ELSE gen' - 1
    BY <1>0, <2>1, <2>2 DEF JobTypes
  <2> QED
    BY <2>1, <2>2, <2>3, SameLoad DEF JobTypes, Attempts, jobVars
<1>6. CASE DismissWorker
  <2>1. /\ UNCHANGED <<load, session, tries, gen, given>>
        /\ job' = [p \in Payloads |-> IF job[p] \in {"none", "queued"} THEN "done" ELSE job[p]]
        /\ result' = [p \in Payloads |-> IF job[p] # "none" /\ result[p] = "none" THEN "empty"
                                                                                ELSE result[p]]
    BY <1>6 DEF DismissWorker, genVars
  <2>2. job' \in [Payloads -> JobStates] /\ result' \in [Payloads -> Results]
    BY <2>1 DEF JobTypes, JobStates, Results
  <2> QED
    BY <2>1, <2>2, JobsMove DEF JobTypes
<1>7. ASSUME NEW p \in Payloads, EnqueuePrefetch(p) \/ WorkerNext(p)
      PROVE  JobTypes'
  <2>1. CASE EnqueuePrefetch(p)
    BY <1>3, <2>1 DEF EnqueuePrefetch, genVars
  <2>2. CASE Simulate(p)
    <3>1. /\ UNCHANGED <<load, tries, result, gen, given>> /\ job[p] = "queued"
          /\ job' = [job EXCEPT ![p] = "simulating"]
                /\ session' = [session EXCEPT ![p] = NewSession]
      BY <2>2 DEF Simulate, genVars
    <3>2. /\ job' \in [Payloads -> JobStates] /\ job'[p] = "simulating"
          /\ \A q \in Payloads : q # p => job'[q] = job[q]
      BY <3>1 DEF JobTypes, JobStates
    <3>3. tries[p] \in 0 .. load.retries
      <4>1. tries[p] \in 0 .. load.retries + 1 /\ tries[p] <= load.retries
        BY <3>1 DEF JobTypes
      <4> QED
        BY <1>0, <4>1
    <3>4. <<p, tries[p]>> \notin Attempts
      BY <3>1, <3>3 DEF Attempts
    <3>5. Attempts' = Attempts \cup {<<p, tries[p]>>}
      <4>1. ASSUME NEW q \in Payloads, NEW k \in 0 .. load.retries
            PROVE  <<q, k>> \in Attempts' <=> <<q, k>> \in Attempts \/ <<q, k>> = <<p, tries[p]>>
        <5>1. CASE q = p
          BY <3>1, <3>2, <5>1, SameLoad DEF Attempts
        <5>2. CASE q # p
          BY <3>1, <3>2, <5>2, SameLoad DEF Attempts
        <5> QED
          BY <5>1, <5>2
      <4>2. Attempts' \subseteq Payloads \X (0 .. load.retries)
        BY <3>1, SameLoad DEF Attempts
      <4>3. Attempts \subseteq Payloads \X (0 .. load.retries)
        BY DEF Attempts
      <4> QED
        BY <3>3, <4>1, <4>2, <4>3
    <3>6. IsFiniteSet(Attempts) /\ Cardinality(Attempts) \in Nat
      BY AttemptsBound DEF Attempts
    <3>7. Cardinality(Attempts') = Cardinality(Attempts) + 1
      BY <3>4, <3>5, <3>6, FS_AddElement
    <3>8. session' \in [Payloads -> 0 .. Cardinality(Attempts')] /\ session'[p] # 0
      <4>1. NewSession \in 1 .. Cardinality(Attempts')
        BY <3>7, NewSessionType
      <4>2. 0 .. Cardinality(Attempts) \subseteq 0 .. Cardinality(Attempts')
        BY <3>6, <3>7
      <4>3. NewSession \in 0 .. Cardinality(Attempts') /\ NewSession # 0
        BY <3>6, <3>7, <4>1
      <4> QED
        BY <3>1, <4>2, <4>3 DEF JobTypes
    <3>9. \A q \in Payloads : q # p => session'[q] = session[q]
      BY <3>1 DEF JobTypes
    <3>10. \A q \in Payloads :
             /\ job'[q] # "done" => tries'[q] <= load.retries
             /\ job'[q] \in {"simulating", "popping"} => session'[q] # 0
      BY <1>0, <3>1, <3>2, <3>3, <3>8, <3>9 DEF JobTypes
    <3> QED
      BY <3>1, <3>2, <3>8, <3>10, SameLoad DEF JobTypes
  <2>3. CASE SimulateReturns(p)
    <3>1. /\ UNCHANGED <<load, session, tries, result, gen, given>> /\ job[p] = "simulating"
          /\ job' = [job EXCEPT ![p] = "popping"]
      BY <2>3 DEF SimulateReturns, genVars
    <3>2. /\ job' \in [Payloads -> JobStates] /\ job'[p] = "popping"
          /\ \A q \in Payloads : q # p => job'[q] = job[q]
      BY <3>1 DEF JobTypes, JobStates
    <3> QED
      BY <3>1, <3>2, JobsMove DEF JobTypes
  <2>4. CASE SimulateFails(p)
    BY <2>4, FailureMoves DEF SimulateFails, genVars
  <2>5. CASE PopRecord(p) \/ PopGivesUp(p)
    <3>1. /\ UNCHANGED <<load, session, gen, given>> /\ job[p] = "popping" /\ TakeRecord(p)
      BY <2>5 DEF PopRecord, PopGivesUp, genVars
    <3>2. CASE OnRolloutFailed(p)
      BY <3>1, <3>2, FailureMoves
    <3>3. CASE Resolve(p, "episode") /\ job' = [job EXCEPT ![p] = "done"] /\ UNCHANGED tries
      <4>1. result' \in [Payloads -> Results]
        BY <3>3 DEF Resolve, JobTypes, Results
      <4>2. /\ job' \in [Payloads -> JobStates] /\ job'[p] = "done"
            /\ \A q \in Payloads : q # p => job'[q] = job[q]
        BY <3>3 DEF JobTypes, JobStates
      <4> QED
        BY <3>1, <3>3, <4>1, <4>2, JobsMove DEF JobTypes
    <3> QED
      BY <3>1, <3>2, <3>3 DEF TakeRecord
  <2> QED
    BY <1>7, <2>1, <2>2, <2>3, <2>4, <2>5 DEF WorkerNext
<1> QED
  BY <1>1, <1>2, <1>4, <1>5, <1>6, <1>7 DEF BackendNext

(* The life of a session: a handler runs only while it is open, a record    *)
(* exists only once it is closed, a collector only with a record.           *)
Ordered(s) ==
  /\ rpc[s] # "idle" => phase[s] = "open"
  /\ collector[s] # "none" => record[s] # "absent"
  /\ record[s] # "absent" => phase[s] = "closed"

(* A record with a collector is complete when the collector has labelled    *)
(* it, unless the pop did not wait; a record popped after the wait has no   *)
(* collector still at work.                                                 *)
Settling(s) ==
  /\ collector[s] = "none" => tokens[s] = <<>>
  /\ collector[s] \in {"label", "done"} /\ (record[s] = "kept" \/ ~hurried[s]) =>
       \A i \in DOMAIN tokens[s] : tokens[s][i] # None => outputs[s][i].label = tokens[s][i]
  /\ record[s] = "taken" /\ ~hurried[s] => collector[s] \in {"none", "done"}

(* The poses a handler works on, and those executed, go forward in time.    *)
Forward(s) == Increasing(now[s].poses) /\ Increasing(executed[s])

(* ... and simulate() has returned only for a session that is closed.       *)
LifecycleInv ==
  /\ \A s \in Sessions : Ordered(s) /\ Settling(s) /\ Forward(s)
  /\ \A p \in Payloads : job[p] = "popping" => phase[session[p]] = "closed"

(* At the start no session has begun.                                       *)
LEMMA LifecycleInit == Init => LifecycleInv
<1> SUFFICES ASSUME Init PROVE LifecycleInv
  OBVIOUS
<1>1. ASSUME NEW s \in Sessions PROVE Ordered(s) /\ Settling(s) /\ Forward(s)
  <2>1. /\ rpc[s] = "idle" /\ collector[s] = "none" /\ record[s] = "absent" /\ tokens[s] = <<>>
        /\ now[s].poses = <<>> /\ executed[s] = <<>>
    BY DEF Init
  <2>2. Increasing(<<>>)
    BY DEF Increasing
  <2> QED
    BY <2>1, <2>2 DEF Ordered, Settling, Forward
<1>2. \A p \in Payloads : job[p] = "none"
  BY DEF Init
<1> QED
  BY <1>1, <1>2 DEF LifecycleInv

(* What the end of a drive call changes of its session.                     *)
LEMMA AnswerSteps ==
  ASSUME SessionTypes, NEW s \in Sessions,
         \/ RespondUnlabelled(s) \/ QueryAndRespond(s)
         \/ \E d \in {"student", "expert"} : RespondLabelled(s, d)
         \/ RespondAnyway(s)
  PROVE  /\ UNCHANGED <<phase, tokens, collector, record, hurried>>
         /\ rpc[s] # "idle" /\ rpc'[s] = "idle" /\ now'[s].poses = <<>>
         /\ executed'[s] = executed[s] \o Fresh(s)
<1>1. /\ UNCHANGED <<phase, tokens, collector, record, hurried>> /\ rpc[s] # "idle"
      /\ \E out : RecordAndRespond(s, out)
  BY DEF RespondUnlabelled, QueryAndRespond, RespondLabelled, RespondAnyway
<1> QED
  BY <1>1 DEF RecordAndRespond, RecordStep, Return, SessionTypes, DriverTypes, EpisodeTypes

(* The driver keeps the life of its session in order and never opens it     *)
(* again.                                                                   *)
LEMMA DriverKeepsOrder ==
  ASSUME SessionTypes, NEW s \in Sessions, Ordered(s),
         DriverNext(s) \/ \E recording \in load.recordings : SubmitGroundTruth(s, recording)
  PROVE  Ordered(s)' /\ (phase[s] = "closed" => phase'[s] = "closed")
<1> USE DEF Ordered, SessionTypes, DriverTypes, ExpertTypes, driverVars, episodeVars, expertVars
<1>1. CASE StartSession(s) \/ SubmitImage(s) \/ CloseSession(s)
  BY <1>1 DEF StartSession, SubmitImage, Observe, CloseSession, Called
<1>2. CASE CollectFuture(s) \/ LabelRecord(s) \/ SetEvent(s)
  BY <1>2 DEF CollectFuture, LabelRecord, SetEvent
<1>3. CASE \E t \in load.times : SubmitEgomotion(s, t) \/ SubmitRoute(s, t)
  BY <1>3 DEF SubmitEgomotion, SubmitRoute, Observe
<1>4. CASE Drive(s)
  BY <1>4 DEF Drive, Called
<1>5. CASE AskEngine(s) \/ QueryAndWait(s)
  BY <1>5 DEF AskEngine, QueryAndWait
<1>6. CASE \/ RespondUnlabelled(s) \/ QueryAndRespond(s)
           \/ \E d \in {"student", "expert"} : RespondLabelled(s, d)
           \/ RespondAnyway(s)
  <2>1. UNCHANGED <<phase, collector, record>> /\ rpc'[s] = "idle"
    BY <1>6, AnswerSteps
  <2> QED
    BY <2>1
<1>7. CASE PostprocessRaises(s)
  BY <1>7 DEF PostprocessRaises, Return
<1>8. CASE \E t \in Ticks : ExpertReplies(s, t)
  BY <1>8 DEF ExpertReplies
<1>9. CASE \E recording \in load.recordings : SubmitGroundTruth(s, recording)
  BY <1>9 DEF SubmitGroundTruth
<1> QED
  BY <1>1, <1>2, <1>3, <1>4, <1>5, <1>6, <1>7, <1>8, <1>9 DEF DriverNext

(* The collector labels every output it has a token for, if the record is   *)
(* still there.                                                             *)
LEMMA LabelRecordSettles ==
  ASSUME SessionTypes, NEW s \in Sessions, Ordered(s), Settling(s), Aligned(s), LabelRecord(s)
  PROVE  Settling(s)'
<1>1. /\ collector[s] = "collect" /\ Len(tokens[s]) = Len(futures[s])
      /\ UNCHANGED <<tokens, record, hurried>> /\ record[s] # "absent"
  BY DEF LabelRecord, Ordered
<1>2. outputs[s] \in Seq(Output) /\ tokens[s] \in Seq(Ticks \cup {None})
      /\ futures[s] \in Seq(Ticks \cup {None})
  BY DEF SessionTypes, EpisodeTypes, ExpertTypes
<1>3. DOMAIN tokens[s] \subseteq DOMAIN outputs[s]
  <2>1. CASE load.expert = "off"
    BY <1>1, <1>2, <2>1 DEF Aligned
  <2>2. CASE load.expert # "off"
    BY <1>1, <1>2, <2>2 DEF Aligned
  <2> QED
    BY <2>1, <2>2
<1>4. CASE collector' = [collector EXCEPT ![s] = "died"] /\ record[s] = "kept"
  BY <1>1, <1>4 DEF Settling, SessionTypes, ExpertTypes
<1>5. CASE /\ collector' = [collector EXCEPT ![s] = "label"]
           /\ outputs' = IF record[s] = "kept"
                           THEN [outputs EXCEPT ![s] = Labelled(@, tokens[s])] ELSE outputs
  <2>1. collector'[s] = "label"
    BY <1>5 DEF SessionTypes, ExpertTypes
  <2>2. CASE record[s] = "kept"
    <3>1. outputs'[s] = Labelled(outputs[s], tokens[s])
      BY <1>5, <2>2 DEF SessionTypes, EpisodeTypes
    <3>2. \A i \in DOMAIN tokens[s] :
            tokens[s][i] # None => outputs'[s][i] = [outputs[s][i] EXCEPT !.label = tokens[s][i]]
      BY <1>3, <3>1 DEF Labelled
    <3>3. \A i \in DOMAIN tokens[s] : outputs[s][i] \in Output
      BY <1>2, <1>3
    <3>4. \A i \in DOMAIN tokens[s] : tokens[s][i] # None => outputs'[s][i].label = tokens[s][i]
      BY <3>2, <3>3 DEF Output
    <3> QED
      BY <1>1, <2>1, <2>2, <3>4 DEF Settling
  <2>3. CASE record[s] = "taken" /\ hurried[s]
    BY <1>1, <2>1, <2>3 DEF Settling
  <2>4. record[s] # "taken" \/ hurried[s]
    BY <1>1 DEF Settling
  <2>5. record[s] \in {"kept", "taken"}
    BY <1>1 DEF SessionTypes, ExpertTypes
  <2> QED
    BY <2>2, <2>3, <2>4, <2>5
<1> QED
  BY <1>4, <1>5 DEF LabelRecord

(* The driver keeps the record settling: a record is not written to after   *)
(* close_session but by its collector.                                      *)
LEMMA DriverSettles ==
  ASSUME SessionTypes, NEW s \in Sessions, Ordered(s), Settling(s), Aligned(s),
         DriverNext(s) \/ \E recording \in load.recordings : SubmitGroundTruth(s, recording)
  PROVE  Settling(s)'
<1>1. CASE LabelRecord(s)
  BY <1>1, LabelRecordSettles
<1> USE DEF SessionTypes, EpisodeTypes, ExpertTypes, driverVars, episodeVars, expertVars
<1>2. CASE UNCHANGED <<outputs, tokens, collector, record, hurried>>
  BY <1>2 DEF Settling
<1>3. CASE StartSession(s) \/ SubmitImage(s)
  BY <1>2, <1>3 DEF StartSession, SubmitImage, Observe
<1>4. CASE CloseSession(s)
  <2>1. /\ phase[s] = "open" /\ UNCHANGED <<tokens, outputs, hurried>>
        /\ record'[s] = "kept" /\ collector'[s] \in {"none", "collect"}
    BY <1>4 DEF CloseSession, Called
  <2>2. collector[s] = "none"
    BY <2>1 DEF Ordered
  <2> QED
    BY <2>1, <2>2 DEF Settling
<1>5. CASE CollectFuture(s)
  <2>1. collector[s] = "collect" /\ UNCHANGED <<collector, record, hurried>>
    BY <1>5 DEF CollectFuture
  <2> QED
    BY <2>1 DEF Settling
<1>6. CASE SetEvent(s)
  <2>1. /\ collector[s] = "label" /\ collector'[s] = "done"
        /\ UNCHANGED <<outputs, tokens, record, hurried>>
    BY <1>6 DEF SetEvent
  <2> QED
    BY <2>1 DEF Settling
<1>7. CASE \E t \in load.times : SubmitEgomotion(s, t) \/ SubmitRoute(s, t)
  BY <1>2, <1>7 DEF SubmitEgomotion, SubmitRoute, Observe
<1>8. CASE Drive(s) \/ AskEngine(s) \/ QueryAndWait(s)
  BY <1>2, <1>8 DEF Drive, AskEngine, QueryAndWait
<1>9. CASE \/ RespondUnlabelled(s) \/ QueryAndRespond(s)
           \/ \E d \in {"student", "expert"} : RespondLabelled(s, d)
           \/ RespondAnyway(s)
  <2>1. UNCHANGED <<tokens, collector, record, hurried>> /\ rpc[s] # "idle"
    BY <1>9, AnswerSteps
  <2>2. collector[s] = "none" /\ record[s] = "absent"
    BY <2>1 DEF Ordered
  <2> QED
    BY <2>1, <2>2 DEF Settling
<1>10. CASE PostprocessRaises(s)
  BY <1>2, <1>10 DEF PostprocessRaises
<1>11. CASE \E t \in Ticks : ExpertReplies(s, t)
  BY <1>2, <1>11 DEF ExpertReplies
<1>12. CASE \E recording \in load.recordings : SubmitGroundTruth(s, recording)
  BY <1>2, <1>12 DEF SubmitGroundTruth
<1> QED
  BY <1>1, <1>3, <1>4, <1>5, <1>6, <1>7, <1>8, <1>9, <1>10, <1>11, <1>12 DEF DriverNext

(* The driver keeps the trajectories going forward: a call asks the engine  *)
(* only with poses that were all accepted.                                  *)
LEMMA DriverMovesForward ==
  ASSUME SessionTypes, NEW s \in Sessions, Forward(s),
         DriverNext(s) \/ \E recording \in load.recordings : SubmitGroundTruth(s, recording)
  PROVE  Forward(s)'
<1> USE DEF driverVars, episodeVars, expertVars
<1>0. Increasing(<<>>)
  BY DEF Increasing
<1>1. CASE UNCHANGED <<now, executed>>
  BY <1>1 DEF Forward
<1>2. CASE StartSession(s) \/ SubmitImage(s) \/ CloseSession(s)
  BY <1>1, <1>2 DEF StartSession, SubmitImage, Observe, CloseSession
<1>3. CASE CollectFuture(s) \/ LabelRecord(s) \/ SetEvent(s)
  BY <1>1, <1>3 DEF CollectFuture, LabelRecord, SetEvent
<1>4. CASE \E t \in load.times : SubmitEgomotion(s, t) \/ SubmitRoute(s, t)
  BY <1>1, <1>4 DEF SubmitEgomotion, SubmitRoute, Observe
<1>5. CASE Drive(s)
  <2> DEFINE input == [tick[s] EXCEPT !.poses = InTimeOrder(@)]
  <2>1. CASE ~(Builds(input) /\ Prepares(buf[s], input))
    BY <1>1, <1>5, <2>1 DEF Drive
  <2>2. CASE Builds(input) /\ Prepares(buf[s], input)
    <3>1. Accepted(buf[s].ego, input.poses) = input.poses
      BY <2>2 DEF Prepares
    <3>2. buf[s].ego \in Seq(Nat) /\ input.poses \in Seq(Nat)
      <4>1. /\ load.times \subseteq Nat /\ buf[s].ego \in Seq(load.times)
            /\ tick[s] \in [frames: Nat, poses: Seq(load.times), route: load.times \cup {0}]
        BY LoadFacts DEF SessionTypes, DriverTypes, Buffers
      <4>2. input.poses = InTimeOrder(tick[s].poses)
        BY <4>1
      <4>3. InTimeOrder(tick[s].poses) \in Seq(load.times)
        BY <4>1, InTimeOrderType
      <4> QED
        BY <4>1, <4>2, <4>3, SeqMonotonic
    <3>3. Increasing(input.poses)
      BY <3>1, <3>2, AcceptedMovesForward
    <3>4. now'[s].poses = input.poses /\ executed' = executed
      <4>1. /\ now' = [now EXCEPT ![s] = [tick |-> step'[s], poses |-> input.poses]]
            /\ executed' = executed
        BY <1>5, <2>2 DEF Drive
      <4> HIDE DEF input
      <4> QED
        BY <4>1 DEF SessionTypes, DriverTypes
    <3> QED
      BY <3>3, <3>4 DEF Forward
  <2> QED
    BY <2>1, <2>2
<1>6. CASE AskEngine(s) \/ QueryAndWait(s)
  BY <1>1, <1>6 DEF AskEngine, QueryAndWait
<1>7. CASE \/ RespondUnlabelled(s) \/ QueryAndRespond(s)
           \/ \E d \in {"student", "expert"} : RespondLabelled(s, d)
           \/ RespondAnyway(s)
  <2>1. now'[s].poses = <<>> /\ executed'[s] = executed[s] \o Fresh(s)
    BY <1>7, AnswerSteps
  <2>2. /\ load.times \subseteq Nat /\ now[s].poses \in Seq(load.times)
        /\ executed[s] \in Seq(load.times)
    BY LoadFacts DEF SessionTypes, DriverTypes, EpisodeTypes
  <2>3. Increasing(executed[s] \o Fresh(s))
    BY <2>2, FreshMovesForward DEF Forward
  <2> QED
    BY <1>0, <2>1, <2>3 DEF Forward
<1>8. CASE PostprocessRaises(s)
  <2>1. now'[s].poses = <<>> /\ executed' = executed
    BY <1>8 DEF PostprocessRaises, Return, SessionTypes, DriverTypes
  <2> QED
    BY <1>0, <2>1 DEF Forward
<1>9. CASE \E t \in Ticks : ExpertReplies(s, t)
  BY <1>1, <1>9 DEF ExpertReplies
<1>10. CASE \E recording \in load.recordings : SubmitGroundTruth(s, recording)
  BY <1>1, <1>10 DEF SubmitGroundTruth
<1> QED
  BY <1>2, <1>3, <1>4, <1>5, <1>6, <1>7, <1>8, <1>9, <1>10 DEF DriverNext

(* No driver step touches a job.                                            *)
LEMMA JobsAtEase ==
  ASSUME NEW s \in Sessions,
         DriverNext(s) \/ \E recording \in load.recordings : SubmitGroundTruth(s, recording)
  PROVE  UNCHANGED <<load, jobVars, genVars>>
<1>1. CASE AskEngine(s)
  BY <1>1 DEF AskEngine
<1> QED
  BY <1>1, RpcStep

(* A step that at most ends a wait of a session keeps it in order.          *)
LEMMA SessionFrame ==
  ASSUME NEW s \in Sessions, Ordered(s), Settling(s), Forward(s),
         UNCHANGED <<phase, now, outputs, executed, tokens, collector, record, hurried>>,
         rpc'[s] # "idle" => rpc[s] # "idle"
  PROVE  Ordered(s)' /\ Settling(s)' /\ Forward(s)'
  BY DEF Ordered, Settling, Forward

(* Each process keeps all sessions in order.                                *)
LEMMA DriverKeepsLifecycle ==
  ASSUME SessionTypes, JobTypes, LabelInv, LifecycleInv, NEW s \in Sessions,
         DriverNext(s) \/ \E recording \in load.recordings : SubmitGroundTruth(s, recording)
  PROVE  LifecycleInv'
<1>1. UNCHANGED <<load, job, session>>
  BY JobsAtEase DEF jobVars
<1>2. ASSUME NEW z \in Sessions
      PROVE  Ordered(z)' /\ Settling(z)' /\ Forward(z)' /\ (phase[z] = "closed"
                => phase'[z] = "closed")
  <2>1. Ordered(z) /\ Settling(z) /\ Forward(z) /\ Aligned(z)
    BY DEF LifecycleInv, LabelInv
  <2>2. CASE z = s
    BY <2>1, <2>2, DriverKeepsOrder, DriverSettles, DriverMovesForward
  <2>3. CASE z # s
    <3>1. /\ phase'[z] = phase[z] /\ rpc'[z] = rpc[z] /\ now'[z] = now[z]
          /\ outputs'[z] = outputs[z] /\ executed'[z] = executed[z]
          /\ tokens'[z] = tokens[z] /\ collector'[z] = collector[z]
          /\ record'[z] = record[z] /\ hurried'[z] = hurried[z]
      BY <2>3, OtherSessions
    <3> QED
      BY <2>1, <3>1 DEF Ordered, Settling, Forward
  <2> QED
    BY <2>2, <2>3
<1>3. ASSUME NEW p \in Payloads, job[p] = "popping" PROVE phase'[session[p]] = "closed"
  <2>1. session[p] \in Sessions /\ phase[session[p]] = "closed"
    BY <1>3, SessionsOfJobs DEF SessionTypes, LifecycleInv
  <2> QED
    BY <1>2, <2>1
<1> QED
  BY <1>1, <1>2, <1>3, SameLoad DEF LifecycleInv

LEMMA EngineKeepsLifecycle ==
  ASSUME SessionTypes, WaitInv, LifecycleInv, EngineNext \/ UNCHANGED vars
  PROVE  LifecycleInv'
<1>1. /\ UNCHANGED <<load, phase, now, outputs, executed, tokens, collector, record, hurried,
            job, session>>
      /\ rpc' = rpc \/ rpc' = Unbound(batch)
  <2>1. CASE EngineNext
    BY <2>1 DEF EngineNext, CollectBatch, AnswerBatch, ForwardRaises, TakeSentinel, driverVars,
       episodeVars, expertVars, jobVars
  <2>2. CASE UNCHANGED vars
    BY <2>2 DEF vars, driverVars, episodeVars, expertVars, jobVars
  <2> QED
    BY <2>1, <2>2
<1>2. ASSUME NEW s \in Sessions PROVE rpc'[s] # "idle" => rpc[s] # "idle"
  <2>1. s \in Range(batch) => rpc[s] = "infer"
    BY DEF WaitInv, Queueing
  <2> QED
    BY <1>1, <2>1 DEF Unbound
<1>3. ASSUME NEW s \in Sessions PROVE Ordered(s)' /\ Settling(s)' /\ Forward(s)'
  BY <1>1, <1>2, SessionFrame DEF LifecycleInv
<1> QED
  BY <1>1, <1>3, SameLoad DEF LifecycleInv

(* A pop takes the record of a closed session, after its collector or in a  *)
(* hurry (pop_session_record).                                              *)
LEMMA PopSettles ==
  ASSUME SessionTypes, JobTypes, LifecycleInv, NEW p \in Payloads, PopRecord(p) \/ PopGivesUp(p),
         NEW s \in Sessions
  PROVE  Ordered(s)' /\ Settling(s)' /\ Forward(s)'
<1>1. /\ UNCHANGED <<phase, now, rpc, outputs, executed, tokens, collector>>
      /\ record' = [record EXCEPT ![session[p]] = "taken"]
      /\ \/ hurried' = hurried /\ collector[session[p]] \in {"none", "done"}
         \/ hurried' = [hurried EXCEPT ![session[p]] = TRUE]
      /\ job[p] = "popping"
  BY DEF PopRecord, PopGivesUp, TakeRecord, CollectorIsDone, driverVars, episodeVars
<1>2. session[p] \in Sessions /\ phase[session[p]] = "closed"
  BY <1>1, SessionsOfJobs DEF SessionTypes, LifecycleInv
<1>3. Ordered(s) /\ Settling(s) /\ Forward(s)
  BY DEF LifecycleInv
<1>4. CASE s # session[p]
  <2>1. record'[s] = record[s] /\ hurried'[s] = hurried[s]
    BY <1>1, <1>4 DEF SessionTypes, ExpertTypes
  <2> QED
    BY <1>1, <1>3, <2>1 DEF Ordered, Settling, Forward
<1>5. CASE s = session[p]
  <2>1. /\ record'[s] = "taken"
        /\ \/ hurried'[s] = hurried[s] /\ collector[s] \in {"none", "done"}
           \/ hurried'[s] = TRUE
    BY <1>1, <1>5 DEF SessionTypes, ExpertTypes
  <2>2. Ordered(s)' /\ Forward(s)'
    BY <1>1, <1>2, <1>3, <1>5, <2>1 DEF Ordered, Forward
  <2>3. Settling(s)'
    BY <1>1, <1>3, <2>1 DEF Settling
  <2> QED
    BY <2>2, <2>3
<1> QED
  BY <1>4, <1>5

(* A job is popping only after simulate() has returned, that is after       *)
(* close_session.                                                           *)
LEMMA PoppingStarts ==
  ASSUME JobTypes, BackendNext, NEW p \in Payloads, job'[p] = "popping"
  PROVE  /\ session'[p] = session[p]
         /\ job[p] = "popping" \/ phase[session[p]] = "closed"
<1> USE DEF JobTypes, jobVars
<1>1. CASE \/ StartDriver \/ StartEngine \/ ChannelTimesOut \/ StartOtherRank
           \/ GenerateNothing \/ AwaitResult \/ AwaitTimesOut
           \/ StopDriver \/ StopEngine \/ JoinEngine
  BY <1>1 DEF StartDriver, StartEngine, ChannelTimesOut, StartOtherRank, GenerateNothing,
     AwaitResult, AwaitTimesOut, StopDriver, StopEngine, JoinEngine
<1>2. CASE Generate \/ DismissWorker
  BY <1>2 DEF Generate, SubmitAll, DismissWorker
<1>3. ASSUME NEW q \in Payloads, EnqueuePrefetch(q) \/ WorkerNext(q)
      PROVE  session'[p] = session[p] /\ (job[p] = "popping" \/ phase[session[p]] = "closed")
  <2>1. CASE EnqueuePrefetch(q)
    BY <2>1 DEF EnqueuePrefetch, SubmitAll
  <2>2. CASE Simulate(q)
    <3>1. /\ job' = [job EXCEPT ![q] = "simulating"]
          /\ session' = [session EXCEPT ![q] = NewSession]
      BY <2>2 DEF Simulate
    <3>2. p # q
      BY <3>1
    <3> QED
      BY <3>1, <3>2
  <2>3. CASE SimulateReturns(q)
    BY <2>3 DEF SimulateReturns
  <2>4. CASE SimulateFails(q)
    BY <2>4 DEF SimulateFails, OnRolloutFailed
  <2>5. CASE PopRecord(q) \/ PopGivesUp(q)
    BY <2>5 DEF PopRecord, PopGivesUp, TakeRecord, OnRolloutFailed
  <2> QED
    BY <1>3, <2>1, <2>2, <2>3, <2>4, <2>5 DEF WorkerNext
<1> QED
  BY <1>1, <1>2, <1>3 DEF BackendNext

(* The backend keeps all sessions in order.                                 *)
LEMMA BackendKeepsLifecycle ==
  ASSUME SessionTypes, JobTypes, LifecycleInv, BackendNext
  PROVE  LifecycleInv'
<1>1. /\ UNCHANGED <<load, phase, rpc, now, outputs, executed, tokens, collector>>
      /\ UNCHANGED <<record, hurried>> \/ \E p \in Payloads : PopRecord(p) \/ PopGivesUp(p)
  BY BackendKeepsTypes DEF driverVars, episodeVars
<1>2. ASSUME NEW s \in Sessions PROVE Ordered(s)' /\ Settling(s)' /\ Forward(s)'
  <2>1. CASE UNCHANGED <<record, hurried>>
    BY <1>1, <2>1, SessionFrame DEF LifecycleInv
  <2> QED
    BY <1>1, <2>1, PopSettles
<1>3. ASSUME NEW p \in Payloads, job'[p] = "popping" PROVE phase'[session'[p]] = "closed"
  BY <1>1, <1>3, PoppingStarts DEF LifecycleInv
<1> QED
  BY <1>1, <1>2, <1>3, SameLoad DEF LifecycleInv

(* The inductive invariant of the rollout process.                          *)
ServingInv ==
  SessionTypes /\ WaitInv /\ LabelInv /\ JobTypes /\ LifecycleInv

(* At the start nothing is recorded.                                        *)
LEMMA LabelInit == Init => LabelInv
<1> SUFFICES ASSUME Init, NEW s \in Sessions PROVE Attributed(s) /\ Aligned(s)
  BY DEF LabelInv
<1>1. /\ rpc[s] = "idle" /\ outputs[s] = <<>> /\ drove[s] = <<>> /\ futures[s] = <<>>
      /\ tokens[s] = <<>>
  BY DEF Init
<1> QED
  BY <1>1 DEF Attributed, Aligned

(* The invariant holds for every load, batch size and buffer capacity.      *)
THEOREM ServingInvariant == Spec => []ServingInv
<1>1. Init => ServingInv
  BY SessionInit, WaitInit, LabelInit, JobInit, LifecycleInit DEF ServingInv
<1>2. ServingInv /\ [Next]_vars => ServingInv'
  <2> SUFFICES ASSUME ServingInv, [Next]_vars PROVE ServingInv'
    OBVIOUS
  <2> USE DEF ServingInv
  <2>0. load \in Loads
    BY DEF SessionTypes
  <2>1. ASSUME NEW s \in Sessions,
               DriverNext(s) \/ \E recording \in load.recordings : SubmitGroundTruth(s, recording)
        PROVE  ServingInv'
    <3>1. SessionTypes' /\ WaitInv' /\ LabelInv' /\ LifecycleInv'
      BY <2>1, DriverKeepsTypes, DriverKeepsWait, DriverKeepsLabels, DriverKeepsLifecycle
    <3>2. UNCHANGED <<load, jobVars, genVars>>
      BY <2>1, JobsAtEase
    <3> QED
      BY <3>1, <3>2, JobFrame
  <2>2. CASE EngineNext
    <3>1. SessionTypes' /\ WaitInv' /\ LabelInv' /\ LifecycleInv'
      BY <2>2, EngineKeepsTypes, EngineKeepsWait, OthersKeepLabels, EngineKeepsLifecycle
    <3>2. UNCHANGED <<load, jobVars, genVars>>
      BY <2>2 DEF EngineNext, CollectBatch, AnswerBatch, ForwardRaises, TakeSentinel
    <3> QED
      BY <3>1, <3>2, JobFrame
  <2>3. CASE BackendNext
    BY <2>0, <2>3, BackendKeepsTypes, BackendKeepsWait, OthersKeepLabels, BackendKeepsJobs,
       BackendKeepsLifecycle
  <2>4. CASE UNCHANGED vars
    <3>1. SessionTypes'
      BY <2>4, DriverFrame, EpisodeFrame, ExpertFrame DEF vars, SessionTypes
    <3>2. WaitInv'
      BY <2>4, SameLoad DEF vars, driverVars, engineVars, serverVars, WaitInv, EngineTypes,
            Queueing,
         Stopping
    <3>3. LabelInv' /\ LifecycleInv'
      BY <2>4, OthersKeepLabels, EngineKeepsLifecycle
    <3>4. JobTypes'
      BY <2>4, JobFrame DEF vars
    <3> QED
      BY <3>1, <3>2, <3>3, <3>4
  <2> QED
    BY <2>1, <2>2, <2>3, <2>4 DEF Next
<1> QED
  BY <1>1, <1>2, PTL DEF Spec

(* The elements of a sequence over S are in S.                              *)
LEMMA RangeType ==
  ASSUME NEW S, NEW q \in Seq(S)
  PROVE  Range(q) \subseteq S
  BY DEF Range

(* The type invariant the runs check follows.                               *)
LEMMA TypesFollow == ServingInv => TypeOK
<1> SUFFICES ASSUME ServingInv PROVE TypeOK
  OBVIOUS
<1> USE DEF ServingInv, SessionTypes
<1>1. load \in Loads /\ phase \in [Sessions -> {"absent", "open", "closed"}]
  BY DEF DriverTypes
<1>2. ASSUME NEW s \in Sessions
      PROVE  /\ tick[s].frames \in Nat /\ tick[s].route \in load.times \cup {0}
             /\ Range(tick[s].poses) \subseteq load.times
             /\ step[s] \in 0 .. load.ticks /\ rpc[s] \in RpcPcs
             /\ now[s].tick \in 0 .. load.ticks /\ Range(now[s].poses) \subseteq load.times
             /\ buf[s].frames \in 0 .. NumContextFrames
             /\ Len(buf[s].ego) <= NumWaypoints + 1 /\ buf[s].route \in load.times \cup {0}
             /\ Range(truth[s].times) \subseteq Nat
  <2>1. /\ tick[s] \in [frames: Nat, poses: Seq(load.times), route: load.times \cup {0}]
        /\ now[s] \in [tick: 0 .. load.ticks, poses: Seq(load.times)]
        /\ truth[s] \in [anchor: Nat, times: Seq(Nat)]
        /\ buf[s] \in Buffers /\ step[s] \in 0 .. load.ticks /\ rpc[s] \in RpcPcs
    BY DEF DriverTypes
  <2>2. /\ Range(tick[s].poses) \subseteq load.times /\ Range(now[s].poses) \subseteq load.times
        /\ Range(truth[s].times) \subseteq Nat
    BY <2>1, RangeType
  <2> QED
    BY <2>1, <2>2 DEF Buffers
<1>3. ASSUME NEW s \in Sessions
      PROVE  /\ Range(outputs[s]) \subseteq Output /\ Range(executed[s]) \subseteq load.times
             /\ Range(drove[s]) \subseteq {"student", "expert"}
             /\ Range(futures[s]) \subseteq Ticks \cup {None}
             /\ ask[s] \in [Ticks -> QueryStates]
             /\ Len(tokens[s]) <= Len(futures[s])
             /\ collector[s] \in CollectorPcs
             /\ record[s] \in {"absent", "kept", "taken"} /\ hurried[s] \in BOOLEAN
  <2>1. /\ outputs[s] \in Seq(Output) /\ executed[s] \in Seq(load.times)
        /\ drove[s] \in Seq({"student", "expert"}) /\ futures[s] \in Seq(Ticks \cup {None})
    BY DEF EpisodeTypes, ExpertTypes
  <2> QED
    BY <2>1, RangeType DEF ExpertTypes
<1>4. /\ Range(queue) \subseteq Sessions \cup {Shutdown} /\ engine \in EnginePcs
      /\ Range(batch) \subseteq Sessions /\ Len(batch) <= MaxBatch
      /\ IsInjective(queue) /\ IsInjective(batch) /\ Range(queue) \cap Range(batch) = {}
      /\ backend \in BackendLife /\ grace \in BOOLEAN /\ accepting \in BOOLEAN
  BY RangeType DEF WaitInv, EngineTypes, Queueing
<1>5. session \in [Payloads -> Sessions \cup {0}]
  BY SessionsOfJobs
<1>6. gen \in 0 .. load.payloads + 1 /\ Len(given) <= load.payloads
  <2>1. load.payloads \in Nat /\ gen \in 0 .. load.payloads + 1
        /\ Len(given) = IF gen = 0 THEN 0 ELSE gen - 1
    BY LoadFacts DEF JobTypes
  <2> QED
    BY <2>1
<1> QED
  BY <1>1, <1>2, <1>3, <1>4, <1>5, <1>6 DEF TypeOK, JobTypes

(* Every variable keeps its type, a batch is never larger than configured   *)
(* and no session is queued twice.                                          *)
THEOREM ServingTypes == Spec => []TypeOK
  BY ServingInvariant, TypesFollow, PTL

(* The label property follows session by session.                           *)
LEMMA LabelsFollow == ServingInv => LabelsMatchTicks
  BY DEF ServingInv, LabelInv, Attributed, LabelsMatchTicks

(* A label sits on the tick the expert was asked about (expert_futures and  *)
(* record.outputs are matched by position).                                 *)
THEOREM LabelsStayOnTheirTicks == Spec => []LabelsMatchTicks
  BY ServingInvariant, LabelsFollow, PTL

(* The attribution property follows session by session.                     *)
LEMMA AttributionFollows == ServingInv => ActionsAreAttributed
<1> SUFFICES ASSUME ServingInv, NEW s \in Sessions
             PROVE  /\ drove[s] = [i \in DOMAIN outputs[s] |-> outputs[s][i].driver]
                    /\ \A i \in DOMAIN outputs[s] :
                         outputs[s][i].driver = "expert" =>
                           outputs[s][i].masked /\ outputs[s][i].label = outputs[s][i].tick
  BY DEF ActionsAreAttributed
<1>1. Attributed(s)
  BY DEF ServingInv, LabelInv
<1>2. drove[s] \in Seq({"student", "expert"}) /\ outputs[s] \in Seq(Output)
  BY DEF ServingInv, SessionTypes, EpisodeTypes
<1>3. DOMAIN drove[s] = DOMAIN outputs[s]
  BY <1>1, <1>2 DEF Attributed
<1>4. drove[s] = [i \in DOMAIN drove[s] |-> drove[s][i]]
  BY <1>2
<1>5. \A i \in DOMAIN outputs[s] : drove[s][i] = outputs[s][i].driver
  BY <1>1 DEF Attributed
<1> QED
  BY <1>1, <1>3, <1>4, <1>5 DEF Attributed

(* The record says who drove each tick, and what the expert drove is        *)
(* labelled and kept out of the policy gradient.                            *)
THEOREM AttributionHolds == Spec => []ActionsAreAttributed
  BY ServingInvariant, AttributionFollows, PTL

(* The trajectory property follows session by session.                      *)
LEMMA ForwardFollows == ServingInv => ExecutedMovesForward
  BY DEF ServingInv, LifecycleInv, Forward, ExecutedMovesForward

(* The executed trajectory goes forward in time however AlpaSim splits,     *)
(* repeats or reorders the poses it submits.                                *)
THEOREM TrajectoriesMoveForward == Spec => []ExecutedMovesForward
  BY ServingInvariant, ForwardFollows, PTL

(* The property of popped records follows session by session.               *)
LEMMA SettlingFollows == ServingInv => PoppedIsSettled
<1> SUFFICES ASSUME ServingInv, NEW s \in Sessions, record[s] = "taken", ~hurried[s]
             PROVE  /\ collector[s] \in {"none", "done"}
                    /\ \A i \in DOMAIN tokens[s] :
                         tokens[s][i] # None => outputs[s][i].label = tokens[s][i]
  BY DEF PoppedIsSettled
<1>1. Settling(s)
  BY DEF ServingInv, LifecycleInv
<1>2. collector[s] \in {"none", "done"}
  BY <1>1 DEF Settling
<1>3. CASE collector[s] = "none"
  BY <1>1, <1>2, <1>3 DEF Settling
<1>4. CASE collector[s] = "done"
  BY <1>1, <1>2, <1>4 DEF Settling
<1> QED
  BY <1>2, <1>3, <1>4

(* A record popped after the wait carries every label its collector got,    *)
(* and nobody writes to it any more.                                        *)
THEOREM PopsAreSettled == Spec => []PoppedIsSettled
  BY ServingInvariant, SettlingFollows, PTL

(* Once the engine has returned without the grace period running out, no    *)
(* call is under way, so the queue can hold no session.                     *)
LEMMA NobodyFollows == ServingInv => NobodyIsStranded
<1> SUFFICES ASSUME ServingInv, engine = "exited", ~grace
             PROVE  queue = <<>> /\ \A s \in Sessions : rpc[s] \notin {"ask", "infer"}
  BY DEF NobodyIsStranded
<1> USE DEF ServingInv, WaitInv, EngineTypes, Queueing, Stopping
<1>1. \A s \in Sessions : rpc[s] = "idle"
  OBVIOUS
<1>2. Shutdown \notin Range(queue) /\ \A s \in Sessions : s \notin Range(queue)
  BY <1>1
<1>3. queue \in Seq(Sessions \cup {Shutdown}) /\ Range(queue) \subseteq Sessions \cup {Shutdown}
  BY RangeType
<1>4. queue = <<>>
  <2>1. Len(queue) \in Nat /\ (Len(queue) # 0 => queue[1] \in Range(queue))
    BY <1>3 DEF Range
  <2> QED
    BY <1>2, <1>3, <2>1
<1> QED
  BY <1>1, <1>4

(* The engine thread leaves no handler waiting.                             *)
THEOREM ExitStrandsNobody == Spec => []NobodyIsStranded
  BY ServingInvariant, NobodyFollows, PTL
=============================================================================

--------------------------- MODULE CommInitProofs ---------------------------
(***************************************************************************)
(* Proofs about the bootstrap, for any number of processes launched and     *)
(* configured: the types, and that every communicator is whole.             *)
(***************************************************************************)
EXTENDS CommInit, FiniteSetTheorems, TLAPS

(* Processes that have taken a counter value they will give back.           *)
RefusedPolicies(k) == {p \in Policies : pc[p] = "giveBackRank" /\ at[p] = k}
RefusedRollouts(k) == {p \in Rollouts : pc[p] = "giveBackRank" /\ at[p] = k}
RefusedIds         == {p \in Rollouts : pc[p] = "giveBackId"}

(* A counter from which somebody was refused has passed its limit by as     *)
(* many as have yet to give back, so it never falls below the limit again.  *)
Covers(counter, limit, refused) ==
  /\ IsFiniteSet(refused)
  /\ refused # {} => counter >= limit + Cardinality(refused)

CountersOK ==
  /\ Covers(replicas, NumRollouts, RefusedIds)
  /\ \A k \in Prefixes : /\ Covers(policyCtr[k], NumPolicies, RefusedPolicies(k))
                         /\ Covers(rolloutCtr[k], 1, RefusedRollouts(k))

(* Ranks and replica ids that were handed out lie below their counters.     *)
RanksOK ==
  \A k \in Prefixes :
    /\ \A p \in Policies : rank[p][k] # None =>
         /\ rank[p][k] < NumPolicies /\ rank[p][k] < policyCtr[k]
         /\ \A q \in Policies : p # q => rank[p][k] # rank[q][k]
    /\ \A p \in Rollouts : rank[p][k] # None =>
         /\ rank[p][k] = NumPolicies /\ rolloutCtr[k] > 0
         /\ \A q \in Rollouts : p # q => rank[q][k] = None

HasId(p) == p \in Rollouts /\ pc[p] \notin {"acquire", "giveBackId", "failed"}

IdsOK ==
  /\ \A p \in Procs : pc[p] \in {"acquire", "giveBackId"} => p \in Rollouts
  /\ \A p \in Procs : HasId(p) =>
       /\ at[p] < replicas
       /\ \A q \in Procs : HasId(q) /\ p # q => at[p] # at[q]

(* What a process has done under the prefixes up to the one it is at.       *)
PathOK ==
  \A p \in Procs :
    /\ pc[p] # "withdraw"
    /\ pc[p] \in {"uid", "announce", "ready", "barrier", "create"} => rank[p][at[p]] # None
    /\ pc[p] \in {"announce", "ready", "barrier", "create"} => read[p][at[p]] # None
    /\ pc[p] \in {"acquire", "rank", "uid"} => read[p][at[p]] = None
    /\ \A k \in Prefixes : k > at[p] \/ pc[p] = "acquire" => read[p][k] = None

(* One rank 0 creates the id of a prefix, once; what is read is that id.    *)
UidOK ==
  \A k \in Prefixes :
    /\ uid[k] # None => rank[uid[k]][k] = 0 /\ read[uid[k]][k] # None
    /\ \A p \in Procs : read[p][k] # None => read[p][k] = uid[k]

WritersOK ==
  \A k \in Prefixes, r \in Ranks : writers[k][r] > 0 =>
    \E q \in Procs : /\ rank[q][k] = r /\ read[q][k] # None
                     /\ ~ (at[q] = k /\ pc[q] = "announce")

JoinedOK ==
  /\ \A k \in Prefixes, r \in Ranks : r \in joined[k] =>
       \E q \in Procs : rank[q][k] = r /\ read[q][k] # None
  /\ \A p \in Procs : \A k \in comms[p] : joined[k] = Ranks /\ read[p][k] # None

BootInv ==
  /\ TypeOK /\ CountersOK /\ RanksOK /\ IdsOK /\ PathOK
  /\ UidOK /\ WritersOK /\ JoinedOK

-----------------------------------------------------------------------------
(* Counters                                                                  *)

(* Who is refused at or above the limit makes the counter cover one more.   *)
LEMMA Refuse ==
  ASSUME NEW c \in Nat, NEW l \in Nat, NEW S, NEW x, x \notin S, Covers(c, l, S), c >= l
  PROVE  Covers(c + 1, l, S \cup {x})
<1>1. IsFiniteSet(S \cup {x}) /\ Cardinality(S \cup {x}) = Cardinality(S) + 1
  BY FS_AddElement DEF Covers
<1>2. Cardinality(S) \in Nat /\ (S = {} => Cardinality(S) = 0)
  BY FS_CardinalityType, FS_EmptySet DEF Covers
<1> QED
  BY <1>1, <1>2 DEF Covers

(* Below the limit nobody is refused, and nothing is given back.            *)
LEMMA Take ==
  ASSUME NEW c \in Nat, NEW l \in Nat, NEW S, Covers(c, l, S), c < l
  PROVE  Covers(c + 1, l, S)
<1>1. Cardinality(S) \in Nat
  BY FS_CardinalityType DEF Covers
<1> QED
  BY <1>1 DEF Covers

(* What is given back keeps the counter at the limit.                       *)
LEMMA GiveBack ==
  ASSUME NEW c \in Nat, NEW l \in Nat, NEW S, NEW x \in S, Covers(c, l, S)
  PROVE  c - 1 \in Nat /\ c - 1 >= l /\ Covers(c - 1, l, S \ {x})
<1>1. IsFiniteSet(S \ {x}) /\ Cardinality(S \ {x}) = Cardinality(S) - 1
  BY FS_RemoveElement DEF Covers
<1>2. Cardinality(S) \in Nat /\ Cardinality(S \ {x}) \in Nat
  BY <1>1, FS_CardinalityType DEF Covers
<1> QED
  BY <1>1, <1>2 DEF Covers

Refused == {"giveBackId", "giveBackRank"}

(* Steps that neither refuse nor give back.                                 *)
LEMMA CountersRest ==
  ASSUME TypeOK, CountersOK, NEW p \in Procs,
         pc[p] \notin Refused, pc'[p] \notin Refused,
         \A q \in Procs : q # p => pc'[q] = pc[q] /\ at'[q] = at[q],
         UNCHANGED <<replicas, policyCtr, rolloutCtr>>
  PROVE  CountersOK'
<1>1. RefusedIds' = RefusedIds
  BY DEF RefusedIds, Refused, Procs
<1>2. \A k \in Prefixes : RefusedPolicies(k)' = RefusedPolicies(k) /\ RefusedRollouts(k)' = RefusedRollouts(k)
  BY DEF RefusedPolicies, RefusedRollouts, Refused, Procs
<1> QED
  BY <1>1, <1>2 DEF CountersOK

-----------------------------------------------------------------------------
(* One lemma per action.                                                     *)

LEMMA InitOK == Init => BootInv
<1> SUFFICES ASSUME Init PROVE BootInv
  OBVIOUS
<1>0. NumRollouts \in Nat \ {0} /\ NumPolicies \in Nat \ {0} /\ 0 \in Prefixes
  BY CommInitAssumption DEF CommInitAssumption, Prefixes
<1>1. TypeOK
  BY <1>0 DEF TypeOK, Init, Pcs
<1>2. CountersOK
  <2>1. RefusedIds = {} /\ \A k \in Prefixes : RefusedPolicies(k) = {} /\ RefusedRollouts(k) = {}
    BY DEF Init, RefusedIds, RefusedPolicies, RefusedRollouts, Procs
  <2> QED
    BY <2>1, FS_EmptySet DEF CountersOK, Covers
<1>3. RanksOK /\ IdsOK /\ PathOK
  <2>1. RanksOK
    BY DEF Init, RanksOK, Procs
  <2>2. IdsOK
    BY DEF Init, IdsOK, HasId
  <2>3. PathOK
    BY <1>0 DEF Init, PathOK
  <2> QED
    BY <2>1, <2>2, <2>3
<1>4. UidOK /\ WritersOK /\ JoinedOK
  BY DEF Init, UidOK, WritersOK, JoinedOK
<1> QED
  BY <1>1, <1>2, <1>3, <1>4 DEF BootInv

(* What every step reads.                                                    *)
LEMMA Facts ==
  ASSUME TypeOK
  PROVE  /\ NumRollouts \in Nat \ {0} /\ NumPolicies \in Nat \ {0}
         /\ Policies \cap Rollouts = {} /\ Procs = Policies \cup Rollouts
         /\ None \notin Nat /\ None \notin Procs
         /\ Prefixes = 0 .. NumRollouts - 1 /\ Ranks = 0 .. NumPolicies
         /\ WorldSize = NumPolicies + 1 /\ SenderRank = NumPolicies
         /\ pc \in [Procs -> Pcs] /\ at \in [Procs -> Prefixes] /\ replicas \in Nat
         /\ policyCtr \in [Prefixes -> Nat] /\ rolloutCtr \in [Prefixes -> Nat]
         /\ rank \in [Procs -> [Prefixes -> Ranks \cup {None}]]
         /\ read \in [Procs -> [Prefixes -> Policies \cup {None}]]
         /\ writers \in [Prefixes -> [Ranks -> Nat]]
BY CommInitAssumption
   DEF CommInitAssumption, TypeOK, Procs, Prefixes, Ranks, WorldSize, SenderRank

LEMMA AcquireIdOK == ASSUME BootInv, NEW p \in Procs, AcquireId(p) PROVE BootInv'
<1> USE DEF Goto
<1>0. TypeOK
  BY DEF BootInv
<1>a. p \in Rollouts /\ pc[p] = "acquire"
  BY DEF BootInv, IdsOK, AcquireId
<1>1. TypeOK'
  <2>1. CASE IdInRange(replicas)
    <3>1. replicas \in Prefixes /\ replicas + 1 \in Nat
      BY <1>0, <2>1, Facts DEF IdInRange
    <3> QED
      BY <1>0, <2>1, <3>1 DEF TypeOK, AcquireId, Pcs
  <2>2. CASE ~ IdInRange(replicas)
    <3>1. replicas + 1 \in Nat
      BY <1>0, Facts
    <3> QED
      BY <1>0, <2>2, <3>1 DEF TypeOK, AcquireId, Pcs
  <2> QED
    BY <2>1, <2>2
<1>2. CountersOK'
  <2>1. \A k \in Prefixes : RefusedPolicies(k)' = RefusedPolicies(k) /\ RefusedRollouts(k)' = RefusedRollouts(k)
    BY <1>0, Facts DEF RefusedPolicies, RefusedRollouts, AcquireId
  <2>2. CASE IdInRange(replicas)
    <3>1. RefusedIds' = RefusedIds
      BY <1>0, <2>2, Facts DEF RefusedIds, AcquireId
    <3>2. Covers(replicas + 1, NumRollouts, RefusedIds)
      BY <1>0, <2>2, Facts, Take DEF BootInv, CountersOK, IdInRange
    <3> QED
      BY <2>1, <3>1, <3>2 DEF BootInv, CountersOK, AcquireId
  <2>3. CASE ~ IdInRange(replicas)
    <3>1. RefusedIds' = RefusedIds \cup {p} /\ p \notin RefusedIds
      BY <1>0, <1>a, <2>3, Facts DEF RefusedIds, AcquireId
    <3>2. Covers(replicas + 1, NumRollouts, RefusedIds \cup {p})
      BY <1>0, <2>3, <3>1, Facts, Refuse DEF BootInv, CountersOK, IdInRange
    <3> QED
      BY <2>1, <3>1, <3>2 DEF BootInv, CountersOK, AcquireId
  <2> QED
    BY <2>2, <2>3
<1>3. RanksOK' /\ UidOK' /\ JoinedOK'
  BY DEF BootInv, RanksOK, UidOK, JoinedOK, AcquireId
<1>b. /\ \A q \in Procs : q # p => pc'[q] = pc[q] /\ at'[q] = at[q]
      /\ \/ pc'[p] = "rank" /\ at'[p] = replicas /\ replicas < NumRollouts
         \/ pc'[p] = "giveBackId" /\ at'[p] = at[p]
      /\ replicas' = replicas + 1 /\ rank' = rank /\ read' = read /\ writers' = writers
  BY <1>0, Facts DEF AcquireId, IdInRange
<1>c. \A k \in Prefixes : read[p][k] = None
  BY <1>a DEF BootInv, PathOK
<1>4. IdsOK'
  <2>1. \A q \in Procs : q # p /\ HasId(q)' => HasId(q) /\ at[q] < replicas /\ at[q] \in Nat
    BY <1>0, <1>b, Facts DEF BootInv, IdsOK, HasId
  <2>2. HasId(p)' => at'[p] = replicas
    BY <1>b DEF HasId
  <2>3. \A q, o \in Procs : HasId(q) /\ HasId(o) /\ q # o => at[q] # at[o]
    BY DEF BootInv, IdsOK
  <2>4. \A q \in Procs : pc'[q] \in {"acquire", "giveBackId"} => q \in Rollouts
    BY <1>a, <1>b DEF BootInv, IdsOK
  <2>n. replicas \in Nat
    BY <1>0, Facts
  <2>5. ASSUME NEW q \in Procs, HasId(q)' PROVE at'[q] < replicas'
    <3>1. CASE q = p
      BY <1>b, <2>2, <2>5, <2>n, <3>1
    <3>2. CASE q # p
      <4>1. at'[q] = at[q] /\ at[q] < replicas /\ at[q] \in Nat
        BY <1>b, <2>1, <2>5, <3>2
      <4> QED
        BY <1>b, <2>n, <4>1
    <3> QED
      BY <3>1, <3>2
  <2>6. ASSUME NEW q \in Procs, NEW o \in Procs, HasId(q)', HasId(o)', q # o PROVE at'[q] # at'[o]
    <3>1. CASE q # p /\ o # p
      BY <1>b, <2>1, <2>3, <2>6, <3>1
    <3>2. CASE q = p \/ o = p
      BY <1>b, <2>1, <2>2, <2>6, <2>n, <3>2
    <3> QED
      BY <3>1, <3>2
  <2> QED
    BY <2>4, <2>5, <2>6 DEF IdsOK
<1>5. PathOK'
  <2> SUFFICES ASSUME NEW q \in Procs PROVE PathOK!(q)'
    BY DEF PathOK
  <2>1. CASE q = p
    BY <1>0, <1>b, <1>c, <2>1, Facts
  <2>2. CASE q # p
    BY <1>b, <2>2 DEF BootInv, PathOK
  <2> QED
    BY <2>1, <2>2
<1>6. WritersOK'
  BY <1>a, <1>b, <1>c DEF BootInv, WritersOK
<1> QED
  BY <1>1, <1>2, <1>3, <1>4, <1>5, <1>6 DEF BootInv

(* Steps that neither acquire nor lose a replica id.                        *)
LEMMA IdsRest ==
  ASSUME TypeOK, IdsOK, NEW p \in Procs, replicas' = replicas,
         \A q \in Procs : q # p => pc'[q] = pc[q],
         \A q \in Rollouts : at'[q] = at[q],
         pc[p] \notin {"acquire", "giveBackId", "failed"},
         pc'[p] \notin {"acquire", "giveBackId"}
  PROVE  IdsOK'
BY Facts DEF IdsOK, HasId

(* Steps after which nobody is newly about to announce.                     *)
LEMMA WritersRest ==
  ASSUME WritersOK, UNCHANGED <<rank, read, writers>>,
         \A q \in Procs : pc'[q] = "announce" => pc[q] = "announce" /\ at'[q] = at[q]
  PROVE  WritersOK'
BY DEF WritersOK

LEMMA GiveBackIdOK == ASSUME BootInv, NEW p \in Procs, GiveBackId(p) PROVE BootInv'
<1> USE DEF Goto, Fail
<1>0. TypeOK
  BY DEF BootInv
<1>a. p \in Rollouts /\ pc[p] = "giveBackId" /\ p \in RefusedIds
  BY DEF BootInv, IdsOK, GiveBackId, RefusedIds
<1>b. /\ \A q \in Procs : q # p => pc'[q] = pc[q]
      /\ pc'[p] = "failed" /\ at' = at /\ replicas' = replicas - 1
      /\ UNCHANGED <<rank, policyCtr, rolloutCtr, uid, writers, read, joined>>
      /\ comms' = [comms EXCEPT ![p] = {}]
  BY <1>0, Facts DEF GiveBackId
<1>c. /\ replicas - 1 \in Nat /\ replicas - 1 >= NumRollouts
      /\ Covers(replicas - 1, NumRollouts, RefusedIds \ {p})
  BY <1>0, <1>a, Facts, GiveBack DEF BootInv, CountersOK
<1>1. TypeOK'
  BY <1>0, <1>c DEF TypeOK, GiveBackId, Pcs
<1>2. CountersOK'
  <2>1. \A k \in Prefixes : RefusedPolicies(k)' = RefusedPolicies(k) /\ RefusedRollouts(k)' = RefusedRollouts(k)
    BY <1>0, <1>a, <1>b, Facts DEF RefusedPolicies, RefusedRollouts
  <2>2. RefusedIds' = RefusedIds \ {p}
    BY <1>0, <1>a, <1>b, Facts DEF RefusedIds
  <2> QED
    BY <1>b, <1>c, <2>1, <2>2 DEF BootInv, CountersOK
<1>3. RanksOK' /\ UidOK'
  BY <1>b DEF BootInv, RanksOK, UidOK
<1>4. IdsOK'
  <2>1. \A q \in Procs : at[q] < replicas - 1
    BY <1>0, <1>c, Facts
  <2>2. \A q \in Procs : HasId(q)' => HasId(q)
    BY <1>b DEF HasId
  <2> QED
    BY <1>a, <1>b, <2>1, <2>2 DEF BootInv, IdsOK
<1>5. PathOK'
  BY <1>a, <1>b DEF BootInv, PathOK
<1>6. WritersOK'
  BY <1>a, <1>b, WritersRest DEF BootInv
<1>7. JoinedOK'
  BY <1>0, <1>b DEF BootInv, TypeOK, JoinedOK
<1> QED
  BY <1>1, <1>2, <1>3, <1>4, <1>5, <1>6, <1>7 DEF BootInv

LEMMA AssignPolicyRankOK == ASSUME BootInv, NEW p \in Procs, AssignPolicyRank(p) PROVE BootInv'
<1> USE DEF Goto
<1> DEFINE k == at[p]  r == policyCtr[k]
<1>0. TypeOK /\ p \in Policies /\ p \notin Rollouts /\ pc[p] = "rank" /\ k \in Prefixes /\ r \in Nat
  BY Facts DEF BootInv, AssignPolicyRank
<1>b. /\ \A q \in Procs : q # p => pc'[q] = pc[q]
      /\ at' = at /\ policyCtr' = [policyCtr EXCEPT ![k] = r + 1]
      /\ \/ r < NumPolicies /\ pc'[p] = "uid" /\ rank' = [rank EXCEPT ![p][k] = r]
         \/ ~ (r < NumPolicies) /\ pc'[p] = "giveBackRank" /\ rank' = rank
      /\ UNCHANGED <<replicas, rolloutCtr, uid, writers, read, joined, comms>>
  BY <1>0, Facts DEF AssignPolicyRank, PolicyRankFits
<1>c. \A j \in Prefixes : j >= k => read[p][j] = None
  BY <1>0, Facts DEF BootInv, PathOK
<1>d. /\ \A q \in Procs, j \in Prefixes : (q # p \/ j # k) => rank'[q][j] = rank[q][j]
      /\ \A j \in Prefixes : j # k => policyCtr'[j] = policyCtr[j]
      /\ policyCtr'[k] = r + 1
      /\ rank' = rank \/ (r < NumPolicies /\ rank'[p][k] = r)
  BY <1>0, <1>b, Facts
<1>e. r # None /\ NumPolicies \in Nat /\ Policies \subseteq Procs
  BY <1>0, Facts
<1>1. TypeOK'
  <2>1. r + 1 \in Nat /\ (r < NumPolicies => r \in Ranks)
    BY <1>0, Facts
  <2>2. rank' \in [Procs -> [Prefixes -> Ranks \cup {None}]]
    <3>1. CASE rank' = rank
      BY <1>0, <3>1 DEF TypeOK
    <3>2. CASE r < NumPolicies /\ rank' = [rank EXCEPT ![p][k] = r]
      <4>1. [rank[p] EXCEPT ![k] = r] \in [Prefixes -> Ranks \cup {None}]
        BY <1>0, <2>1, <3>2, Facts
      <4> QED
        BY <1>0, <3>2, <4>1, Facts
    <3> QED
      BY <1>b, <3>1, <3>2
  <2>3. policyCtr' \in [Prefixes -> Nat] /\ pc' \in [Procs -> Pcs]
    BY <1>0, <2>1 DEF TypeOK, AssignPolicyRank, Pcs
  <2> QED
    BY <1>0, <2>2, <2>3 DEF TypeOK, AssignPolicyRank
<1>2. CountersOK'
  <2>1. RefusedIds' = RefusedIds /\ \A j \in Prefixes : RefusedRollouts(j)' = RefusedRollouts(j)
    BY <1>0, <1>b, Facts DEF RefusedIds, RefusedRollouts
  <2>2. \A j \in Prefixes : j # k => RefusedPolicies(j)' = RefusedPolicies(j)
    BY <1>0, <1>b, Facts DEF RefusedPolicies
  <2>3. Covers(r + 1, NumPolicies, RefusedPolicies(k)')
    <3>1. Covers(r, NumPolicies, RefusedPolicies(k))
      BY <1>0 DEF BootInv, CountersOK
    <3>2. CASE r < NumPolicies
      <4>1. RefusedPolicies(k)' = RefusedPolicies(k)
        BY <1>0, <1>b, <3>2, Facts DEF RefusedPolicies
      <4> QED
        BY <1>0, <3>1, <3>2, <4>1, Facts, Take
    <3>3. CASE ~ (r < NumPolicies)
      <4>1. RefusedPolicies(k)' = RefusedPolicies(k) \cup {p} /\ p \notin RefusedPolicies(k)
        BY <1>0, <1>b, <3>3, Facts DEF RefusedPolicies
      <4>2. r >= NumPolicies
        BY <1>0, <3>3, Facts
      <4> QED
        BY <1>0, <3>1, <4>1, <4>2, Facts, Refuse
    <3> QED
      BY <3>2, <3>3
  <2> QED
    BY <1>b, <1>d, <2>1, <2>2, <2>3 DEF BootInv, CountersOK
<1>3. RanksOK'
  <2> SUFFICES ASSUME NEW j \in Prefixes PROVE RanksOK!(j)'
    BY DEF RanksOK
  <2>1. \A q \in Rollouts : rank'[q][j] = rank[q][j]
    BY <1>0, <1>d, Facts
  <2>2. CASE j # k
    BY <1>b, <1>d, <1>e, <2>1, <2>2 DEF BootInv, RanksOK
  <2>3. CASE j = k
    <3>1. \A q \in Policies : rank[q][k] # None =>
             rank[q][k] < NumPolicies /\ rank[q][k] < r /\ rank[q][k] \in Nat
      BY <1>0, Facts DEF BootInv, RanksOK
    <3>2. \A q \in Policies : rank'[q][k] # None =>
             rank'[q][k] < NumPolicies /\ rank'[q][k] < r + 1
      BY <1>0, <1>d, <1>e, <3>1
    <3>3. \A q, o \in Policies : q # o /\ rank'[q][k] # None => rank'[q][k] # rank'[o][k]
      <4>1. \A q, o \in Policies : q # o /\ rank[q][k] # None => rank[q][k] # rank[o][k]
        BY <1>0 DEF BootInv, RanksOK
      <4> QED
        BY <1>0, <1>d, <1>e, <3>1, <4>1
    <3> QED
      BY <1>b, <1>d, <2>1, <2>3, <3>2, <3>3 DEF BootInv, RanksOK
  <2> QED
    BY <2>2, <2>3
<1>4. IdsOK'
  BY <1>0, <1>b, IdsRest DEF BootInv
<1>5. PathOK'
  <2> SUFFICES ASSUME NEW q \in Procs PROVE PathOK!(q)'
    BY DEF PathOK
  <2>1. CASE q = p
    BY <1>0, <1>b, <1>c, <2>1, Facts
  <2>2. CASE q # p
    <3>1. at[q] \in Prefixes
      BY <1>0, Facts
    <3> QED
      BY <1>b, <1>d, <2>2, <3>1 DEF BootInv, PathOK
  <2> QED
    BY <2>1, <2>2
<1>6. UidOK'
  <2>1. \A j \in Prefixes : uid[j] # None => uid[j] \in Procs /\ (uid[j] # p \/ j # k)
    BY <1>0, <1>c, Facts DEF BootInv, UidOK, TypeOK
  <2> QED
    BY <1>b, <1>d, <2>1 DEF BootInv, UidOK
<1>f. \A q \in Procs, j \in Prefixes : read[q][j] # None => rank'[q][j] = rank[q][j]
  <2>1. read[p][k] = None
    BY <1>0 DEF BootInv, PathOK
  <2> QED
    BY <1>d, <2>1
<1>7. WritersOK'
  BY <1>0, <1>b, <1>f DEF BootInv, WritersOK
<1>8. JoinedOK'
  BY <1>b, <1>f DEF BootInv, JoinedOK
<1> QED
  BY <1>1, <1>2, <1>3, <1>4, <1>5, <1>6, <1>7, <1>8 DEF BootInv

LEMMA AssignRolloutRankOK == ASSUME BootInv, NEW p \in Procs, AssignRolloutRank(p) PROVE BootInv'
<1> USE DEF Goto
<1> DEFINE k == at[p]  n == rolloutCtr[k]
<1>0. TypeOK /\ p \in Rollouts /\ p \notin Policies /\ pc[p] = "rank" /\ k \in Prefixes /\ n \in Nat
  BY Facts DEF BootInv, AssignRolloutRank
<1>e. /\ NumPolicies # None /\ NumPolicies \in Nat \ {0} /\ NumPolicies \in Ranks
      /\ Rollouts \subseteq Procs /\ Policies \subseteq Procs
  BY <1>0, Facts
<1>b. /\ \A q \in Procs : q # p => pc'[q] = pc[q]
      /\ at' = at /\ rolloutCtr' = [rolloutCtr EXCEPT ![k] = n + 1]
      /\ \/ n = 0 /\ pc'[p] = "uid" /\ rank' = [rank EXCEPT ![p][k] = NumPolicies]
         \/ n >= 1 /\ pc'[p] = "giveBackRank" /\ rank' = rank
      /\ UNCHANGED <<replicas, policyCtr, uid, writers, read, joined, comms>>
  <2>1. NumPolicies + n < WorldSize <=> n = 0
    BY <1>0, <1>e, Facts
  <2>2. n = 0 => NumPolicies + n = NumPolicies
    BY <1>e
  <2> QED
    BY <1>0, <2>1, <2>2, Facts DEF AssignRolloutRank
<1>c. read[p][k] = None /\ \A j \in Prefixes : j > k => read[p][j] = None
  BY <1>0 DEF BootInv, PathOK
<1>d. /\ \A q \in Procs, j \in Prefixes : (q # p \/ j # k) => rank'[q][j] = rank[q][j]
      /\ \A j \in Prefixes : j # k => rolloutCtr'[j] = rolloutCtr[j]
      /\ rolloutCtr'[k] = n + 1
      /\ rank' = rank \/ (n = 0 /\ rank'[p][k] = NumPolicies)
  BY <1>0, <1>b, Facts
<1>f. \A q \in Procs, j \in Prefixes : read[q][j] # None => rank'[q][j] = rank[q][j]
  BY <1>c, <1>d
<1>1. TypeOK'
  <2>1. rank' \in [Procs -> [Prefixes -> Ranks \cup {None}]]
    <3>1. CASE rank' = rank
      BY <1>0, <3>1 DEF TypeOK
    <3>2. CASE rank' = [rank EXCEPT ![p][k] = NumPolicies]
      <4>1. [rank[p] EXCEPT ![k] = NumPolicies] \in [Prefixes -> Ranks \cup {None}]
        BY <1>0, <1>e, Facts
      <4> QED
        BY <1>0, <3>2, <4>1, Facts
    <3> QED
      BY <1>b, <3>1, <3>2
  <2>2. rolloutCtr' \in [Prefixes -> Nat] /\ pc' \in [Procs -> Pcs]
    BY <1>0, <1>b DEF TypeOK, AssignRolloutRank, Pcs
  <2> QED
    BY <1>0, <2>1, <2>2 DEF TypeOK, AssignRolloutRank
<1>2. CountersOK'
  <2>1. RefusedIds' = RefusedIds /\ \A j \in Prefixes : RefusedPolicies(j)' = RefusedPolicies(j)
    BY <1>0, <1>b, Facts DEF RefusedIds, RefusedPolicies
  <2>2. \A j \in Prefixes : j # k => RefusedRollouts(j)' = RefusedRollouts(j)
    BY <1>0, <1>b, Facts DEF RefusedRollouts
  <2>3. Covers(n + 1, 1, RefusedRollouts(k)')
    <3>1. Covers(n, 1, RefusedRollouts(k))
      BY <1>0 DEF BootInv, CountersOK
    <3>2. CASE n = 0
      <4>1. RefusedRollouts(k)' = RefusedRollouts(k)
        BY <1>0, <1>b, <3>2, Facts DEF RefusedRollouts
      <4> QED
        BY <1>0, <3>1, <3>2, <4>1, Take
    <3>3. CASE n >= 1
      <4>1. RefusedRollouts(k)' = RefusedRollouts(k) \cup {p} /\ p \notin RefusedRollouts(k)
        BY <1>0, <1>b, <3>3, Facts DEF RefusedRollouts
      <4> QED
        BY <1>0, <3>1, <3>3, <4>1, Refuse
    <3> QED
      BY <1>b, <3>2, <3>3
  <2> QED
    BY <1>b, <1>d, <2>1, <2>2, <2>3 DEF BootInv, CountersOK
<1>3. RanksOK'
  <2> SUFFICES ASSUME NEW j \in Prefixes PROVE RanksOK!(j)'
    BY DEF RanksOK
  <2>1. \A q \in Policies : rank'[q][j] = rank[q][j]
    BY <1>0, <1>d, <1>e
  <2>2. CASE j # k
    BY <1>b, <1>d, <1>e, <2>1, <2>2 DEF BootInv, RanksOK
  <2>3. CASE j = k
    <3>1. \A q \in Rollouts : rank[q][k] # None => rank[q][k] = NumPolicies /\ n > 0
      BY <1>0 DEF BootInv, RanksOK
    <3>2. \A q \in Rollouts : rank'[q][k] # None => rank'[q][k] = NumPolicies /\ n + 1 > 0
      BY <1>0, <1>d, <1>e, <3>1
    <3>3. \A q, o \in Rollouts : q # o /\ rank'[q][k] # None => rank'[o][k] = None
      <4>1. \A q, o \in Rollouts : q # o /\ rank[q][k] # None => rank[o][k] = None
        BY <1>0 DEF BootInv, RanksOK
      <4> QED
        BY <1>0, <1>d, <1>e, <3>1, <4>1
    <3> QED
      BY <1>b, <1>d, <2>1, <2>3, <3>2, <3>3 DEF BootInv, RanksOK
  <2> QED
    BY <2>2, <2>3
<1>4. IdsOK'
  BY <1>0, <1>b, IdsRest DEF BootInv
<1>5. PathOK'
  <2> SUFFICES ASSUME NEW q \in Procs PROVE PathOK!(q)'
    BY DEF PathOK
  <2>1. CASE q = p
    BY <1>0, <1>b, <1>c, <1>d, <1>e, <2>1, Facts
  <2>2. CASE q # p
    <3>1. at[q] \in Prefixes
      BY <1>0, Facts
    <3> QED
      BY <1>b, <1>d, <2>2, <3>1 DEF BootInv, PathOK
  <2> QED
    BY <2>1, <2>2
<1>6. UidOK'
  <2>1. \A j \in Prefixes : uid[j] # None => uid[j] \in Procs
    BY <1>0, <1>e DEF TypeOK
  <2> QED
    BY <1>b, <1>f, <2>1 DEF BootInv, UidOK
<1>7. WritersOK'
  BY <1>0, <1>b, <1>f DEF BootInv, WritersOK
<1>8. JoinedOK'
  BY <1>b, <1>f DEF BootInv, JoinedOK
<1> QED
  BY <1>1, <1>2, <1>3, <1>4, <1>5, <1>6, <1>7, <1>8 DEF BootInv

LEMMA GiveBackRankOK == ASSUME BootInv, NEW p \in Procs, GiveBackRank(p) PROVE BootInv'
<1> USE DEF Goto, Fail
<1> DEFINE k == at[p]
<1>0. TypeOK /\ pc[p] = "giveBackRank" /\ k \in Prefixes
  BY Facts DEF BootInv, GiveBackRank
<1>b. /\ \A q \in Procs : q # p => pc'[q] = pc[q]
      /\ pc'[p] = "failed" /\ at' = at
      /\ UNCHANGED <<rank, replicas, uid, writers, read, joined>>
      /\ comms' = [comms EXCEPT ![p] = {}]
  BY <1>0, Facts DEF GiveBackRank
<1>c. RefusedIds' = RefusedIds
  BY <1>0, <1>b DEF RefusedIds, GiveBackRank
<1>d. IdsOK'
  BY <1>0, <1>b, IdsRest DEF BootInv
<1>e. PathOK' /\ UidOK'
  BY <1>b DEF BootInv, PathOK, UidOK
<1>f. WritersOK' /\ JoinedOK'
  <2>1. WritersOK'
    BY <1>b, WritersRest DEF BootInv
  <2>2. JoinedOK'
    BY <1>0, <1>b DEF BootInv, TypeOK, JoinedOK
  <2> QED
    BY <2>1, <2>2
<1>1. CASE p \in Policies
  <2>0. /\ policyCtr' = [policyCtr EXCEPT ![k] = @ - 1] /\ rolloutCtr' = rolloutCtr
        /\ p \in RefusedPolicies(k) /\ policyCtr[k] \in Nat /\ p \notin Rollouts
        /\ Policies \subseteq Procs /\ Rollouts \subseteq Procs /\ NumPolicies \in Nat
    BY <1>0, <1>1, Facts DEF GiveBackRank, RefusedPolicies
  <2>1. /\ policyCtr[k] - 1 \in Nat /\ policyCtr[k] - 1 >= NumPolicies
        /\ Covers(policyCtr[k] - 1, NumPolicies, RefusedPolicies(k) \ {p})
    BY <1>0, <2>0, GiveBack DEF BootInv, CountersOK
  <2>2. /\ \A j \in Prefixes : j # k => policyCtr'[j] = policyCtr[j]
        /\ policyCtr'[k] = policyCtr[k] - 1
    BY <1>0, <2>0, Facts
  <2>3. TypeOK'
    BY <1>0, <2>0, <2>1 DEF TypeOK, GiveBackRank, Pcs
  <2>4. CountersOK'
    <3>1. \A j \in Prefixes : RefusedRollouts(j)' = RefusedRollouts(j)
      BY <1>b, <2>0 DEF RefusedRollouts
    <3>2. \A j \in Prefixes : j # k => RefusedPolicies(j)' = RefusedPolicies(j)
      BY <1>b, <2>0 DEF RefusedPolicies
    <3>3. RefusedPolicies(k)' = RefusedPolicies(k) \ {p}
      BY <1>0, <1>b, <2>0 DEF RefusedPolicies
    <3> QED
      BY <1>b, <1>c, <2>0, <2>1, <2>2, <3>1, <3>2, <3>3 DEF BootInv, CountersOK
  <2>5. RanksOK'
    <3>1. \A q \in Policies : rank[q][k] # None => rank[q][k] < policyCtr[k] - 1
      <4>1. \A q \in Policies : rank[q][k] # None => rank[q][k] < NumPolicies /\ rank[q][k] \in Nat
        BY <1>0, <2>0, Facts DEF BootInv, RanksOK
      <4> QED
        BY <2>0, <2>1, <4>1
    <3> QED
      BY <1>0, <1>b, <2>0, <2>2, <3>1 DEF BootInv, RanksOK
  <2> QED
    BY <1>d, <1>e, <1>f, <2>3, <2>4, <2>5 DEF BootInv
<1>2. CASE p \notin Policies
  <2>0. /\ rolloutCtr' = [rolloutCtr EXCEPT ![k] = @ - 1] /\ policyCtr' = policyCtr
        /\ p \in RefusedRollouts(k) /\ rolloutCtr[k] \in Nat /\ p \in Rollouts
        /\ Policies \subseteq Procs /\ Rollouts \subseteq Procs
    BY <1>0, <1>2, Facts DEF GiveBackRank, RefusedRollouts
  <2>1. /\ rolloutCtr[k] - 1 \in Nat /\ rolloutCtr[k] - 1 >= 1
        /\ Covers(rolloutCtr[k] - 1, 1, RefusedRollouts(k) \ {p})
    BY <1>0, <2>0, GiveBack DEF BootInv, CountersOK
  <2>2. /\ \A j \in Prefixes : j # k => rolloutCtr'[j] = rolloutCtr[j]
        /\ rolloutCtr'[k] = rolloutCtr[k] - 1
    BY <1>0, <2>0, Facts
  <2>3. TypeOK'
    BY <1>0, <2>0, <2>1 DEF TypeOK, GiveBackRank, Pcs
  <2>4. CountersOK'
    <3>1. \A j \in Prefixes : RefusedPolicies(j)' = RefusedPolicies(j)
      BY <1>b, <1>2, <2>0 DEF RefusedPolicies
    <3>2. \A j \in Prefixes : j # k => RefusedRollouts(j)' = RefusedRollouts(j)
      BY <1>b, <2>0 DEF RefusedRollouts
    <3>3. RefusedRollouts(k)' = RefusedRollouts(k) \ {p}
      BY <1>0, <1>b, <2>0 DEF RefusedRollouts
    <3> QED
      BY <1>b, <1>c, <2>0, <2>1, <2>2, <3>1, <3>2, <3>3 DEF BootInv, CountersOK
  <2>5. RanksOK'
    BY <1>0, <1>b, <2>0, <2>1, <2>2 DEF BootInv, RanksOK
  <2> QED
    BY <1>d, <1>e, <1>f, <2>3, <2>4, <2>5 DEF BootInv
<1> QED
  BY <1>1, <1>2

(* Steps that touch no counter, rank or replica id.                         *)
LEMMA RestOK ==
  ASSUME BootInv, NEW p \in Procs, pc[p] \notin Refused, pc'[p] \notin Refused,
         pc[p] \notin {"acquire", "failed"}, pc'[p] # "acquire",
         \A q \in Procs : q # p => pc'[q] = pc[q] /\ at'[q] = at[q],
         \A q \in Rollouts : at'[q] = at[q],
         UNCHANGED <<replicas, policyCtr, rolloutCtr, rank>>
  PROVE  CountersOK' /\ RanksOK' /\ IdsOK'
<1>1. CountersOK'
  BY CountersRest DEF BootInv
<1>2. RanksOK'
  BY DEF BootInv, RanksOK
<1>3. IdsOK'
  BY IdsRest DEF BootInv, Refused
<1> QED
  BY <1>1, <1>2, <1>3

LEMMA CreateUidOK == ASSUME BootInv, NEW p \in Procs, CreateUid(p) PROVE BootInv'
<1> USE DEF Goto
<1> DEFINE k == at[p]
<1>0. TypeOK /\ pc[p] = "uid" /\ k \in Prefixes /\ rank[p][k] = 0
  BY Facts DEF BootInv, CreateUid, RankOf
<1>e. Policies \subseteq Procs /\ NumPolicies \in Nat \ {0} /\ None # 0 /\ None \notin Procs
  BY <1>0, Facts
<1>b. /\ \A q \in Procs : q # p => pc'[q] = pc[q]
      /\ pc'[p] = "announce" /\ at' = at
      /\ uid' = [uid EXCEPT ![k] = p] /\ read' = [read EXCEPT ![p][k] = p]
      /\ UNCHANGED <<rank, replicas, policyCtr, rolloutCtr, writers, joined, comms>>
  BY <1>0, Facts DEF CreateUid
<1>p. p \in Policies
  BY <1>0, <1>e DEF BootInv, RanksOK, Procs
<1>c. /\ read[p][k] = None
      /\ \A j \in Prefixes : j > k => read[p][j] = None
  BY <1>0 DEF BootInv, PathOK
<1>f. uid[k] = None
  <2> SUFFICES ASSUME uid[k] # None PROVE FALSE
    OBVIOUS
  <2>1. uid[k] \in Policies /\ rank[uid[k]][k] = 0 /\ read[uid[k]][k] # None
    BY <1>0 DEF BootInv, TypeOK, UidOK
  <2>2. uid[k] = p
    BY <1>0, <1>e, <1>p, <2>1 DEF BootInv, RanksOK
  <2> QED
    BY <1>c, <2>1, <2>2
<1>d. /\ \A q \in Procs, j \in Prefixes : (q # p \/ j # k) => read'[q][j] = read[q][j]
      /\ \A j \in Prefixes : j # k => uid'[j] = uid[j]
      /\ read'[p][k] = p /\ uid'[k] = p
  BY <1>0, <1>b, Facts DEF TypeOK
<1>g. \A q \in Procs, j \in Prefixes : read[q][j] # None => read'[q][j] = read[q][j]
  BY <1>c, <1>d
<1>1. TypeOK'
  <2>1. [read[p] EXCEPT ![k] = p] \in [Prefixes -> Policies \cup {None}]
    BY <1>0, <1>p, Facts
  <2>2. read' \in [Procs -> [Prefixes -> Policies \cup {None}]]
    BY <1>0, <1>b, <2>1, Facts
  <2>3. uid' \in [Prefixes -> Policies \cup {None}] /\ pc' \in [Procs -> Pcs]
    BY <1>0, <1>p, <1>b DEF TypeOK, CreateUid, Pcs
  <2> QED
    BY <1>0, <2>2, <2>3 DEF TypeOK, CreateUid
<1>2. CountersOK' /\ RanksOK' /\ IdsOK'
  BY <1>0, <1>b, RestOK DEF Refused
<1>5. PathOK'
  <2> SUFFICES ASSUME NEW q \in Procs PROVE PathOK!(q)'
    BY DEF PathOK
  <2>1. CASE q = p
    <3>1. \A j \in Prefixes : j > k => j # k
      BY <1>0, Facts
    <3> QED
      BY <1>0, <1>b, <1>c, <1>d, <1>e, <2>1, <3>1
  <2>2. CASE q # p
    <3>1. at[q] \in Prefixes
      BY <1>0, Facts
    <3> QED
      BY <1>b, <1>d, <2>2, <3>1 DEF BootInv, PathOK
  <2> QED
    BY <2>1, <2>2
<1>6. UidOK'
  <2> SUFFICES ASSUME NEW j \in Prefixes PROVE UidOK!(j)'
    BY DEF UidOK
  <2>1. CASE j = k
    BY <1>0, <1>b, <1>d, <1>e, <1>f, <2>1 DEF BootInv, UidOK
  <2>2. CASE j # k
    BY <1>b, <1>d, <2>2 DEF BootInv, UidOK
  <2> QED
    BY <2>1, <2>2
<1>7. WritersOK'
  <2> SUFFICES ASSUME NEW j \in Prefixes, NEW r \in Ranks, writers[j][r] > 0
               PROVE  \E q \in Procs : /\ rank[q][j] = r /\ read'[q][j] # None
                                       /\ ~ (at[q] = j /\ pc'[q] = "announce")
    BY <1>b DEF WritersOK
  <2>1. PICK q \in Procs : rank[q][j] = r /\ read[q][j] # None /\ ~ (at[q] = j /\ pc[q] = "announce")
    BY DEF BootInv, WritersOK
  <2>2. q # p \/ j # k
    BY <1>c, <2>1
  <2> QED
    BY <1>b, <1>g, <2>1, <2>2
<1>8. JoinedOK'
  BY <1>b, <1>g DEF BootInv, JoinedOK, TypeOK
<1> QED
  BY <1>1, <1>2, <1>5, <1>6, <1>7, <1>8 DEF BootInv

LEMMA ReadUidOK == ASSUME BootInv, NEW p \in Procs, ReadUid(p) PROVE BootInv'
<1> USE DEF Goto
<1> DEFINE k == at[p]
<1>0. TypeOK /\ pc[p] = "uid" /\ k \in Prefixes /\ uid[k] # None /\ uid[k] \in Policies
  BY Facts DEF BootInv, ReadUid, TypeOK
<1>e. Policies \subseteq Procs
  BY <1>0, Facts
<1>b. /\ \A q \in Procs : q # p => pc'[q] = pc[q]
      /\ pc'[p] = "announce" /\ at' = at
      /\ read' = [read EXCEPT ![p][k] = uid[k]]
      /\ UNCHANGED <<uid, rank, replicas, policyCtr, rolloutCtr, writers, joined, comms>>
  BY <1>0, Facts DEF ReadUid, storeVars
<1>c. /\ read[p][k] = None /\ rank[p][k] # None
      /\ \A j \in Prefixes : j > k => read[p][j] = None
  BY <1>0 DEF BootInv, PathOK
<1>d. /\ \A q \in Procs, j \in Prefixes : (q # p \/ j # k) => read'[q][j] = read[q][j]
      /\ read'[p][k] = uid[k]
  BY <1>0, <1>b, Facts
<1>g. \A q \in Procs, j \in Prefixes : read[q][j] # None => read'[q][j] = read[q][j]
  BY <1>c, <1>d
<1>1. TypeOK'
  <2>1. [read[p] EXCEPT ![k] = uid[k]] \in [Prefixes -> Policies \cup {None}]
    BY <1>0, Facts
  <2>2. read' \in [Procs -> [Prefixes -> Policies \cup {None}]]
    BY <1>0, <1>b, <2>1, Facts
  <2>3. pc' \in [Procs -> Pcs]
    BY <1>0 DEF TypeOK, ReadUid, Pcs
  <2> QED
    BY <1>0, <2>2, <2>3 DEF TypeOK, ReadUid, storeVars
<1>2. CountersOK' /\ RanksOK' /\ IdsOK'
  BY <1>0, <1>b, RestOK DEF Refused
<1>5. PathOK'
  <2> SUFFICES ASSUME NEW q \in Procs PROVE PathOK!(q)'
    BY DEF PathOK
  <2>1. CASE q = p
    <3>1. \A j \in Prefixes : j > k => j # k
      BY <1>0, Facts
    <3> QED
      BY <1>0, <1>b, <1>c, <1>d, <2>1, <3>1
  <2>2. CASE q # p
    <3>1. at[q] \in Prefixes
      BY <1>0, Facts
    <3> QED
      BY <1>b, <1>d, <2>2, <3>1 DEF BootInv, PathOK
  <2> QED
    BY <2>1, <2>2
<1>6. UidOK'
  <2>1. \A j \in Prefixes : uid[j] # None => uid[j] \in Procs
    BY <1>0, <1>e DEF TypeOK
  <2> QED
    BY <1>b, <1>d, <1>g, <2>1 DEF BootInv, UidOK
<1>7. WritersOK'
  <2> SUFFICES ASSUME NEW j \in Prefixes, NEW r \in Ranks, writers[j][r] > 0
               PROVE  \E q \in Procs : /\ rank[q][j] = r /\ read'[q][j] # None
                                       /\ ~ (at[q] = j /\ pc'[q] = "announce")
    BY <1>b DEF WritersOK
  <2>1. PICK q \in Procs : rank[q][j] = r /\ read[q][j] # None /\ ~ (at[q] = j /\ pc[q] = "announce")
    BY DEF BootInv, WritersOK
  <2>2. q # p \/ j # k
    BY <1>c, <2>1
  <2> QED
    BY <1>b, <1>g, <2>1, <2>2
<1>8. JoinedOK'
  BY <1>b, <1>g DEF BootInv, JoinedOK, TypeOK
<1> QED
  BY <1>1, <1>2, <1>5, <1>6, <1>7, <1>8 DEF BootInv

(* Whoever has a rank is the only one to have it.                           *)
LEMMA OneHolder ==
  ASSUME TypeOK, RanksOK, NEW p \in Procs, NEW q \in Procs, NEW k \in Prefixes,
         p # q, rank[p][k] # None
  PROVE  rank[p][k] # rank[q][k]
<1>1. NumPolicies # None /\ NumPolicies \in Nat /\ Procs = Policies \cup Rollouts
  BY Facts
<1>2. CASE p \in Policies /\ q \in Policies
  BY <1>2 DEF RanksOK
<1>3. CASE p \in Rollouts /\ q \in Rollouts
  BY <1>3 DEF RanksOK
<1>4. CASE (p \in Policies /\ q \in Rollouts) \/ (p \in Rollouts /\ q \in Policies)
  BY <1>1, <1>4 DEF RanksOK
<1> QED
  BY <1>1, <1>2, <1>3, <1>4

LEMMA AnnounceOK == ASSUME BootInv, NEW p \in Procs, Announce(p) PROVE BootInv'
<1> USE DEF Goto
<1> DEFINE k == at[p]  r == rank[p][k]
<1>0. TypeOK /\ pc[p] = "announce" /\ k \in Prefixes /\ r # None /\ read[p][k] # None /\ r \in Ranks
  <2>1. TypeOK /\ pc[p] = "announce" /\ k \in Prefixes
    BY Facts DEF BootInv, Announce
  <2> QED
    BY <2>1, Facts DEF BootInv, PathOK
<1>f. writers[k][r] = 0
  <2>1. writers[k][r] \in Nat
    BY <1>0, Facts
  <2>2. \A q \in Procs : ~ (rank[q][k] = r /\ read[q][k] # None /\ ~ (at[q] = k /\ pc[q] = "announce"))
    BY <1>0, OneHolder DEF BootInv
  <2> QED
    BY <1>0, <2>1, <2>2 DEF BootInv, WritersOK
<1>b. /\ \A q \in Procs : q # p => pc'[q] = pc[q]
      /\ pc'[p] = "ready" /\ at' = at
      /\ writers' = [writers EXCEPT ![k][r] = 1]
      /\ UNCHANGED <<uid, read, rank, replicas, policyCtr, rolloutCtr, joined, comms>>
  BY <1>0, <1>f, Facts DEF Announce, RankOf
<1>1. TypeOK'
  <2>1. [writers[k] EXCEPT ![r] = 1] \in [Ranks -> Nat]
    BY <1>0, Facts
  <2>2. writers' \in [Prefixes -> [Ranks -> Nat]]
    BY <1>0, <1>b, <2>1, Facts
  <2>3. pc' \in [Procs -> Pcs]
    BY <1>0 DEF TypeOK, Announce, Pcs
  <2> QED
    BY <1>0, <2>2, <2>3 DEF TypeOK, Announce
<1>2. CountersOK' /\ RanksOK' /\ IdsOK'
  BY <1>0, <1>b, RestOK DEF Refused
<1>5. PathOK' /\ UidOK' /\ JoinedOK'
  <2>1. PathOK'
    BY <1>0, <1>b DEF BootInv, PathOK
  <2> QED
    BY <1>b, <2>1 DEF BootInv, UidOK, JoinedOK
<1>7. WritersOK'
  <2> SUFFICES ASSUME NEW j \in Prefixes, NEW s \in Ranks, writers'[j][s] > 0
               PROVE  \E q \in Procs : /\ rank[q][j] = s /\ read[q][j] # None
                                       /\ ~ (at[q] = j /\ pc'[q] = "announce")
    BY <1>b DEF WritersOK
  <2>1. CASE j = k /\ s = r
    BY <1>0, <1>b, <2>1
  <2>2. CASE j # k \/ s # r
    <3>1. writers[j][s] > 0
      BY <1>0, <1>b, <2>2, Facts
    <3> QED
      BY <1>b, <3>1 DEF BootInv, WritersOK
  <2> QED
    BY <2>1, <2>2
<1> QED
  BY <1>1, <1>2, <1>5, <1>7 DEF BootInv

LEMMA MarkReadyOK == ASSUME BootInv, NEW p \in Procs, MarkReady(p) PROVE BootInv'
<1> USE DEF Goto
<1> DEFINE k == at[p]
<1>0. TypeOK /\ pc[p] = "ready" /\ k \in Prefixes /\ rank[p][k] \in Ranks
  <2>1. TypeOK /\ pc[p] = "ready" /\ k \in Prefixes
    BY Facts DEF BootInv, PathOK, MarkReady
  <2> QED
    BY <2>1, Facts DEF BootInv, PathOK
<1>b. /\ \A q \in Procs : q # p => pc'[q] = pc[q]
      /\ pc'[p] = "barrier" /\ at' = at
      /\ ready' = [ready EXCEPT ![k] = @ \cup {rank[p][k]}]
      /\ UNCHANGED <<uid, read, rank, replicas, policyCtr, rolloutCtr, writers, joined, comms>>
  BY <1>0, Facts DEF MarkReady, RankOf
<1>1. TypeOK'
  <2>1. ready' \in [Prefixes -> SUBSET Ranks] /\ pc' \in [Procs -> Pcs]
    BY <1>0, <1>b DEF TypeOK, MarkReady, Pcs
  <2> QED
    BY <1>0, <1>b, <2>1 DEF TypeOK, MarkReady
<1>2. CountersOK' /\ RanksOK' /\ IdsOK'
  BY <1>0, <1>b, RestOK DEF Refused
<1>5. PathOK' /\ UidOK' /\ JoinedOK'
  <2>1. PathOK'
    BY <1>0, <1>b DEF BootInv, PathOK
  <2> QED
    BY <1>b, <2>1 DEF BootInv, UidOK, JoinedOK
<1>7. WritersOK'
  BY <1>0, <1>b, WritersRest DEF BootInv
<1> QED
  BY <1>1, <1>2, <1>5, <1>7 DEF BootInv

LEMMA PassBarrierOK == ASSUME BootInv, NEW p \in Procs, PassBarrier(p) PROVE BootInv'
<1> USE DEF Goto
<1> DEFINE k == at[p]
<1>0. /\ TypeOK /\ pc[p] = "barrier" /\ k \in Prefixes
      /\ rank[p][k] \in Ranks /\ read[p][k] # None
  <2>1. TypeOK /\ pc[p] = "barrier" /\ k \in Prefixes
    BY Facts DEF BootInv, PassBarrier
  <2> QED
    BY <2>1, Facts DEF BootInv, PathOK
<1>b. /\ \A q \in Procs : q # p => pc'[q] = pc[q]
      /\ pc'[p] = "create" /\ at' = at
      /\ joined' = [joined EXCEPT ![k] = @ \cup {rank[p][k]}]
      /\ UNCHANGED <<uid, read, rank, replicas, policyCtr, rolloutCtr, writers, comms>>
  BY <1>0, Facts DEF PassBarrier, RankOf, storeVars
<1>1. TypeOK'
  <2>1. joined' \in [Prefixes -> SUBSET Ranks] /\ pc' \in [Procs -> Pcs]
    BY <1>0, <1>b DEF TypeOK, PassBarrier, Pcs
  <2> QED
    BY <1>0, <2>1 DEF TypeOK, PassBarrier, storeVars
<1>2. CountersOK' /\ RanksOK' /\ IdsOK'
  BY <1>0, <1>b, RestOK DEF Refused
<1>5. PathOK' /\ UidOK'
  <2>1. PathOK'
    BY <1>0, <1>b DEF BootInv, PathOK
  <2> QED
    BY <1>b, <2>1 DEF BootInv, UidOK
<1>6. JoinedOK'
  <2>1. \A j \in Prefixes : joined'[j] = joined[j] \/ (j = k /\ joined'[j] = joined[k] \cup {rank[p][k]})
    BY <1>0, <1>b DEF TypeOK
  <2>2. \A j \in Prefixes, s \in Ranks : s \in joined'[j] =>
          \E q \in Procs : rank[q][j] = s /\ read[q][j] # None
    BY <1>0, <2>1 DEF BootInv, JoinedOK
  <2>3. \A q \in Procs : \A j \in comms[q] : joined'[j] = Ranks /\ read[q][j] # None
    <3>1. \A q \in Procs : comms[q] \subseteq Prefixes
      BY <1>0 DEF TypeOK
    <3>2. \A j \in Prefixes : joined[j] = Ranks => joined'[j] = Ranks
      BY <1>0, <2>1
    <3>3. \A q \in Procs : \A j \in comms[q] : joined[j] = Ranks /\ read[q][j] # None
      BY DEF BootInv, JoinedOK
    <3> QED
      BY <3>1, <3>2, <3>3
  <2> QED
    BY <1>b, <2>2, <2>3 DEF JoinedOK
<1>7. WritersOK'
  BY <1>0, <1>b, WritersRest DEF BootInv
<1> QED
  BY <1>1, <1>2, <1>5, <1>6, <1>7 DEF BootInv

LEMMA CommCreatedOK == ASSUME BootInv, NEW p \in Procs, CommCreated(p) PROVE BootInv'
<1> USE DEF Goto
<1> DEFINE k == at[p]
<1>0. TypeOK /\ pc[p] = "create" /\ k \in Prefixes /\ read[p][k] # None /\ joined[k] = Ranks
  <2>1. TypeOK /\ pc[p] = "create" /\ k \in Prefixes /\ joined[k] = Ranks
    BY Facts DEF BootInv, CommCreated
  <2> QED
    BY <2>1 DEF BootInv, PathOK
<1>b. /\ \A q \in Procs : q # p => pc'[q] = pc[q] /\ at'[q] = at[q]
      /\ \/ /\ pc'[p] = "rank" /\ at'[p] = k + 1 /\ p \in Policies /\ k + 1 \in Prefixes
            /\ at' = [at EXCEPT ![p] = k + 1]
         \/ pc'[p] = "done" /\ at' = at
      /\ comms' = [comms EXCEPT ![p] = @ \cup {k}]
      /\ UNCHANGED <<uid, read, rank, replicas, policyCtr, rolloutCtr, writers, joined>>
  <2>1. k + 1 < NumRollouts => k + 1 \in Prefixes
    BY <1>0, Facts
  <2> QED
    BY <1>0, <2>1, Facts DEF CommCreated, storeVars
<1>1. TypeOK'
  <2>1. at' \in [Procs -> Prefixes]
    BY <1>0, <1>b DEF TypeOK
  <2>2. comms' \in [Procs -> SUBSET Prefixes]
    BY <1>0, <1>b DEF TypeOK
  <2>3. pc' \in [Procs -> Pcs]
    BY <1>0 DEF TypeOK, CommCreated, Pcs
  <2> QED
    BY <1>0, <2>1, <2>2, <2>3 DEF TypeOK, CommCreated, storeVars
<1>2. CountersOK' /\ RanksOK' /\ IdsOK'
  <2>1. \A q \in Rollouts : at'[q] = at[q]
    BY <1>0, <1>b, Facts
  <2> QED
    BY <1>0, <1>b, <2>1, RestOK DEF Refused
<1>5. PathOK' /\ UidOK'
  <2>1. PathOK'
    <3> SUFFICES ASSUME NEW q \in Procs PROVE PathOK!(q)'
      BY DEF PathOK
    <3>1. CASE q = p
      <4>1. \A j \in Prefixes : j > k => read[p][j] = None
        BY <1>0 DEF BootInv, PathOK
      <4>2. k \in Nat /\ \A j \in Prefixes : j \in Nat
        BY <1>0, Facts
      <4> QED
        BY <1>0, <1>b, <3>1, <4>1, <4>2
    <3>2. CASE q # p
      BY <1>b, <3>2 DEF BootInv, PathOK
    <3> QED
      BY <3>1, <3>2
  <2> QED
    BY <1>b, <2>1 DEF BootInv, UidOK
<1>6. JoinedOK'
  <2>1. \A q \in Procs : \A j \in comms'[q] : j \in comms[q] \/ (q = p /\ j = k)
    BY <1>0, <1>b DEF TypeOK
  <2> QED
    BY <1>0, <1>b, <2>1 DEF BootInv, JoinedOK
<1>7. WritersOK'
  BY <1>b, WritersRest DEF BootInv
<1> QED
  BY <1>1, <1>2, <1>5, <1>6, <1>7 DEF BootInv

LEMMA GiveUpOK == ASSUME BootInv, NEW p \in Procs, GiveUp(p) PROVE BootInv'
<1> USE DEF Goto, Fail
<1>0. TypeOK /\ pc[p] \in {"uid", "barrier", "create"}
  BY DEF BootInv, GiveUp
<1>b. /\ \A q \in Procs : q # p => pc'[q] = pc[q]
      /\ pc'[p] = "failed" /\ at' = at /\ comms' = [comms EXCEPT ![p] = {}]
      /\ UNCHANGED <<uid, read, rank, replicas, policyCtr, rolloutCtr, writers, joined>>
  BY <1>0, Facts DEF GiveUp, storeVars
<1>1. TypeOK'
  <2>1. comms' \in [Procs -> SUBSET Prefixes] /\ pc' \in [Procs -> Pcs]
    BY <1>0 DEF TypeOK, GiveUp, Pcs
  <2> QED
    BY <1>0, <2>1 DEF TypeOK, GiveUp, storeVars
<1>2. CountersOK' /\ RanksOK' /\ IdsOK'
  BY <1>0, <1>b, RestOK DEF Refused
<1>5. PathOK' /\ UidOK'
  BY <1>b DEF BootInv, PathOK, UidOK
<1>6. JoinedOK'
  BY <1>0, <1>b DEF BootInv, TypeOK, JoinedOK
<1>7. WritersOK'
  BY <1>b, WritersRest DEF BootInv
<1> QED
  BY <1>1, <1>2, <1>5, <1>6, <1>7 DEF BootInv

-----------------------------------------------------------------------------
(* The bootstrap                                                             *)

(* Every step keeps the invariant.                                          *)
LEMMA BootStep == BootInv /\ [Next]_vars => BootInv'
<1> SUFFICES ASSUME BootInv, [Next]_vars PROVE BootInv'
  OBVIOUS
<1>1. ASSUME NEW p \in Procs, Step(p) \/ GiveUp(p) PROVE BootInv'
  BY <1>1, AcquireIdOK, GiveBackIdOK, AssignPolicyRankOK, AssignRolloutRankOK, GiveBackRankOK,
     CreateUidOK, ReadUidOK, AnnounceOK, MarkReadyOK, PassBarrierOK, CommCreatedOK, GiveUpOK
     DEF Step
<1>2. CASE UNCHANGED vars
  <2>1. TypeOK' /\ CountersOK' /\ RanksOK'
    BY <1>2 DEF BootInv, TypeOK, CountersOK, RanksOK, RefusedIds, RefusedPolicies, RefusedRollouts,
                vars, storeVars
  <2>2. IdsOK' /\ PathOK' /\ UidOK'
    BY <1>2 DEF BootInv, IdsOK, HasId, PathOK, UidOK, vars, storeVars
  <2>3. WritersOK' /\ JoinedOK'
    BY <1>2 DEF BootInv, WritersOK, JoinedOK, vars, storeVars
  <2> QED
    BY <2>1, <2>2, <2>3 DEF BootInv
<1> QED
  BY <1>1, <1>2 DEF Next

(* The inductive invariant of the bootstrap holds: the counters, the ranks,  *)
(* the ids and what each process has read and written fit together.          *)
THEOREM BootInvariant == Spec => []BootInv
BY InitOK, BootStep, PTL DEF Spec

(* The types: no counter of the store goes negative when refused processes   *)
(* give values back, and rank 0 of a prefix is always a policy's.            *)
THEOREM BootTypes == Spec => []TypeOK
<1>1. BootInv => TypeOK
  BY DEF BootInv
<1> QED
  BY <1>1, BootInvariant, PTL

(* Every communicator is whole however many processes are launched beyond    *)
(* the configuration: ranks are unique, the sender sits behind its policies  *)
(* and everybody inside read the one unique id.                              *)
THEOREM CommunicatorsAreWhole == Spec => []CommIsWhole
<1>1. ASSUME BootInv PROVE CommIsWhole
  <2>0. TypeOK /\ \A p \in Procs : comms[p] \subseteq Prefixes
    BY <1>1 DEF BootInv, TypeOK
  <2>1. RanksAreUnique
    BY <1>1, <2>0, OneHolder DEF BootInv, RanksAreUnique
  <2>2. SenderSitsLast
    <3>1. \A p \in Procs, k \in Prefixes : rank[p][k] # None => (rank[p][k] = SenderRank <=> p \in Rollouts)
      <4>1. /\ \A p \in Procs, k \in Prefixes : rank[p][k] # None => rank[p][k] \in Nat
            /\ NumPolicies \in Nat /\ SenderRank = NumPolicies /\ Procs = Policies \cup Rollouts
        BY <2>0, Facts
      <4> QED
        BY <1>1, <4>1 DEF BootInv, RanksOK
    <3>2. \A p, q \in Rollouts :
             p # q /\ {pc[p], pc[q]} \cap {"acquire", "giveBackId", "failed"} = {} => at[p] # at[q]
      BY <1>1 DEF BootInv, IdsOK, HasId, Procs
    <3> QED
      BY <3>1, <3>2 DEF SenderSitsLast
  <2>3. CommIsJoined
    <3> SUFFICES ASSUME NEW p \in Procs, NEW k \in comms[p] PROVE CommIsJoined!(p)!(k)
      BY DEF CommIsJoined
    <3>1. k \in Prefixes /\ joined[k] = Ranks /\ read[p][k] # None /\ read[p][k] = uid[k]
      BY <1>1, <2>0 DEF BootInv, JoinedOK, UidOK
    <3>2. ASSUME NEW r \in Ranks PROVE \E q \in Procs : rank[q][k] = r /\ read[q][k] = read[p][k]
      BY <1>1, <3>1 DEF BootInv, JoinedOK, UidOK
    <3> QED
      BY <3>1, <3>2
  <2> QED
    BY <2>1, <2>2, <2>3 DEF CommIsWhole
<1> QED
  BY <1>1, BootInvariant, PTL
=============================================================================

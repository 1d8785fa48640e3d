------------------------------ MODULE CommInit ------------------------------
(***************************************************************************)
(* Bootstrap of the NCCL communicators (transport/nccl/comm_init.py): one    *)
(* communicator per rollout replica, which joins the replica's sender with   *)
(* every policy process.  A rollout worker takes a replica id and sets up    *)
(* its own prefix; a policy process sets up all prefixes in order            *)
(* (NcclReceiver.setup).  Ranks, the NCCL unique id and the ready barrier    *)
(* go through counters and keys of the shared TCPStore.                      *)
(***************************************************************************)
EXTENDS Naturals, FiniteSets

CONSTANTS
  Policies,      \* policy processes that were launched
  Rollouts,      \* rollout workers that were launched
  NumPolicies,   \* num_policy_processes: how many the configuration expects
  NumRollouts,   \* num_rollout_replicas
  None           \* no rank, no unique id

ASSUME CommInitAssumption ==
  /\ NumPolicies \in Nat \ {0} /\ NumRollouts \in Nat \ {0}
  /\ Policies \cap Rollouts = {}
  /\ None \notin Policies \cup Rollouts \cup Nat

Procs    == Policies \cup Rollouts
Prefixes == 0 .. NumRollouts - 1

(* compute_nccl_topology: one sender behind N policy peers.                  *)
WorldSize  == 1 + NumPolicies
Ranks      == 0 .. WorldSize - 1
SenderRank == NumPolicies

VARIABLES
  pc,         \* where each process is inside setup()
  at,         \* the prefix it is setting up
  rank,       \* rank[p][k]: the rank p was assigned under prefix k, or None
  replicas,   \* rollout_replica_counter
  policyCtr,  \* policy_rank_counter of each prefix
  rolloutCtr, \* rollout_rank_counter of each prefix
  uid,        \* the unique id stored under each prefix: its creator, or None
  read,       \* read[p][k]: the unique id p goes on with
  writers,    \* ready:<rank>:writers
  ready,      \* ranks whose ready key is present
  joined,     \* ranks inside create_nccl_comm, or past it
  comms,      \* prefixes whose communicator each process holds
  patient     \* no store wait and no communicator creation times out

storeVars == <<replicas, policyCtr, rolloutCtr, uid, writers, ready>>
vars == <<pc, at, rank, storeVars, read, joined, comms, patient>>

Pcs == {"acquire", "giveBackId", "rank", "giveBackRank", "uid", "announce",
        "withdraw", "ready", "barrier", "create", "done", "failed"}

TypeOK ==
  /\ pc \in [Procs -> Pcs] /\ at \in [Procs -> Prefixes]
  /\ rank \in [Procs -> [Prefixes -> Ranks \cup {None}]]
  /\ replicas \in Nat
  /\ policyCtr \in [Prefixes -> Nat] /\ rolloutCtr \in [Prefixes -> Nat]
  /\ uid \in [Prefixes -> Policies \cup {None}]
  /\ read \in [Procs -> [Prefixes -> Policies \cup {None}]]
  /\ writers \in [Prefixes -> [Ranks -> Nat]]
  /\ ready \in [Prefixes -> SUBSET Ranks]
  /\ joined \in [Prefixes -> SUBSET Ranks]
  /\ comms \in [Procs -> SUBSET Prefixes]
  /\ patient \in BOOLEAN

Init ==
  /\ pc = [p \in Procs |-> IF p \in Rollouts THEN "acquire" ELSE "rank"]
  /\ at = [p \in Procs |-> 0]
  /\ rank = [p \in Procs |-> [k \in Prefixes |-> None]]
  /\ replicas = 0
  /\ policyCtr = [k \in Prefixes |-> 0] /\ rolloutCtr = [k \in Prefixes |-> 0]
  /\ uid = [k \in Prefixes |-> None]
  /\ read = [p \in Procs |-> [k \in Prefixes |-> None]]
  /\ writers = [k \in Prefixes |-> [r \in Ranks |-> 0]]
  /\ ready = [k \in Prefixes |-> {}] /\ joined = [k \in Prefixes |-> {}]
  /\ comms = [p \in Procs |-> {}]
  /\ patient \in BOOLEAN

Goto(p, where) == pc' = [pc EXCEPT ![p] = where]
RankOf(p) == rank[p][at[p]]

(* setup() raises: a receiver aborts and forgets the communicators it has.   *)
Fail(p) == Goto(p, "failed") /\ comms' = [comms EXCEPT ![p] = {}]

-----------------------------------------------------------------------------
(* Mutant: the replica id is tested against one too many.                    *)
IdWithinRange(n) == n <= NumRollouts

(* The id store.add handed out is one the configuration has.                 *)
IdInRange(n) == n < NumRollouts

(* assign_rollout_idx: store.add returns the id; an id past the replica      *)
(* count is given back in a second store operation before the raise.         *)
AcquireId(p) ==
  /\ pc[p] = "acquire"
  /\ replicas' = replicas + 1
  /\ IF IdInRange(replicas)
       THEN at' = [at EXCEPT ![p] = replicas] /\ Goto(p, "rank")
       ELSE UNCHANGED at /\ Goto(p, "giveBackId")
  /\ UNCHANGED <<rank, policyCtr, rolloutCtr, uid, writers, ready, read, joined, comms, patient>>

GiveBackId(p) ==
  /\ pc[p] = "giveBackId"
  /\ replicas' = replicas - 1
  /\ Fail(p)
  /\ UNCHANGED <<at, rank, policyCtr, rolloutCtr, uid, writers, ready, read, joined, patient>>

PolicyRankFits(r) == r < NumPolicies

(* assign_rank_once for a policy: the counter value is the rank.             *)
AssignPolicyRank(p) ==
  /\ p \in Policies /\ pc[p] = "rank"
  /\ LET k == at[p]  r == policyCtr[k] IN
       /\ policyCtr' = [policyCtr EXCEPT ![k] = r + 1]
       /\ IF PolicyRankFits(r)
            THEN rank' = [rank EXCEPT ![p][k] = r] /\ Goto(p, "uid")
            ELSE UNCHANGED rank /\ Goto(p, "giveBackRank")
  /\ UNCHANGED <<at, replicas, rolloutCtr, uid, writers, ready, read, joined, comms, patient>>

(* assign_rank_once for a sender: its counter is offset by the policy count. *)
AssignRolloutRank(p) ==
  /\ p \in Rollouts /\ pc[p] = "rank"
  /\ LET k == at[p]  r == NumPolicies + rolloutCtr[k] IN
       /\ rolloutCtr' = [rolloutCtr EXCEPT ![k] = @ + 1]
       /\ IF r < WorldSize
            THEN rank' = [rank EXCEPT ![p][k] = r] /\ Goto(p, "uid")
            ELSE UNCHANGED rank /\ Goto(p, "giveBackRank")
  /\ UNCHANGED <<at, replicas, policyCtr, uid, writers, ready, read, joined, comms, patient>>

GiveBackRank(p) ==
  /\ pc[p] = "giveBackRank"
  /\ IF p \in Policies
       THEN policyCtr' = [policyCtr EXCEPT ![at[p]] = @ - 1] /\ UNCHANGED rolloutCtr
       ELSE rolloutCtr' = [rolloutCtr EXCEPT ![at[p]] = @ - 1] /\ UNCHANGED policyCtr
  /\ Fail(p)
  /\ UNCHANGED <<at, rank, replicas, uid, writers, ready, read, joined, patient>>

-----------------------------------------------------------------------------
(* Mutant: whoever finds no unique id creates one.                           *)
CreateUidIfAbsent(p) ==
  /\ pc[p] = "uid" /\ (RankOf(p) = 0 \/ uid[at[p]] = None)
  /\ uid' = [uid EXCEPT ![at[p]] = p]
  /\ read' = [read EXCEPT ![p][at[p]] = p]
  /\ Goto(p, "announce")
  /\ UNCHANGED <<at, rank, replicas, policyCtr, rolloutCtr, writers, ready, joined, comms, patient>>

(* _get_or_create_uid on rank 0: create it, store it, use it.                *)
CreateUid(p) ==
  /\ pc[p] = "uid" /\ RankOf(p) = 0
  /\ uid' = [uid EXCEPT ![at[p]] = p]
  /\ read' = [read EXCEPT ![p][at[p]] = p]
  /\ Goto(p, "announce")
  /\ UNCHANGED <<at, rank, replicas, policyCtr, rolloutCtr, writers, ready, joined, comms, patient>>

(* Everybody else waits for the key and reads it.                            *)
ReadUid(p) ==
  /\ pc[p] = "uid" /\ RankOf(p) # 0 /\ uid[at[p]] # None
  /\ read' = [read EXCEPT ![p][at[p]] = uid[at[p]]]
  /\ Goto(p, "announce")
  /\ UNCHANGED <<at, rank, storeVars, joined, comms, patient>>

(* _wait_for_all_ranks_ready: the per-rank writer counter first.             *)
Announce(p) ==
  /\ pc[p] = "announce"
  /\ writers' = [writers EXCEPT ![at[p]][RankOf(p)] = @ + 1]
  /\ Goto(p, IF writers[at[p]][RankOf(p)] = 0 THEN "ready" ELSE "withdraw")
  /\ UNCHANGED <<at, rank, replicas, policyCtr, rolloutCtr, uid, ready, read, joined, comms, patient>>

(* The ready key second; a second writer of a rank withdraws and raises.     *)
MarkReady(p) ==
  /\ pc[p] \in {"ready", "withdraw"}
  /\ IF pc[p] = "ready"
       THEN /\ ready' = [ready EXCEPT ![at[p]] = @ \cup {RankOf(p)}]
            /\ Goto(p, "barrier") /\ UNCHANGED <<writers, comms>>
       ELSE /\ writers' = [writers EXCEPT ![at[p]][RankOf(p)] = @ - 1]
            /\ Fail(p) /\ UNCHANGED ready
  /\ UNCHANGED <<at, rank, replicas, policyCtr, rolloutCtr, uid, read, joined, patient>>

(* Mutant: the range of awaited ranks is one too long.                       *)
AllReadyAndOneMore(k) == 0 .. WorldSize \subseteq ready[k]

AllReady(k) == Ranks \subseteq ready[k]

(* store.wait on every ready key returns, and create_nccl_comm is entered.   *)
PassBarrier(p) ==
  /\ pc[p] = "barrier" /\ AllReady(at[p])
  /\ joined' = [joined EXCEPT ![at[p]] = @ \cup {RankOf(p)}]
  /\ Goto(p, "create")
  /\ UNCHANGED <<at, rank, storeVars, read, comms, patient>>

(* create_nccl_comm is collective: it returns once every rank has entered it. *)
(* A policy goes on to the next replica's prefix.                            *)
CommCreated(p) ==
  /\ pc[p] = "create" /\ joined[at[p]] = Ranks
  /\ comms' = [comms EXCEPT ![p] = @ \cup {at[p]}]
  /\ IF p \in Policies /\ at[p] + 1 < NumRollouts
       THEN at' = [at EXCEPT ![p] = @ + 1] /\ Goto(p, "rank")
       ELSE UNCHANGED at /\ Goto(p, "done")
  /\ UNCHANGED <<rank, storeVars, read, joined, patient>>

(* The wait for the unique id, the barrier or the creation times out.  What  *)
(* the process wrote to the store stays there.                               *)
GiveUp(p) ==
  /\ ~patient
  /\ \/ pc[p] = "uid" /\ RankOf(p) # 0 /\ uid[at[p]] = None
     \/ pc[p] = "barrier" /\ ~AllReady(at[p])
     \/ pc[p] = "create" /\ joined[at[p]] # Ranks
  /\ Fail(p)
  /\ UNCHANGED <<at, rank, storeVars, read, joined, patient>>

Step(p) ==
  \/ AcquireId(p) \/ GiveBackId(p)
  \/ AssignPolicyRank(p) \/ AssignRolloutRank(p) \/ GiveBackRank(p)
  \/ CreateUid(p) \/ ReadUid(p) \/ Announce(p) \/ MarkReady(p)
  \/ PassBarrier(p) \/ CommCreated(p)

Next == \E p \in Procs : Step(p) \/ GiveUp(p)

Spec == Init /\ [][Next]_vars

(* Processes run; the store answers.                                         *)
FairSpec == Spec /\ \A p \in Procs : WF_vars(Step(p))

-----------------------------------------------------------------------------
(* No rank is handed out twice under a prefix, although refused processes    *)
(* give counter values back while others take theirs (comm_init.py:183-201). *)
RanksAreUnique ==
  \A p, q \in Procs : \A k \in Prefixes :
    p # q /\ rank[p][k] # None => rank[p][k] # rank[q][k]

(* Receivers address the sender as rank num_policy_processes: whoever has    *)
(* that rank is the one rollout worker of the prefix.                        *)
SenderSitsLast ==
  /\ \A p \in Procs : \A k \in Prefixes :
       rank[p][k] # None => (rank[p][k] = SenderRank <=> p \in Rollouts)
  /\ \A p, q \in Rollouts :
       p # q /\ {pc[p], pc[q]} \cap {"acquire", "giveBackId", "failed"} = {} => at[p] # at[q]

(* A communicator joins all ranks of its prefix on one unique id: whoever    *)
(* holds it entered with the id in the store, and so did every other rank.   *)
CommIsJoined ==
  \A p \in Procs : \A k \in comms[p] :
    /\ joined[k] = Ranks
    /\ \A r \in Ranks : \E q \in Procs : rank[q][k] = r /\ read[q][k] = read[p][k]
    /\ read[p][k] = uid[k]

(* Every communicator is whole: one process per rank, the sender behind its  *)
(* policy peers, all on the unique id of the rank 0 that is there.           *)
CommIsWhole == RanksAreUnique /\ SenderSitsLast /\ CommIsJoined

(* An over-launched job still comes up: the surplus processes are refused    *)
(* and cost no configured one its slot, if nobody's wait times out.          *)
Up(S) == {p \in S : pc[p] = "done"}

LaunchCompletes ==
  patient ~> /\ Cardinality(Up(Policies)) = NumPolicies
             /\ Cardinality(Up(Rollouts)) = NumRollouts
             /\ \A p \in Up(Policies) : comms[p] = Prefixes
=============================================================================

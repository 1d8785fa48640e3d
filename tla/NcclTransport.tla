--------------------------- MODULE NcclTransport ---------------------------
(***************************************************************************)
(* The transport of one rollout worker: sender loop, policy readers and     *)
(* egress writer over one TCPStore and one NCCL communicator, and what they *)
(* guarantee together.                                                      *)
(***************************************************************************)
EXTENDS NcclSender, NcclReceiver, NcclWriter

(* The tensor batch crosses: nccl_send and nccl_recv on one communicator     *)
(* match only each other, so both calls return together.                     *)
NcclTransfer(r) ==
  /\ spc = "send" /\ speer = r /\ comm = "up"
  /\ rpc[r] = "recv" /\ rcomm[r]
  /\ spc' = "complete" /\ rpc' = [rpc EXCEPT ![r] = "unpack"]
  /\ UNCHANGED <<registryVars, scan, scur, sown, speer, meta, stray, keyVars, rcur, rcomm,
                 fate, disc, cleanupVars, life, sync>>

Next ==
  \/ SenderNext \/ ReceiverNext \/ WriterNext
  \/ \E r \in Receivers : NcclTransfer(r)

Spec == Init /\ [][Next]_vars

-----------------------------------------------------------------------------
(* SAFETY *)

(* A payload is in one place: held, claimed, or only remembered by a discard *)
(* marker; at most one is claimed, the one the loop has in hand; and the      *)
(* tensors the loop is about to send were neither put back nor released       *)
(* under it ("never sends tensors it already dropped, and never drops tensors *)
(* mid-send").  Only close() forgets a claim the loop still holds.            *)
ExclusiveOwnership ==
  /\ pending \cap claimed = {} /\ pending \cap released = {}
  /\ claimed \cap released = {}
  /\ claimed # {} => sown /\ claimed = {scur}
  /\ sown => /\ scur \notin pending \cup released
             /\ scur \in claimed \/ life = "closed"

(* The reader is still inside the rendezvous of transfer t, or past it and    *)
(* inside nccl_recv for t.                                                    *)
Waiting(r, t) ==
  /\ rcur[r] = t
  /\ rpc[r] \in {"wait", "cancel", "grace", "answer", "recv"}

(* Neither side parks alone inside NCCL: a sender in nccl_send has a reader   *)
(* that waits for exactly that transfer, and a reader in nccl_recv has a      *)
(* sender committed to it, unless one of the two has already aborted its end  *)
(* of the communicator.                                                       *)
NeitherParksAlone ==
  /\ spc = "send" /\ comm = "up" /\ rcomm[speer] => Waiting(speer, scur)
  /\ \A r \in Receivers : rpc[r] = "recv" /\ comm = "up" => Served(r)

(* The communicator is tagless: whenever a send and a receive meet on it,     *)
(* they are for the same transfer.                                            *)
RightPayload ==
  \A r \in Receivers :
    spc = "send" /\ speer = r /\ rpc[r] = "recv" => rcur[r] = scur

(* No rendezvous key of t is left.                                            *)
NoKeys(t) == req[t] = None /\ st[t] = "absent" /\ ack[t] = "absent"

(* One-shot reads: a read that has returned has deleted the manifest; tensors *)
(* that have crossed are neither held nor remembered, and their request       *)
(* cannot be decided again.  A read that has raised leaves no manifest and a  *)
(* delivered transfer no key, but for what a store call that failed on that   *)
(* very transfer left behind.                                                 *)
ReadsAreOneShot ==
  \A t \in Transfers :
    /\ fate[t] = "got" => t \notin meta
    /\ fate[t] \in {"got", "wasted"} => t \notin pending \cup released /\ st[t] # "requested"
    /\ t \notin stray => /\ fate[t] \in {"raised", "wasted"} => t \notin meta
                         /\ fate[t] \in {"got", "wasted"} => NoKeys(t)

(* A live manifest names tensors the sender has, or a read in progress.       *)
(* Losses that leave a manifest behind: a sender that failed or closed, and   *)
(* the manifests a store call that failed on them has left.                   *)
ManifestIsBacked ==
  \A t \in meta \ stray :
    \/ t \in pending \/ fate[t] \in {"reading", "filtered"}
    \/ comm # "up" \/ life = "closed"

(* Post-accept send failure: a sender whose communicator is gone holds        *)
(* nothing, offers nothing to the scan that a new pass could answer, and      *)
(* never registers a payload again.                                           *)
FailedSenderHoldsNothing ==
  comm = "cleared" => pending = {} /\ claimed = {} /\ released = {} /\ ~sown

(* GPU memory retained for transfers: the registry bound plus the one send.   *)
RetainedBounded ==
  MaxPending > 0 => /\ Cardinality(pending) <= MaxPending
                    /\ Cardinality(pending \cup claimed) <= MaxPending + 1

(* What the rollout worker retains on its GPU is accounted for: the registry  *)
(* bound and the one send while it serves, nothing once it cannot.            *)
RetentionIsBounded == RetainedBounded /\ FailedSenderHoldsNothing

(* No data send runs while the R2R broadcast does.                            *)
NoSendDuringBroadcast == sync = "broadcast" => spc # "send"

(* The rendezvous has exactly one outcome: a decided request is never decided *)
(* again and never reopened.                                                  *)
DecisionIsFinal ==
  [][\A t \in Transfers :
       st[t] \in {"accepted", "missing", "cancelled"} => st'[t] \in {st[t], "absent"}]_vars

-----------------------------------------------------------------------------
(* REFINEMENT *)

HoldOf(t) ==
  IF sown /\ scur = t
    THEN CASE spc = "cas" -> "held"
           [] spc \in {"ack", "send"} -> "committed"
           [] OTHER -> "sent"
    ELSE IF t \in pending THEN "held"
    ELSE IF fate[t] = "unborn" THEN "unborn" ELSE "gone"

AskOf(t) ==
  CASE fate[t] \in {"got", "wasted"} -> "got"
    [] fate[t] = "raised" -> "raised"
    [] \E r \in Receivers : rcur[r] = t /\ rpc[r] = "unpack" -> "got"
    [] \E r \in Receivers : Waiting(r, t) -> "asking"
    [] OTHER -> "none"

H == INSTANCE Handoff WITH hold <- [t \in Transfers |-> HoldOf(t)],
                           ask  <- [t \in Transfers |-> AskOf(t)]

(* The transport implements the hand-off: one commit point, one committed     *)
(* transfer at a time, delivery only out of a commitment.                     *)
ImplementsHandoff == H!Spec

-----------------------------------------------------------------------------
(* LIVENESS *)

SenderLoop ==
  \/ SenderPoll \/ SenderExit
  \/ \E t \in Transfers : SenderSkip(t) \/ SenderFind(t)
  \/ SenderReadRequest \/ SenderClaim \/ SenderDecides \/ SenderSeesCancel
  \/ SenderDropsRequest \/ SenderWritesAck \/ SenderCompletes

(* Cosmos settles every handle: it is read, or its cleanup is published.      *)
Settle(t) ==
  /\ fate[t] = "queued" /\ disc[t] = "no"
  /\ Discard(t) \/ \E r \in Receivers : ReadBegin(r, t) \/ ReadNoManifest(r, t)

(* Threads that are runnable run; every wait with a timeout ends.             *)
ReaderFairness  == \A r \in Receivers : WF_vars(ReaderStep(r))
SenderFairness  == WF_vars(SenderLoop) /\ \A r \in Receivers : WF_vars(NcclTransfer(r))
CleanupFairness ==
  /\ WF_vars(CleanupReleases)
  /\ \A t \in Transfers : WF_vars(CleanupDeletesManifest(t)) /\ WF_vars(WritePublish(t))
SettleFairness  == \A t \in Transfers : WF_vars(Settle(t))

ReaderSpec == Spec /\ ReaderFairness
FairSpec   == Spec /\ ReaderFairness /\ SenderFairness /\ CleanupFairness /\ SettleFairness

(* get_policy_input always comes back: no stuck sender, lost ACK, discard or  *)
(* failed peer keeps the policy loop inside the transport.                    *)
EveryReadReturns == \A r \in Receivers : rpc[r] # "idle" ~> rpc[r] = "idle"

(* The sender's tensors are freed in the end, read or not.                    *)
HeldIsFreed == \A t \in Transfers : t \in pending ~> t \notin pending \cup claimed

(* Where no call of the rendezvous or of NCCL fails, an accepted request is   *)
(* delivered.                                                                 *)
AcceptedIsDelivered == \A t \in Transfers : st[t] = "accepted" ~> fate[t] = "got"
=============================================================================

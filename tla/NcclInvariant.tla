--------------------------- MODULE NcclInvariant ---------------------------
(***************************************************************************)
(* The inductive invariant behind the safety properties of NcclTransport,   *)
(* in three layers.  OwnershipInv concerns the sender's memory alone;       *)
(* RendezvousInv ties that memory to the store keys and to the readers.     *)
(* Both hold whatever the environment does.  CommitmentInv says that a      *)
(* sender that has committed is not left alone, and holds as long as no     *)
(* reader leaves a committed request behind ("late_ack", "reader_error").   *)
(***************************************************************************)
EXTENDS NcclTransport

(* What the sender thread has in hand at each of its points.                *)
LoopOK ==
  /\ spc \in {"scan", "exited"} => scur = None /\ ~sown /\ speer = None
  /\ spc \notin {"scan", "exited"} => scur \in Transfers
  /\ spc \in {"read", "claim"} => ~sown
  /\ spc \in {"send", "complete"} => sown
  /\ spc \in {"claim", "cas", "ack", "send", "complete"} => speer \in Receivers

(* Whatever the sender knows of was written.                                *)
Born ==
  \A t \in Transfers :
    t \in pending \cup claimed \cup released \cup scan \cup meta \cup {scur}
      => fate[t] # "unborn"

(* What the registry, the loop and the communicator agree on.               *)
MemoryOK == LoopOK /\ ExclusiveOwnership /\ FailedSenderHoldsNothing

OwnershipInv == TypeOK /\ MemoryOK /\ Born

(* The registry never outgrows its limit.                                   *)
RegistryOK ==
  IsFiniteSet(pending) /\ (MaxPending > 0 => Cardinality(pending) <= MaxPending)

(* A rank inside get_policy_input reads one handle, and nobody else does;    *)
(* past the route look-up it has a communicator until it leaves.            *)
ReaderOK ==
  /\ \A r \in Receivers :
       /\ rpc[r] = "idle" => rcur[r] = None
       /\ rpc[r] # "idle" => rcur[r] \in Transfers /\ fate[rcur[r]] = "reading"
       /\ rpc[r] \notin {"idle", "manifest"} => rcomm[r]
       /\ \A q \in Receivers : rcur[r] = rcur[q] /\ rpc[r] # "idle" => r = q
  /\ \A t \in Transfers : fate[t] = "reading" => \E r \in Receivers : rcur[r] = t

(* The reader has published its request and has not taken the answer.       *)
Asking(r) == rpc[r] \in {"wait", "cancel", "grace", "answer"}

(* Once the ACK has been taken.                                              *)
KeysAfterAccept(t) ==
  /\ st[t] \in {"accepted", "absent"}
  /\ t \notin stray => NoKeys(t)

(* The keys of the transfer in hand at each point of the reader; the ACK     *)
(* repeats the outcome.                                                      *)
KeysOfReader ==
  \A r \in Receivers : LET t == rcur[r] IN
    /\ rpc[r] \in {"manifest", "publish"} => NoKeys(t)
    /\ rpc[r] = "request" => req[t] = None /\ st[t] = "requested" /\ ack[t] = "absent"
    /\ rpc[r] \in {"wait", "cancel"} =>
         req[t] = r /\ st[t] \in {"requested", "accepted", "missing"}
    /\ rpc[r] \in {"grace", "answer"} => req[t] = r /\ st[t] \in {"accepted", "missing"}
    /\ rpc[r] = "answer" => ack[t] # "absent"
    /\ Asking(r) /\ ack[t] # "absent" => st[t] = ack[t]
    /\ rpc[r] \in {"recv", "unpack"} => KeysAfterAccept(t)

(* The keys of a transfer nobody reads: none before the read, and after a    *)
(* delivery what a failed delete left.                                       *)
KeysAtRest ==
  \A t \in Transfers :
    /\ fate[t] \notin {"reading", "raised", "got", "wasted"} => NoKeys(t)
    /\ fate[t] \in {"got", "wasted"} => KeysAfterAccept(t)

(* The requester the sender read is the one reader the transfer can have,   *)
(* and that reader has asked and has not been served yet.                   *)
PeerOK ==
  spc \in {"claim", "cas", "ack", "send"} =>
    /\ fate[scur] \in {"reading", "raised"}
    /\ \A r \in Receivers :
         rcur[r] = scur =>
           r = speer /\ rpc[r] \notin {"manifest", "publish", "request", "unpack"}

(* The read of t is past the sender's acceptance.                            *)
Accepted(t) ==
  \/ fate[t] \in {"got", "wasted"}
  \/ \E r \in Receivers :
       /\ rcur[r] = t
       /\ rpc[r] \in {"recv", "unpack"} \/ (Asking(r) /\ ack[t] = "accepted")

(* What the loop may still decide has not been accepted: a key that a failed *)
(* delete left is never taken for a request.                                 *)
ScanOK ==
  /\ spc # "scan" => scur \notin scan
  /\ \A t \in scan : ~Accepted(t)
  /\ spc \in {"read", "claim", "cas", "ack"} => ~Accepted(scur)

(* What the sender has decided stands until the ACK, and a reader that has  *)
(* an acceptance has the sender in its send, or a communicator that failed. *)
ServiceOK ==
  /\ spc = "ack" /\ fate[scur] = "reading" => st[scur] = Verdict /\ ack[scur] = "absent"
  /\ \A r \in Receivers :
       rpc[r] = "recv" \/ (Asking(r) /\ ack[rcur[r]] = "accepted")
         => (spc = "send" /\ scur = rcur[r]) \/ comm = "cleared"

(* What is left of a transfer that was received.                            *)
OneShotOK ==
  /\ \A t \in Transfers :
       /\ fate[t] = "got" => t \notin meta
       /\ fate[t] \in {"raised", "wasted"} /\ t \notin stray => t \notin meta
       /\ fate[t] \in {"got", "wasted"} => t \notin pending \cup released
  /\ \A r \in Receivers : rpc[r] = "unpack" => rcur[r] \notin pending \cup released

(* From write to publish and from publish to read the tensors are there;    *)
(* a cleanup takes the manifest of a published handle before its tensors.   *)
BackingOK ==
  /\ ccur # None => disc[ccur] = "sent" /\ ccur \notin meta \ stray
  /\ \A t \in Transfers :
       /\ disc[t] # "no" => fate[t] \notin {"unborn", "writing"}
       /\ fate[t] \in {"writing", "unsent"} => t \notin meta
       /\ fate[t] = "writing" \/ t \in meta \ stray =>
            t \in pending \/ fate[t] \in {"reading", "filtered"}
                        \/ comm # "up" \/ life = "closed"

RendezvousInv ==
  /\ OwnershipInv /\ ReaderOK /\ KeysOfReader /\ KeysAtRest
  /\ PeerOK /\ ScanOK /\ ServiceOK /\ OneShotOK /\ BackingOK

(* Whoever raised left nothing that could still be decided.                 *)
AbandonedOK == \A t \in Transfers : fate[t] = "raised" => st[t] # "requested"

(* Once the sender has decided, the reader is there until the ACK; once it  *)
(* has accepted, until the tensors have crossed or the reader has dropped   *)
(* its route.                                                               *)
CommitOK ==
  /\ spc = "ack" => rcur[speer] = scur /\ rpc[speer] \in {"wait", "cancel", "grace"}
  /\ spc = "send" /\ rcomm[speer] =>
       /\ Waiting(speer, scur)
       /\ rpc[speer] # "recv" => ack[scur] = "accepted"

(* A weight sync finds every reader outside the transport, and from its     *)
(* broadcast on the sender can commit to nobody.                            *)
SyncOK ==
  /\ sync \in {"drain", "broadcast"} =>
       life = "open" /\ \A r \in Receivers : rpc[r] = "idle"
  /\ sync = "broadcast" => spc \notin {"ack", "send"}

CommitmentInv == RendezvousInv /\ AbandonedOK /\ CommitOK /\ SyncOK

(* Nobody walks away from a sender that has committed: the ACK lands within *)
(* the two budgets, and the reader's own store calls work.                  *)
CommitmentsAreAwaited == "late_ack" \notin Events /\ "reader_error" \notin Events
=============================================================================

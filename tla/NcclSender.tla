----------------------------- MODULE NcclSender -----------------------------
(***************************************************************************)
(* NcclSender._run_sender_loop and the sender half of AckRendezvous         *)
(* (process_request).  The thread is one program counter; each action is    *)
(* one region between two points where another thread or process can act:   *)
(* a section under _pending_sends_lock, or one TCPStore operation.          *)
(***************************************************************************)
EXTENDS NcclState

(* The loop gives up the transfer in hand and goes on with its pass.        *)
BackToScan ==
  /\ spc' = "scan" /\ scur' = None /\ sown' = FALSE /\ speer' = None
  /\ UNCHANGED scan

senderFrame == <<rpc, rcur, rcomm, fate, disc, listening, ccur, life, sync, meta, stray>>

(* _request_scan_ids: what this sender can answer for.                      *)
RequestScanIds(held, markers) == held \cup markers

(* Top of the loop: markers past their retention are dropped, then the ids  *)
(* of the next pass are taken.  Which markers have expired is the clock's   *)
(* choice.                                                                  *)
SenderPoll ==
  /\ spc = "scan" /\ scan = {} /\ life = "open"
  /\ \E expired \in SUBSET released :
       /\ released' = released \ expired
       /\ scan' = RequestScanIds(pending, released')
  /\ UNCHANGED <<pending, claimed, comm, spc, scur, sown, speer, keyVars, senderFrame>>

(* The stop event is read once per pass.                                    *)
SenderExit ==
  /\ spc = "scan" /\ scan = {} /\ life # "open"
  /\ spc' = "exited"
  /\ UNCHANGED <<registryVars, scan, scur, sown, speer, keyVars, senderFrame>>

(* store.check on the request key of the next id: absent.                   *)
SenderSkip(t) ==
  /\ spc = "scan" /\ t \in scan /\ req[t] = None
  /\ scan' = scan \ {t}
  /\ UNCHANGED <<registryVars, spc, scur, sown, speer, keyVars, senderFrame>>

(* store.check on the request key of the next id: present.                  *)
SenderFind(t) ==
  /\ spc = "scan" /\ t \in scan /\ req[t] # None
  /\ scan' = scan \ {t} /\ spc' = "read" /\ scur' = t
  /\ UNCHANGED <<registryVars, sown, speer, keyVars, senderFrame>>

(* store.check sits outside the loop's try: an error there ends the thread. *)
SenderCheckFails ==
  /\ "store_error" \in Events
  /\ spc = "scan" /\ scan # {}
  /\ spc' = "exited" /\ scan' = {}
  /\ UNCHANGED <<registryVars, scur, sown, speer, keyVars, senderFrame>>

(* _read_request: the requester is learnt from the request payload.         *)
SenderReadRequest ==
  /\ spc = "read" /\ req[scur] # None
  /\ spc' = "claim" /\ speer' = req[scur]
  /\ UNCHANGED <<registryVars, scan, scur, sown, keyVars, senderFrame>>

(* _claim_transfer_snapshot: held -> claimed under the lock, or nothing.    *)
ClaimTransferSnapshot(t) ==
  IF comm # "cleared" /\ t \in pending
    THEN pending' = pending \ {t} /\ claimed' = claimed \cup {t} /\ sown' = TRUE
    ELSE UNCHANGED <<pending, claimed>> /\ sown' = FALSE

SenderClaim ==
  /\ spc = "claim"
  /\ ClaimTransferSnapshot(scur)
  /\ spc' = "cas"
  /\ UNCHANGED <<released, comm, scan, scur, speer, keyVars, senderFrame>>

(* Mutants of the two decisions below.                                       *)
VerdictWithoutTensors == "accepted"
VerdictMisnamed == IF sown THEN "accepted" ELSE "cancelled"

(* Outcome the sender tries for, decided by what the claim returned.        *)
Verdict == IF sown THEN "accepted" ELSE "missing"

(* Mutant: a plain set in place of the compare_set.                          *)
SenderDecidesBlindly ==
  /\ spc = "cas"
  /\ st' = [st EXCEPT ![scur] = Verdict]
  /\ spc' = "ack"
  /\ UNCHANGED <<registryVars, scan, scur, sown, speer, req, ack, senderFrame>>

(* _try_transition_state wins: the request leaves "requested".              *)
SenderDecides ==
  /\ spc = "cas" /\ st[scur] = "requested"
  /\ st' = [st EXCEPT ![scur] = Verdict]
  /\ spc' = "ack"
  /\ UNCHANGED <<registryVars, scan, scur, sown, speer, req, ack, senderFrame>>

(* Mutant: the claimed tensors of a cancelled request are forgotten.         *)
SenderSeesCancelKeepsClaim ==
  /\ spc = "cas" /\ st[scur] = "cancelled"
  /\ \E left \in SUBSET LeftKeys : DeleteRendezvousKeys(scur, left)
  /\ released' = released \ {scur}
  /\ BackToScan
  /\ UNCHANGED <<pending, claimed, comm, senderFrame>>

(* The receiver cancelled first: delete its keys, then drop the claimed     *)
(* tensors and the discard marker.                                          *)
SenderSeesCancel ==
  /\ spc = "cas" /\ st[scur] = "cancelled"
  /\ \E left \in SUBSET LeftKeys : DeleteRendezvousKeys(scur, left)
  /\ claimed' = claimed \ {scur} /\ released' = released \ {scur}
  /\ BackToScan
  /\ UNCHANGED <<pending, comm, senderFrame>>

(* Any exception of process_request: the loop drops the claimed tensors and  *)
(* logs.  It is raised when a store call fails, when the request vanished    *)
(* between check and read, and when compare_set answers with a state that    *)
(* is neither the desired one nor "cancelled" (an absent key answers         *)
(* "requested").                                                             *)
ProcessRequestRaises ==
  \/ spc \in {"read", "cas", "ack"} /\ "store_error" \in Events
  \/ spc = "read" /\ req[scur] = None
  \/ spc = "cas" /\ st[scur] \notin {"requested", "cancelled"}

SenderDropsRequest ==
  /\ ProcessRequestRaises
  /\ claimed' = claimed \ {scur}
  /\ BackToScan
  /\ UNCHANGED <<pending, released, comm, keyVars, senderFrame>>

(* _write_ack, one store.set.  After "missing" the discard marker has done   *)
(* its work and is dropped; after "accepted" the send follows at once.       *)
SenderWritesAck ==
  /\ spc = "ack"
  /\ ack' = [ack EXCEPT ![scur] = Verdict]
  /\ IF sown
       THEN spc' = "send" /\ UNCHANGED <<released, scan, scur, sown, speer>>
       ELSE released' = released \ {scur} /\ BackToScan
  /\ UNCHANGED <<pending, claimed, comm, req, st, senderFrame>>

(* _complete_claimed_transfer.                                               *)
SenderCompletes ==
  /\ spc = "complete"
  /\ claimed' = claimed \ {scur}
  /\ BackToScan
  /\ UNCHANGED <<pending, released, comm, keyVars, senderFrame>>

(* _handle_post_accept_send_failure: forget everything, clear comm_idx and   *)
(* abort.  A communicator close() has aborted makes the send raise.          *)
SenderSendFails ==
  /\ spc = "send" /\ (comm # "up" \/ "nccl_error" \in Events)
  /\ pending' = {} /\ claimed' = {} /\ released' = {}
  /\ comm' = "cleared"
  /\ BackToScan
  /\ UNCHANGED <<keyVars, senderFrame>>

SenderNext ==
  \/ SenderPoll \/ SenderExit
  \/ \E t \in Transfers : SenderSkip(t) \/ SenderFind(t)
  \/ SenderCheckFails \/ SenderReadRequest \/ SenderClaim \/ SenderDecides
  \/ SenderSeesCancel \/ SenderDropsRequest \/ SenderWritesAck
  \/ SenderCompletes \/ SenderSendFails
=============================================================================

---------------------------- MODULE NcclReceiver ----------------------------
(***************************************************************************)
(* The policy side of a transfer: _resolve_nccl_handle, the receiver half   *)
(* of AckRendezvous (request_ack) and NcclReceiver.recv.  Each policy rank  *)
(* reads one handle at a time, synchronously inside get_policy_input.       *)
(***************************************************************************)
EXTENDS NcclState

readerFrame == <<registryVars, loopVars, disc, cleanupVars, life, sync>>

Go(r, pc) == rpc' = [rpc EXCEPT ![r] = pc]

(* get_policy_input returns or raises: the rank is free for another handle.  *)
Leave(r, outcome) ==
  /\ fate' = [fate EXCEPT ![rcur[r]] = outcome]
  /\ rpc' = [rpc EXCEPT ![r] = "idle"] /\ rcur' = [rcur EXCEPT ![r] = None]

(* Mutant: a failed read leaves its manifest behind.                         *)
RaiseOnly(r) == Leave(r, "raised") /\ UNCHANGED <<meta, stray>>

(* recv raised: _resolve_nccl_handle deletes the manifest and re-raises; the *)
(* delete may raise in its place.                                            *)
RaiseAndDeleteManifest(r) ==
  /\ Leave(r, "raised")
  /\ \/ meta' = meta \ {rcur[r]} /\ UNCHANGED stray
     \/ "reader_error" \in Events /\ KeepManifest(rcur[r])

(* The manifest check at the top of _resolve_nccl_handle.  A weight-sync     *)
(* phase starts only after the policy is past get_policy_input and ends      *)
(* before the next one: what the transport README assumes of Cosmos.         *)
MayRead(r, t) == rpc[r] = "idle" /\ fate[t] = "queued" /\ sync \in {"off", "failed"}

ReadBegin(r, t) ==
  /\ MayRead(r, t) /\ t \in meta
  /\ fate' = [fate EXCEPT ![t] = "reading"]
  /\ Go(r, "manifest") /\ rcur' = [rcur EXCEPT ![r] = t]
  /\ UNCHANGED <<readerFrame, rcomm, meta, stray, keyVars>>

ReadNoManifest(r, t) ==
  /\ MayRead(r, t) /\ t \notin meta
  /\ fate' = [fate EXCEPT ![t] = "raised"]
  /\ UNCHANGED <<readerFrame, readerVars, meta, stray, keyVars>>

(* The check itself raises.                                                  *)
ReadCheckFails(r, t) ==
  /\ "reader_error" \in Events /\ MayRead(r, t)
  /\ fate' = [fate EXCEPT ![t] = "raised"]
  /\ KeepManifest(t)
  /\ UNCHANGED <<readerFrame, readerVars, keyVars>>

(* store.get of the manifest, then the communicator look-up of recv.         *)
ReadManifest(r) ==
  /\ rpc[r] = "manifest" /\ rcur[r] \in meta /\ rcomm[r]
  /\ Go(r, "publish")
  /\ UNCHANGED <<readerFrame, rcur, rcomm, fate, meta, stray, keyVars>>

(* No communicator for the rollout any more: recv raises before any          *)
(* rendezvous key exists.                                                    *)
ReadNoRoute(r) ==
  /\ rpc[r] = "manifest" /\ rcur[r] \in meta /\ ~rcomm[r]
  /\ RaiseAndDeleteManifest(r)
  /\ UNCHANGED <<readerFrame, rcomm, keyVars>>

(* store.get raises: cleanup deleted the manifest after the check and the    *)
(* store timeout runs out, or the store fails.                               *)
ReadManifestFails(r) ==
  /\ rpc[r] = "manifest" /\ (rcur[r] \notin meta \/ "reader_error" \in Events)
  /\ Leave(r, "raised") /\ KeepManifest(rcur[r])
  /\ UNCHANGED <<readerFrame, rcomm, keyVars>>

(* _publish_request: the state first, then the request the sender looks for. *)
PublishState(r) ==
  /\ rpc[r] = "publish"
  /\ st' = [st EXCEPT ![rcur[r]] = "requested"]
  /\ Go(r, "request")
  /\ UNCHANGED <<readerFrame, rcur, rcomm, fate, meta, stray, req, ack>>

PublishRequest(r) ==
  /\ rpc[r] = "request"
  /\ req' = [req EXCEPT ![rcur[r]] = r]
  /\ Go(r, "wait")
  /\ UNCHANGED <<readerFrame, rcur, rcomm, fate, meta, stray, st, ack>>

(* Mutant: an ACK that lands after the first budget is not looked for.       *)
AckLandsFirstBudget(r) ==
  /\ rpc[r] = "wait" /\ ack[rcur[r]] # "absent"
  /\ Go(r, "answer")
  /\ UNCHANGED <<readerFrame, rcur, rcomm, fate, meta, stray, keyVars>>

(* store.wait on the ACK key returns, within the first or second budget.     *)
AckLands(r) ==
  /\ rpc[r] \in {"wait", "grace"} /\ ack[rcur[r]] # "absent"
  /\ Go(r, "answer")
  /\ UNCHANGED <<readerFrame, rcur, rcomm, fate, meta, stray, keyVars>>

(* The first budget runs out.  A store error is a RuntimeError too, and is   *)
(* taken for the timeout wherever the ACK is.                                *)
AckTimeout(r) ==
  /\ rpc[r] = "wait" /\ (ack[rcur[r]] = "absent" \/ "reader_error" \in Events)
  /\ Go(r, "cancel")
  /\ UNCHANGED <<readerFrame, rcur, rcomm, fate, meta, stray, keyVars>>

(* Mutant: cancel with a plain set.                                          *)
CancelBlindly(r) ==
  /\ rpc[r] = "cancel"
  /\ st' = [st EXCEPT ![rcur[r]] = "cancelled"]
  /\ RaiseAndDeleteManifest(r)
  /\ UNCHANGED <<readerFrame, rcomm, req, ack>>

(* _cancel_unaccepted_request wins: no_ack is raised and the keys are left   *)
(* for the sender to delete.                                                 *)
CancelWins(r) ==
  /\ rpc[r] = "cancel" /\ st[rcur[r]] = "requested"
  /\ st' = [st EXCEPT ![rcur[r]] = "cancelled"]
  /\ RaiseAndDeleteManifest(r)
  /\ UNCHANGED <<readerFrame, rcomm, req, ack>>

(* Mutant: the lost race is retried from the first wait.                     *)
CancelLosesRetries(r) ==
  /\ rpc[r] = "cancel" /\ st[rcur[r]] # "requested"
  /\ Go(r, "wait")
  /\ UNCHANGED <<readerFrame, rcur, rcomm, fate, meta, stray, keyVars>>

(* The sender decided first: wait for its ACK a second full budget.          *)
CancelLoses(r) ==
  /\ rpc[r] = "cancel" /\ st[rcur[r]] # "requested"
  /\ Go(r, "grace")
  /\ UNCHANGED <<readerFrame, rcur, rcomm, fate, meta, stray, keyVars>>

(* The sender thread still owes this transfer its ACK.                       *)
AckOnItsWay(t) == spc = "ack" /\ scur = t

(* The second budget runs out, or the second wait raises.  Unless "late_ack" *)
(* is admitted it runs out only when no ACK is coming.                       *)
GraceTimeout(r) ==
  /\ rpc[r] = "grace"
  /\ \/ "reader_error" \in Events
     \/ ack[rcur[r]] = "absent" /\ ("late_ack" \in Events \/ ~AckOnItsWay(rcur[r]))
  /\ \E left \in SUBSET LeftKeys : DeleteRendezvousKeys(rcur[r], left)
  /\ RaiseAndDeleteManifest(r)
  /\ UNCHANGED <<readerFrame, rcomm>>

(* Mutant: an accepted request leaves its keys behind.                       *)
TakeAcceptedKeepsKeys(r) ==
  /\ rpc[r] = "answer" /\ ack[rcur[r]] = "accepted"
  /\ Go(r, "recv")
  /\ UNCHANGED <<readerFrame, rcur, rcomm, fate, meta, stray, keyVars>>

(* The ACK is read and the three keys are deleted.                           *)
TakeAccepted(r) ==
  /\ rpc[r] = "answer" /\ ack[rcur[r]] = "accepted"
  /\ \E left \in SUBSET LeftKeys :
       /\ DeleteRendezvousKeys(rcur[r], left)
       /\ stray' = IF left = {} THEN stray ELSE stray \cup {rcur[r]}
  /\ Go(r, "recv")
  /\ UNCHANGED <<readerFrame, rcur, rcomm, fate, meta>>

(* The ACK says "missing", or its store.get raises: the keys go either way.  *)
TakeMissing(r) ==
  /\ rpc[r] = "answer" /\ (ack[rcur[r]] = "missing" \/ "reader_error" \in Events)
  /\ \E left \in SUBSET LeftKeys : DeleteRendezvousKeys(rcur[r], left)
  /\ RaiseAndDeleteManifest(r)
  /\ UNCHANGED <<readerFrame, rcomm>>

(* A store.set of _publish_request, or the compare_set of the cancel,        *)
(* raises: the error leaves request_ack with the keys as they stand.         *)
ReaderStoreFails(r) ==
  /\ "reader_error" \in Events
  /\ rpc[r] \in {"publish", "request", "cancel"}
  /\ RaiseAndDeleteManifest(r)
  /\ UNCHANGED <<readerFrame, rcomm, keyVars>>

(* The sender is committed to this read and its communicator is alive.       *)
Served(r) == comm = "up" /\ spc \in {"ack", "send"} /\ scur = rcur[r]

(* nccl_recv raises or the watchdog fires: abort and forget the route.       *)
RecvFails(r) ==
  /\ rpc[r] = "recv"
  /\ "nccl_error" \in Events \/ ~Served(r)
  /\ rcomm' = [rcomm EXCEPT ![r] = FALSE]
  /\ RaiseAndDeleteManifest(r)
  /\ UNCHANGED <<readerFrame, keyVars>>

(* All tensors arrived: delete the manifest, unpack, hand the episode on.    *)
ReadDone(r) ==
  /\ rpc[r] = "unpack"
  /\ Leave(r, "got")
  /\ meta' = meta \ {rcur[r]}
  /\ UNCHANGED <<readerFrame, rcomm, stray, keyVars>>

(* The delete raises: the tensors have arrived, and nobody gets the episode. *)
ReadIsWasted(r) ==
  /\ "reader_error" \in Events /\ rpc[r] = "unpack"
  /\ Leave(r, "wasted") /\ KeepManifest(rcur[r])
  /\ UNCHANGED <<readerFrame, rcomm, keyVars>>

ReaderStep(r) ==
  \/ ReadManifest(r) \/ ReadNoRoute(r) \/ ReadManifestFails(r)
  \/ PublishState(r) \/ PublishRequest(r)
  \/ AckLands(r) \/ AckTimeout(r) \/ CancelWins(r) \/ CancelLoses(r)
  \/ GraceTimeout(r) \/ TakeAccepted(r) \/ TakeMissing(r)
  \/ ReaderStoreFails(r) \/ RecvFails(r) \/ ReadDone(r) \/ ReadIsWasted(r)

ReceiverNext ==
  \E r \in Receivers :
    \/ \E t \in Transfers : ReadBegin(r, t) \/ ReadNoManifest(r, t) \/ ReadCheckFails(r, t)
    \/ ReaderStep(r)
=============================================================================

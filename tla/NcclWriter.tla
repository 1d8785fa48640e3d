----------------------------- MODULE NcclWriter -----------------------------
(***************************************************************************)
(* The rollout-side egress NcclEpisodeWriter: write, release, the discard-  *)
(* cleanup subscriber, the flush before a weight sync and close; with the   *)
(* controller and trainer decisions that reach it from outside.             *)
(***************************************************************************)
EXTENDS NcclState

writerFrame == <<loopVars, keyVars, readerVars>>

Writing == \E t \in Transfers : fate[t] = "writing"

(* Mutant: off by one at the registry limit.                                 *)
RegistryHasRoomOffByOne(held) == MaxPending = 0 \/ Cardinality(held) <= MaxPending

(* max_pending_transfers refuses a new payload rather than evict a live one. *)
RegistryHasRoom(held) == MaxPending = 0 \/ Cardinality(held) < MaxPending

(* write(): NcclSender.send registers the tensors under the lock.  Episodes  *)
(* are written one after the other by the rollout thread, which has stopped  *)
(* before the packer is closed.                                              *)
WriteRegister(t) ==
  /\ life = "open" /\ fate[t] = "unborn" /\ ~Writing
  /\ comm # "cleared" /\ RegistryHasRoom(pending)
  /\ pending' = pending \cup {t} /\ released' = released \ {t}
  /\ fate' = [fate EXCEPT ![t] = "writing"]
  /\ UNCHANGED <<writerFrame, claimed, comm, meta, stray, disc, cleanupVars, life, sync>>

(* send() raises: no communicator, or the registry is full.                  *)
WriteRefused(t) ==
  /\ life = "open" /\ fate[t] = "unborn" /\ ~Writing
  /\ comm = "cleared" \/ ~RegistryHasRoom(pending)
  /\ fate' = [fate EXCEPT ![t] = "unsent"]
  /\ UNCHANGED <<writerFrame, registryVars, meta, stray, disc, cleanupVars, life, sync>>

(* The manifest is published and the handle handed to Cosmos.                *)
WritePublish(t) ==
  /\ fate[t] = "writing"
  /\ meta' = meta \cup {t}
  /\ fate' = [fate EXCEPT ![t] = "queued"]
  /\ UNCHANGED <<writerFrame, registryVars, stray, disc, cleanupVars, life, sync>>

(* The publish raises: release(reason="metadata_publish_error"), no marker.  *)
WritePublishFails(t) ==
  /\ "publish_error" \in Events
  /\ fate[t] = "writing"
  /\ pending' = pending \ {t}
  /\ fate' = [fate EXCEPT ![t] = "unsent"]
  /\ UNCHANGED <<writerFrame, claimed, released, comm, meta, stray, disc, cleanupVars>>
  /\ UNCHANGED <<life, sync>>

(* External: Cosmos discards an outdated rollout or clears its buffer, and   *)
(* publishes cleanup once for the handle.  The read may have begun.          *)
Discard(t) ==
  /\ "discard" \in Events
  /\ fate[t] \in {"queued", "reading"} /\ disc[t] = "no"
  /\ disc' = [disc EXCEPT ![t] = "sent"]
  /\ UNCHANGED <<writerFrame, registryVars, meta, stray, fate, cleanupVars, life, sync>>

(* filter_trainable_rollouts drops the excess: the completion is unlinked as *)
(* if it were a file, which an nccl: handle is not.                          *)
TrainerDrop(t) ==
  /\ "trainer_drop" \in Events
  /\ fate[t] = "queued"
  /\ fate' = [fate EXCEPT ![t] = "filtered"]
  /\ UNCHANGED <<writerFrame, registryVars, meta, stray, disc, cleanupVars, life, sync>>

(* Mutant: release frees the tensors but not the manifest.                   *)
CleanupKeepsManifest(t) ==
  /\ listening /\ ccur = None /\ disc[t] = "sent"
  /\ ccur' = t
  /\ UNCHANGED <<writerFrame, registryVars, meta, stray, fate, disc, listening, life, sync>>

(* _process_cleanup_message -> release: the manifest goes first, or stays    *)
(* when the delete raises, which is swallowed ...                            *)
CleanupDeletesManifest(t) ==
  /\ listening /\ ccur = None /\ disc[t] = "sent"
  /\ ccur' = t
  /\ \/ meta' = meta \ {t} /\ UNCHANGED stray
     \/ "cleanup_error" \in Events /\ KeepManifest(t)
  /\ UNCHANGED <<writerFrame, registryVars, fate, disc, listening, life, sync>>

(* Mutant: a discard revokes a claimed transfer too.                         *)
ReleaseRevokesClaim(t) ==
  IF t \in pending \cup claimed
    THEN pending' = pending \ {t} /\ released' = released \cup {t}
    ELSE UNCHANGED <<pending, released>>

(* ... then NcclSender.release, under the lock: held tensors become a        *)
(* marker, anything else is left alone.                                      *)
ReleaseTransfer(t) ==
  IF t \in pending
    THEN pending' = pending \ {t} /\ released' = released \cup {t}
    ELSE UNCHANGED <<pending, released>>

CleanupReleases ==
  /\ ccur # None
  /\ ReleaseTransfer(ccur)
  /\ disc' = [disc EXCEPT ![ccur] = "done"] /\ ccur' = None
  /\ UNCHANGED <<writerFrame, claimed, comm, meta, stray, fate, listening, life, sync>>

(* _run_cleanup_listener breaks out of its loop on a Redis error.            *)
CleanupDies ==
  /\ "redis_error" \in Events
  /\ listening /\ ccur = None
  /\ listening' = FALSE
  /\ UNCHANGED <<writerFrame, registryVars, meta, stray, fate, disc, ccur, life, sync>>

(* close(): stop the subscriber, then set the sender's stop event.  It runs  *)
(* at process exit, with neither a write nor a weight sync in progress.      *)
CloseBegin ==
  /\ "close" \in Events
  /\ life = "open" /\ ~Writing /\ sync \in {"off", "failed"}
  /\ life' = "stopping" /\ listening' = FALSE
  /\ UNCHANGED <<writerFrame, registryVars, meta, stray, fate, disc, ccur, sync>>

(* The join returned or timed out: clear the registry, abort if comm_idx is  *)
(* set (it stays set).                                                       *)
CloseFinish ==
  /\ life = "stopping"
  /\ spc = "exited" \/ "slow_join" \in Events
  /\ pending' = {} /\ claimed' = {} /\ released' = {}
  /\ comm' = IF comm = "up" THEN "aborted" ELSE comm
  /\ life' = "closed"
  /\ UNCHANGED <<writerFrame, meta, stray, fate, disc, cleanupVars, sync>>

(* External: a weight-sync phase begins with every policy rank out of        *)
(* get_policy_input.                                                         *)
SyncBegin ==
  /\ "weight_sync" \in Events
  /\ life = "open" /\ sync = "off" /\ \A r \in Receivers : rpc[r] = "idle"
  /\ sync' = "drain"
  /\ UNCHANGED <<writerFrame, registryVars, meta, stray, fate, disc, cleanupVars, life>>

(* Mutant: drained means nothing held.                                       *)
DrainedOfHeld == pending = {}

(* wait_until_drained looks at the claimed sends alone.                      *)
Drained == claimed = {}

(* flush_pending_sends returns and Cosmos starts the R2R broadcast.          *)
FlushReturns ==
  /\ sync = "drain" /\ Drained
  /\ sync' = "broadcast"
  /\ UNCHANGED <<writerFrame, registryVars, meta, stray, fate, disc, cleanupVars, life>>

(* The deadline passes first: TimeoutError, no broadcast.                    *)
FlushTimesOut ==
  /\ sync = "drain" /\ ~Drained
  /\ sync' = "failed"
  /\ UNCHANGED <<writerFrame, registryVars, meta, stray, fate, disc, cleanupVars, life>>

SyncEnd ==
  /\ sync = "broadcast"
  /\ sync' = "off"
  /\ UNCHANGED <<writerFrame, registryVars, meta, stray, fate, disc, cleanupVars, life>>

WriterNext ==
  \/ \E t \in Transfers :
       \/ WriteRegister(t) \/ WriteRefused(t) \/ WritePublish(t) \/ WritePublishFails(t)
       \/ Discard(t) \/ TrainerDrop(t) \/ CleanupDeletesManifest(t)
  \/ CleanupReleases \/ CleanupDies \/ CloseBegin \/ CloseFinish
  \/ SyncBegin \/ FlushReturns \/ FlushTimesOut \/ SyncEnd
=============================================================================

----------------------------- MODULE NcclProofs -----------------------------
(***************************************************************************)
(* Proofs about the NCCL transport.                                        *)
(*                                                                         *)
(* The sender's memory: OwnershipInv is inductive whatever the environment *)
(* does, hence type correctness, exclusive ownership and the clean-up of a *)
(* failed sender hold for any number of transfers and readers. Three lemmas*)
(* per process: it keeps the types, it keeps what the registry and the loop*)
(* agree on, it keeps Born. The readers touch neither the registry nor the *)
(* loop, so the second is a frame argument for them. Then the bound on     *)
(* retained tensors: the registry grows only past the capacity check of    *)
(* write, and ownership leaves at most one transfer in the hands of the    *)
(* sender loop.                                                            *)
(*                                                                         *)
(* The rendezvous: RendezvousInv is inductive whatever the environment does,*)
(* hence payloads match, reads are one-shot, manifests are backed and a    *)
(* decision is final. One lemma per process and per part of the invariant. *)
(* Its hypotheses are the parts it needs; actions that are all alike to the*)
(* part share a step.                                                      *)
(***************************************************************************)
EXTENDS NcclInvariant, FiniteSetTheorems, TLAPS

-----------------------------------------------------------------------------
(* The sender's memory                                                      *)

(* None is neither a transfer nor a reader.                                 *)
LEMMA NoneIsNobody == None \notin Transfers /\ None \notin Receivers
  BY TransportAssumption DEF TransportAssumption

(* The initial state satisfies the ownership invariant: nothing registered, *)
(* nothing in the store, every thread at its start (sender.py:106-112).      *)
LEMMA OwnershipInit == Init => OwnershipInv
<1> SUFFICES ASSUME Init PROVE OwnershipInv
  OBVIOUS
<1>1. TypeOK
  BY DEF Init, TypeOK, RegistryTypeOK, LoopTypeOK, StoreTypeOK, ReaderTypeOK,
      HandleTypeOK, ClockTypeOK, SenderPcs, ReaderPcs, Fates, RendezvousStates,
      AckStatuses
<1>2. LoopOK /\ ExclusiveOwnership /\ FailedSenderHoldsNothing
  BY DEF Init, LoopOK, ExclusiveOwnership, FailedSenderHoldsNothing
<1>3. Born
  BY NoneIsNobody DEF Init, Born
<1> QED
  BY <1>1, <1>2, <1>3 DEF OwnershipInv, MemoryOK

(* The sender loop keeps the types.                                         *)
LEMMA SenderKeepsTypes ==
  TypeOK /\ LoopOK /\ SenderNext => TypeOK'
<1> SUFFICES ASSUME TypeOK, LoopOK, SenderNext PROVE TypeOK'
  OBVIOUS
<1> USE DEF TypeOK, senderFrame, registryVars, loopVars, keyVars, readerVars, cleanupVars
<1>1. CASE SenderPoll
  <2>1. RegistryTypeOK'
    BY <1>1 DEF SenderPoll, RequestScanIds, RegistryTypeOK
  <2>2. LoopTypeOK'
    BY <1>1 DEF SenderPoll, RequestScanIds, LoopTypeOK, RegistryTypeOK, SenderPcs
  <2> QED
    BY <1>1, <2>1, <2>2 DEF SenderPoll, RequestScanIds, StoreTypeOK, ReaderTypeOK,
        HandleTypeOK, ClockTypeOK
<1>2. CASE SenderExit
  <2>1. LoopTypeOK'
    BY <1>2 DEF SenderExit, LoopTypeOK, SenderPcs
  <2> QED
    BY <1>2, <2>1 DEF SenderExit, RegistryTypeOK, StoreTypeOK, ReaderTypeOK, HandleTypeOK,
        ClockTypeOK
<1>3. ASSUME NEW t \in Transfers, SenderSkip(t) PROVE TypeOK'
  <2>1. LoopTypeOK'
    BY <1>3 DEF SenderSkip, LoopTypeOK, SenderPcs
  <2> QED
    BY <1>3, <2>1 DEF SenderSkip, RegistryTypeOK, StoreTypeOK, ReaderTypeOK, HandleTypeOK,
        ClockTypeOK
<1>4. ASSUME NEW t \in Transfers, SenderFind(t) PROVE TypeOK'
  <2>1. LoopTypeOK'
    BY <1>4 DEF SenderFind, LoopTypeOK, SenderPcs
  <2> QED
    BY <1>4, <2>1 DEF SenderFind, RegistryTypeOK, StoreTypeOK, ReaderTypeOK, HandleTypeOK,
        ClockTypeOK
<1>5. CASE SenderCheckFails
  <2>1. LoopTypeOK'
    BY <1>5 DEF SenderCheckFails, LoopTypeOK, SenderPcs
  <2> QED
    BY <1>5, <2>1 DEF SenderCheckFails, RegistryTypeOK, StoreTypeOK, ReaderTypeOK,
        HandleTypeOK, ClockTypeOK
<1>6. CASE SenderReadRequest
  <2>1. LoopTypeOK'
    BY <1>6 DEF SenderReadRequest, LoopTypeOK, StoreTypeOK, LoopOK, SenderPcs
  <2> QED
    BY <1>6, <2>1 DEF SenderReadRequest, RegistryTypeOK, StoreTypeOK, ReaderTypeOK,
        HandleTypeOK, ClockTypeOK
<1>7. CASE SenderClaim
  <2>1. RegistryTypeOK'
    BY <1>7 DEF SenderClaim, ClaimTransferSnapshot, RegistryTypeOK
  <2>2. LoopTypeOK'
    BY <1>7 DEF SenderClaim, ClaimTransferSnapshot, LoopTypeOK, SenderPcs
  <2> QED
    BY <1>7, <2>1, <2>2 DEF SenderClaim, ClaimTransferSnapshot, StoreTypeOK, ReaderTypeOK,
        HandleTypeOK, ClockTypeOK
<1>8. CASE SenderDecides
  <2>1. LoopTypeOK'
    BY <1>8 DEF SenderDecides, Verdict, LoopTypeOK, SenderPcs
  <2>2. StoreTypeOK'
    BY <1>8 DEF SenderDecides, Verdict, StoreTypeOK, RendezvousStates, AckStatuses
  <2> QED
    BY <1>8, <2>1, <2>2 DEF SenderDecides, Verdict, RegistryTypeOK, ReaderTypeOK,
        HandleTypeOK, ClockTypeOK
<1>9. CASE SenderSeesCancel
  <2>1. RegistryTypeOK'
    BY <1>9 DEF SenderSeesCancel, BackToScan, DeleteRendezvousKeys, RegistryTypeOK
  <2>2. LoopTypeOK'
    BY <1>9 DEF SenderSeesCancel, BackToScan, DeleteRendezvousKeys, LoopTypeOK, SenderPcs
  <2>3. StoreTypeOK'
    BY <1>9 DEF SenderSeesCancel, BackToScan, DeleteRendezvousKeys, StoreTypeOK,
        RendezvousStates, AckStatuses
  <2> QED
    BY <1>9, <2>1, <2>2, <2>3 DEF SenderSeesCancel, BackToScan, DeleteRendezvousKeys,
        ReaderTypeOK, HandleTypeOK, ClockTypeOK
<1>10. CASE SenderDropsRequest
  <2>1. RegistryTypeOK'
    BY <1>10 DEF SenderDropsRequest, BackToScan, RegistryTypeOK
  <2>2. LoopTypeOK'
    BY <1>10 DEF SenderDropsRequest, BackToScan, LoopTypeOK, SenderPcs
  <2> QED
    BY <1>10, <2>1, <2>2 DEF SenderDropsRequest, BackToScan, StoreTypeOK, ReaderTypeOK,
        HandleTypeOK, ClockTypeOK
<1>11. CASE SenderWritesAck
  <2>1. RegistryTypeOK'
    BY <1>11 DEF SenderWritesAck, Verdict, BackToScan, RegistryTypeOK
  <2>2. LoopTypeOK'
    BY <1>11 DEF SenderWritesAck, Verdict, BackToScan, LoopTypeOK, SenderPcs
  <2>3. StoreTypeOK'
    BY <1>11 DEF SenderWritesAck, Verdict, BackToScan, StoreTypeOK, RendezvousStates,
        AckStatuses
  <2> QED
    BY <1>11, <2>1, <2>2, <2>3 DEF SenderWritesAck, Verdict, BackToScan, ReaderTypeOK,
        HandleTypeOK, ClockTypeOK
<1>12. CASE SenderCompletes
  <2>1. RegistryTypeOK'
    BY <1>12 DEF SenderCompletes, BackToScan, RegistryTypeOK
  <2>2. LoopTypeOK'
    BY <1>12 DEF SenderCompletes, BackToScan, LoopTypeOK, SenderPcs
  <2> QED
    BY <1>12, <2>1, <2>2 DEF SenderCompletes, BackToScan, StoreTypeOK, ReaderTypeOK,
        HandleTypeOK, ClockTypeOK
<1>13. CASE SenderSendFails
  <2>1. RegistryTypeOK'
    BY <1>13 DEF SenderSendFails, BackToScan, RegistryTypeOK
  <2>2. LoopTypeOK'
    BY <1>13 DEF SenderSendFails, BackToScan, LoopTypeOK, SenderPcs
  <2> QED
    BY <1>13, <2>1, <2>2 DEF SenderSendFails, BackToScan, StoreTypeOK, ReaderTypeOK,
        HandleTypeOK, ClockTypeOK
<1> QED
  BY <1>1, <1>2, <1>3, <1>4, <1>5, <1>6, <1>7, <1>8, <1>9, <1>10, <1>11, <1>12, <1>13 DEF
      SenderNext

(* So do the readers ...                                                    *)
LEMMA ReceiverKeepsTypes ==
  TypeOK /\ ReceiverNext => TypeOK'
<1> SUFFICES ASSUME TypeOK, ReceiverNext PROVE TypeOK'
  OBVIOUS
<1> USE DEF TypeOK, readerFrame, registryVars, loopVars, keyVars, readerVars, cleanupVars
<1>1. ASSUME NEW r \in Receivers, NEW t \in Transfers, ReadBegin(r, t) PROVE TypeOK'
  <2>1. ReaderTypeOK'
    BY <1>1, NoneIsNobody DEF ReadBegin, MayRead, Go, ReaderTypeOK, ReaderPcs
  <2>2. HandleTypeOK'
    BY <1>1 DEF ReadBegin, MayRead, Go, HandleTypeOK, Fates
  <2> QED
    BY <1>1, <2>1, <2>2 DEF ReadBegin, MayRead, Go, RegistryTypeOK, LoopTypeOK,
        StoreTypeOK, ClockTypeOK
<1>2. ASSUME NEW r \in Receivers, NEW t \in Transfers,
           ReadNoManifest(r, t) \/ ReadCheckFails(r, t) PROVE TypeOK'
  <2>1. HandleTypeOK'
    BY <1>2 DEF ReadNoManifest, ReadCheckFails, KeepManifest, MayRead, HandleTypeOK, Fates
  <2> QED
    BY <1>2, <2>1 DEF ReadNoManifest, ReadCheckFails, KeepManifest, MayRead,
        RegistryTypeOK, LoopTypeOK, StoreTypeOK, ReaderTypeOK, ClockTypeOK
<1>3. ASSUME NEW r \in Receivers, ReadManifest(r) PROVE TypeOK'
  <2>1. ReaderTypeOK'
    BY <1>3 DEF ReadManifest, Go, ReaderTypeOK, ReaderPcs
  <2> QED
    BY <1>3, <2>1 DEF ReadManifest, Go, RegistryTypeOK, LoopTypeOK, StoreTypeOK,
        HandleTypeOK, ClockTypeOK
<1>4. ASSUME NEW r \in Receivers, ReadNoRoute(r) PROVE TypeOK'
  <2>1. StoreTypeOK'
    BY <1>4 DEF ReadNoRoute, RaiseAndDeleteManifest, KeepManifest, Leave, StoreTypeOK,
        RendezvousStates, AckStatuses
  <2>2. ReaderTypeOK'
    BY <1>4 DEF ReadNoRoute, RaiseAndDeleteManifest, KeepManifest, Leave, ReaderTypeOK,
        ReaderPcs
  <2>3. HandleTypeOK'
    BY <1>4 DEF ReadNoRoute, RaiseAndDeleteManifest, KeepManifest, Leave, HandleTypeOK,
        Fates
  <2> QED
    BY <1>4, <2>1, <2>2, <2>3 DEF ReadNoRoute, RaiseAndDeleteManifest, KeepManifest, Leave,
        RegistryTypeOK, LoopTypeOK, ClockTypeOK
<1>5. ASSUME NEW r \in Receivers, ReadManifestFails(r) PROVE TypeOK'
  <2>1. ReaderTypeOK'
    BY <1>5 DEF ReadManifestFails, KeepManifest, Leave, ReaderTypeOK, ReaderPcs
  <2>2. HandleTypeOK'
    BY <1>5 DEF ReadManifestFails, KeepManifest, Leave, HandleTypeOK, Fates
  <2> QED
    BY <1>5, <2>1, <2>2 DEF ReadManifestFails, KeepManifest, Leave, RegistryTypeOK,
        LoopTypeOK, StoreTypeOK, ClockTypeOK
<1>6. ASSUME NEW r \in Receivers, PublishState(r) PROVE TypeOK'
  <2>1. StoreTypeOK'
    BY <1>6 DEF PublishState, Go, StoreTypeOK, RendezvousStates, AckStatuses
  <2>2. ReaderTypeOK'
    BY <1>6 DEF PublishState, Go, ReaderTypeOK, ReaderPcs
  <2> QED
    BY <1>6, <2>1, <2>2 DEF PublishState, Go, RegistryTypeOK, LoopTypeOK, HandleTypeOK,
        ClockTypeOK
<1>7. ASSUME NEW r \in Receivers, PublishRequest(r) PROVE TypeOK'
  <2>1. StoreTypeOK'
    BY <1>7 DEF PublishRequest, Go, StoreTypeOK, RendezvousStates, AckStatuses
  <2>2. ReaderTypeOK'
    BY <1>7 DEF PublishRequest, Go, ReaderTypeOK, ReaderPcs
  <2> QED
    BY <1>7, <2>1, <2>2 DEF PublishRequest, Go, RegistryTypeOK, LoopTypeOK, HandleTypeOK,
        ClockTypeOK
<1>8. ASSUME NEW r \in Receivers, AckLands(r) PROVE TypeOK'
  <2>1. ReaderTypeOK'
    BY <1>8 DEF AckLands, Go, ReaderTypeOK, ReaderPcs
  <2> QED
    BY <1>8, <2>1 DEF AckLands, Go, RegistryTypeOK, LoopTypeOK, StoreTypeOK, HandleTypeOK,
        ClockTypeOK
<1>9. ASSUME NEW r \in Receivers, AckTimeout(r) PROVE TypeOK'
  <2>1. ReaderTypeOK'
    BY <1>9 DEF AckTimeout, Go, ReaderTypeOK, ReaderPcs
  <2> QED
    BY <1>9, <2>1 DEF AckTimeout, Go, RegistryTypeOK, LoopTypeOK, StoreTypeOK,
        HandleTypeOK, ClockTypeOK
<1>10. ASSUME NEW r \in Receivers, CancelWins(r) PROVE TypeOK'
  <2>1. StoreTypeOK'
    BY <1>10 DEF CancelWins, RaiseAndDeleteManifest, KeepManifest, Leave, StoreTypeOK,
        RendezvousStates, AckStatuses
  <2>2. ReaderTypeOK'
    BY <1>10 DEF CancelWins, RaiseAndDeleteManifest, KeepManifest, Leave, ReaderTypeOK,
        ReaderPcs
  <2>3. HandleTypeOK'
    BY <1>10 DEF CancelWins, RaiseAndDeleteManifest, KeepManifest, Leave, HandleTypeOK,
        Fates
  <2> QED
    BY <1>10, <2>1, <2>2, <2>3 DEF CancelWins, RaiseAndDeleteManifest, KeepManifest, Leave,
        RegistryTypeOK, LoopTypeOK, ClockTypeOK
<1>11. ASSUME NEW r \in Receivers, CancelLoses(r) PROVE TypeOK'
  <2>1. ReaderTypeOK'
    BY <1>11 DEF CancelLoses, Go, ReaderTypeOK, ReaderPcs
  <2> QED
    BY <1>11, <2>1 DEF CancelLoses, Go, RegistryTypeOK, LoopTypeOK, StoreTypeOK,
        HandleTypeOK, ClockTypeOK
<1>12. ASSUME NEW r \in Receivers, GraceTimeout(r) PROVE TypeOK'
  <2>1. StoreTypeOK'
    BY <1>12 DEF GraceTimeout, RaiseAndDeleteManifest, KeepManifest, Leave,
        DeleteRendezvousKeys, StoreTypeOK, RendezvousStates, AckStatuses
  <2>2. ReaderTypeOK'
    BY <1>12 DEF GraceTimeout, RaiseAndDeleteManifest, KeepManifest, Leave,
        DeleteRendezvousKeys, ReaderTypeOK, ReaderPcs
  <2>3. HandleTypeOK'
    BY <1>12 DEF GraceTimeout, RaiseAndDeleteManifest, KeepManifest, Leave,
        DeleteRendezvousKeys, HandleTypeOK, Fates
  <2> QED
    BY <1>12, <2>1, <2>2, <2>3 DEF GraceTimeout, RaiseAndDeleteManifest, KeepManifest,
        Leave, DeleteRendezvousKeys, RegistryTypeOK, LoopTypeOK, ClockTypeOK
<1>13. ASSUME NEW r \in Receivers, TakeAccepted(r) PROVE TypeOK'
  <2>1. StoreTypeOK'
    <3>1. rcur[r] \in Transfers
      BY <1>13 DEF TakeAccepted, ReaderTypeOK
    <3>2. PICK left \in SUBSET LeftKeys :
            /\ DeleteRendezvousKeys(rcur[r], left)
            /\ stray' = IF left = {} THEN stray ELSE stray \cup {rcur[r]}
      BY <1>13 DEF TakeAccepted
    <3>3. stray' \subseteq Transfers
      BY <3>1, <3>2 DEF StoreTypeOK
    <3> QED
      BY <1>13, <3>2, <3>3 DEF TakeAccepted, DeleteRendezvousKeys, StoreTypeOK,
          RendezvousStates, AckStatuses
  <2>2. ReaderTypeOK'
    BY <1>13 DEF TakeAccepted, Go, DeleteRendezvousKeys, ReaderTypeOK, ReaderPcs
  <2> QED
    BY <1>13, <2>1, <2>2 DEF TakeAccepted, Go, DeleteRendezvousKeys, RegistryTypeOK,
        LoopTypeOK, HandleTypeOK, ClockTypeOK
<1>14. ASSUME NEW r \in Receivers, TakeMissing(r) PROVE TypeOK'
  <2>1. StoreTypeOK'
    BY <1>14 DEF TakeMissing, RaiseAndDeleteManifest, KeepManifest, Leave,
        DeleteRendezvousKeys, StoreTypeOK, RendezvousStates, AckStatuses
  <2>2. ReaderTypeOK'
    BY <1>14 DEF TakeMissing, RaiseAndDeleteManifest, KeepManifest, Leave,
        DeleteRendezvousKeys, ReaderTypeOK, ReaderPcs
  <2>3. HandleTypeOK'
    BY <1>14 DEF TakeMissing, RaiseAndDeleteManifest, KeepManifest, Leave,
        DeleteRendezvousKeys, HandleTypeOK, Fates
  <2> QED
    BY <1>14, <2>1, <2>2, <2>3 DEF TakeMissing, RaiseAndDeleteManifest, KeepManifest, Leave,
        DeleteRendezvousKeys, RegistryTypeOK, LoopTypeOK, ClockTypeOK
<1>15. ASSUME NEW r \in Receivers, ReaderStoreFails(r) PROVE TypeOK'
  <2>1. StoreTypeOK'
    BY <1>15 DEF ReaderStoreFails, RaiseAndDeleteManifest, KeepManifest, Leave, StoreTypeOK,
        RendezvousStates, AckStatuses
  <2>2. ReaderTypeOK'
    BY <1>15 DEF ReaderStoreFails, RaiseAndDeleteManifest, KeepManifest, Leave,
        ReaderTypeOK, ReaderPcs
  <2>3. HandleTypeOK'
    BY <1>15 DEF ReaderStoreFails, RaiseAndDeleteManifest, KeepManifest, Leave,
        HandleTypeOK, Fates
  <2> QED
    BY <1>15, <2>1, <2>2, <2>3 DEF ReaderStoreFails, RaiseAndDeleteManifest, KeepManifest,
        Leave, RegistryTypeOK, LoopTypeOK, ClockTypeOK
<1>16. ASSUME NEW r \in Receivers, RecvFails(r) PROVE TypeOK'
  <2>1. StoreTypeOK'
    BY <1>16 DEF RecvFails, RaiseAndDeleteManifest, KeepManifest, Leave, StoreTypeOK,
        RendezvousStates, AckStatuses
  <2>2. ReaderTypeOK'
    BY <1>16 DEF RecvFails, RaiseAndDeleteManifest, KeepManifest, Leave, ReaderTypeOK,
        ReaderPcs
  <2>3. HandleTypeOK'
    BY <1>16 DEF RecvFails, RaiseAndDeleteManifest, KeepManifest, Leave, HandleTypeOK, Fates
  <2> QED
    BY <1>16, <2>1, <2>2, <2>3 DEF RecvFails, RaiseAndDeleteManifest, KeepManifest, Leave,
        RegistryTypeOK, LoopTypeOK, ClockTypeOK
<1>17. ASSUME NEW r \in Receivers, ReadDone(r) \/ ReadIsWasted(r) PROVE TypeOK'
  <2>1. StoreTypeOK'
    BY <1>17 DEF ReadDone, ReadIsWasted, KeepManifest, Leave, StoreTypeOK,
        RendezvousStates, AckStatuses
  <2>2. ReaderTypeOK'
    BY <1>17 DEF ReadDone, ReadIsWasted, KeepManifest, Leave, ReaderTypeOK, ReaderPcs
  <2>3. HandleTypeOK'
    BY <1>17 DEF ReadDone, ReadIsWasted, KeepManifest, Leave, HandleTypeOK, Fates
  <2> QED
    BY <1>17, <2>1, <2>2, <2>3 DEF ReadDone, ReadIsWasted, KeepManifest, Leave,
        RegistryTypeOK, LoopTypeOK, ClockTypeOK
<1> QED
  BY <1>1, <1>2, <1>3, <1>4, <1>5, <1>6, <1>7, <1>8, <1>9, <1>10, <1>11, <1>12, <1>13,
      <1>14, <1>15, <1>16, <1>17 DEF ReceiverNext, ReaderStep

(* ... and the writer with its subscriber.                                  *)
LEMMA WriterKeepsTypes ==
  TypeOK /\ WriterNext => TypeOK'
<1> SUFFICES ASSUME TypeOK, WriterNext PROVE TypeOK'
  OBVIOUS
<1> USE DEF TypeOK, writerFrame, registryVars, loopVars, keyVars, readerVars, cleanupVars
<1>1. ASSUME NEW t \in Transfers, WriteRegister(t) PROVE TypeOK'
  <2>1. RegistryTypeOK'
    BY <1>1 DEF WriteRegister, RegistryTypeOK
  <2>2. HandleTypeOK'
    BY <1>1 DEF WriteRegister, HandleTypeOK, Fates
  <2> QED
    BY <1>1, <2>1, <2>2 DEF WriteRegister, LoopTypeOK, StoreTypeOK, ReaderTypeOK,
        ClockTypeOK
<1>2. ASSUME NEW t \in Transfers, WriteRefused(t) PROVE TypeOK'
  <2>1. HandleTypeOK'
    BY <1>2 DEF WriteRefused, HandleTypeOK, Fates
  <2> QED
    BY <1>2, <2>1 DEF WriteRefused, RegistryTypeOK, LoopTypeOK, StoreTypeOK, ReaderTypeOK,
        ClockTypeOK
<1>3. ASSUME NEW t \in Transfers, WritePublish(t) PROVE TypeOK'
  <2>1. StoreTypeOK'
    BY <1>3 DEF WritePublish, StoreTypeOK, RendezvousStates, AckStatuses
  <2>2. HandleTypeOK'
    BY <1>3 DEF WritePublish, HandleTypeOK, Fates
  <2> QED
    BY <1>3, <2>1, <2>2 DEF WritePublish, RegistryTypeOK, LoopTypeOK, ReaderTypeOK,
        ClockTypeOK
<1>4. ASSUME NEW t \in Transfers, WritePublishFails(t) PROVE TypeOK'
  <2>1. RegistryTypeOK'
    BY <1>4 DEF WritePublishFails, RegistryTypeOK
  <2>2. HandleTypeOK'
    BY <1>4 DEF WritePublishFails, HandleTypeOK, Fates
  <2> QED
    BY <1>4, <2>1, <2>2 DEF WritePublishFails, LoopTypeOK, StoreTypeOK, ReaderTypeOK,
        ClockTypeOK
<1>5. ASSUME NEW t \in Transfers, Discard(t) PROVE TypeOK'
  <2>1. HandleTypeOK'
    BY <1>5 DEF Discard, HandleTypeOK, Fates
  <2> QED
    BY <1>5, <2>1 DEF Discard, RegistryTypeOK, LoopTypeOK, StoreTypeOK, ReaderTypeOK,
        ClockTypeOK
<1>6. ASSUME NEW t \in Transfers, TrainerDrop(t) PROVE TypeOK'
  <2>1. HandleTypeOK'
    BY <1>6 DEF TrainerDrop, HandleTypeOK, Fates
  <2> QED
    BY <1>6, <2>1 DEF TrainerDrop, RegistryTypeOK, LoopTypeOK, StoreTypeOK, ReaderTypeOK,
        ClockTypeOK
<1>7. ASSUME NEW t \in Transfers, CleanupDeletesManifest(t) PROVE TypeOK'
  <2>1. StoreTypeOK'
    BY <1>7 DEF CleanupDeletesManifest, KeepManifest, StoreTypeOK, RendezvousStates,
        AckStatuses
  <2>2. ClockTypeOK'
    BY <1>7 DEF CleanupDeletesManifest, KeepManifest, ClockTypeOK
  <2> QED
    BY <1>7, <2>1, <2>2 DEF CleanupDeletesManifest, KeepManifest, RegistryTypeOK,
        LoopTypeOK, ReaderTypeOK, HandleTypeOK
<1>8. CASE CleanupReleases
  <2>1. RegistryTypeOK'
    BY <1>8 DEF CleanupReleases, ReleaseTransfer, RegistryTypeOK
  <2>2. HandleTypeOK'
    BY <1>8 DEF CleanupReleases, ReleaseTransfer, HandleTypeOK, Fates
  <2>3. ClockTypeOK'
    BY <1>8 DEF CleanupReleases, ReleaseTransfer, ClockTypeOK
  <2> QED
    BY <1>8, <2>1, <2>2, <2>3 DEF CleanupReleases, ReleaseTransfer, LoopTypeOK,
        StoreTypeOK, ReaderTypeOK
<1>9. CASE CleanupDies
  <2>1. ClockTypeOK'
    BY <1>9 DEF CleanupDies, ClockTypeOK
  <2> QED
    BY <1>9, <2>1 DEF CleanupDies, RegistryTypeOK, LoopTypeOK, StoreTypeOK, ReaderTypeOK,
        HandleTypeOK
<1>10. CASE CloseBegin
  <2>1. ClockTypeOK'
    BY <1>10 DEF CloseBegin, ClockTypeOK
  <2> QED
    BY <1>10, <2>1 DEF CloseBegin, RegistryTypeOK, LoopTypeOK, StoreTypeOK, ReaderTypeOK,
        HandleTypeOK
<1>11. CASE CloseFinish
  <2>1. RegistryTypeOK'
    BY <1>11 DEF CloseFinish, RegistryTypeOK
  <2>2. ClockTypeOK'
    BY <1>11 DEF CloseFinish, ClockTypeOK
  <2> QED
    BY <1>11, <2>1, <2>2 DEF CloseFinish, LoopTypeOK, StoreTypeOK, ReaderTypeOK,
        HandleTypeOK
<1>12. CASE SyncBegin
  <2>1. ClockTypeOK'
    BY <1>12 DEF SyncBegin, ClockTypeOK
  <2> QED
    BY <1>12, <2>1 DEF SyncBegin, RegistryTypeOK, LoopTypeOK, StoreTypeOK, ReaderTypeOK,
        HandleTypeOK
<1>13. CASE FlushReturns
  <2>1. ClockTypeOK'
    BY <1>13 DEF FlushReturns, ClockTypeOK
  <2> QED
    BY <1>13, <2>1 DEF FlushReturns, RegistryTypeOK, LoopTypeOK, StoreTypeOK,
        ReaderTypeOK, HandleTypeOK
<1>14. CASE FlushTimesOut
  <2>1. ClockTypeOK'
    BY <1>14 DEF FlushTimesOut, ClockTypeOK
  <2> QED
    BY <1>14, <2>1 DEF FlushTimesOut, RegistryTypeOK, LoopTypeOK, StoreTypeOK,
        ReaderTypeOK, HandleTypeOK
<1>15. CASE SyncEnd
  <2>1. ClockTypeOK'
    BY <1>15 DEF SyncEnd, ClockTypeOK
  <2> QED
    BY <1>15, <2>1 DEF SyncEnd, RegistryTypeOK, LoopTypeOK, StoreTypeOK, ReaderTypeOK,
        HandleTypeOK
<1> QED
  BY <1>1, <1>2, <1>3, <1>4, <1>5, <1>6, <1>7, <1>8, <1>9, <1>10, <1>11, <1>12, <1>13,
      <1>14, <1>15 DEF WriterNext

(* The loop keeps the registry disjoint: it claims under the lock and       *)
(* forgets in the same step in which it gives the transfer up.              *)
LEMMA SenderKeepsMemory ==
  TypeOK /\ MemoryOK /\ SenderNext => MemoryOK'
<1> SUFFICES ASSUME TypeOK, MemoryOK, SenderNext PROVE MemoryOK'
  OBVIOUS
<1> USE NoneIsNobody DEF TypeOK, RegistryTypeOK, LoopTypeOK, StoreTypeOK, MemoryOK,
    LoopOK, ExclusiveOwnership, FailedSenderHoldsNothing, senderFrame, registryVars,
    loopVars, keyVars, readerVars, cleanupVars
<1>1. CASE SenderPoll
  BY <1>1 DEF SenderPoll, RequestScanIds
<1>2. CASE SenderExit
  BY <1>2 DEF SenderExit
<1>3. ASSUME NEW t \in Transfers, SenderSkip(t) PROVE MemoryOK'
  BY <1>3 DEF SenderSkip
<1>4. ASSUME NEW t \in Transfers, SenderFind(t) PROVE MemoryOK'
  BY <1>4 DEF SenderFind
<1>5. CASE SenderCheckFails
  BY <1>5 DEF SenderCheckFails
<1>6. CASE SenderReadRequest
  BY <1>6 DEF SenderReadRequest
<1>7. CASE SenderClaim
  BY <1>7 DEF SenderClaim, ClaimTransferSnapshot
<1>8. CASE SenderDecides
  BY <1>8 DEF SenderDecides, Verdict
<1>9. CASE SenderSeesCancel
  BY <1>9 DEF SenderSeesCancel, BackToScan, DeleteRendezvousKeys
<1>10. CASE SenderDropsRequest
  BY <1>10 DEF SenderDropsRequest, BackToScan
<1>11. CASE SenderWritesAck
  BY <1>11 DEF SenderWritesAck, Verdict, BackToScan
<1>12. CASE SenderCompletes
  BY <1>12 DEF SenderCompletes, BackToScan
<1>13. CASE SenderSendFails
  BY <1>13 DEF SenderSendFails, BackToScan
<1> QED
  BY <1>1, <1>2, <1>3, <1>4, <1>5, <1>6, <1>7, <1>8, <1>9, <1>10, <1>11, <1>12, <1>13 DEF
      SenderNext

(* The writer registers fresh handles, and release frees held tensors only. *)
LEMMA WriterKeepsMemory ==
  TypeOK /\ Born /\ MemoryOK /\ WriterNext => MemoryOK'
<1> SUFFICES ASSUME TypeOK, Born, MemoryOK, WriterNext PROVE MemoryOK'
  OBVIOUS
<1> USE NoneIsNobody DEF TypeOK, RegistryTypeOK, LoopTypeOK, Born, MemoryOK, LoopOK,
    ExclusiveOwnership, FailedSenderHoldsNothing, writerFrame, registryVars, loopVars,
    keyVars, readerVars, cleanupVars
<1>1. ASSUME NEW t \in Transfers, WriteRegister(t) PROVE MemoryOK'
  BY <1>1 DEF WriteRegister
<1>2. ASSUME NEW t \in Transfers, WriteRefused(t) PROVE MemoryOK'
  BY <1>2 DEF WriteRefused
<1>3. ASSUME NEW t \in Transfers, WritePublish(t) PROVE MemoryOK'
  BY <1>3 DEF WritePublish
<1>4. ASSUME NEW t \in Transfers, WritePublishFails(t) PROVE MemoryOK'
  BY <1>4 DEF WritePublishFails
<1>5. ASSUME NEW t \in Transfers, Discard(t) PROVE MemoryOK'
  BY <1>5 DEF Discard
<1>6. ASSUME NEW t \in Transfers, TrainerDrop(t) PROVE MemoryOK'
  BY <1>6 DEF TrainerDrop
<1>7. ASSUME NEW t \in Transfers, CleanupDeletesManifest(t) PROVE MemoryOK'
  BY <1>7 DEF CleanupDeletesManifest, KeepManifest
<1>8. CASE CleanupReleases
  BY <1>8 DEF CleanupReleases, ReleaseTransfer
<1>9. CASE CleanupDies
  BY <1>9 DEF CleanupDies
<1>10. CASE CloseBegin
  BY <1>10 DEF CloseBegin
<1>11. CASE CloseFinish
  BY <1>11 DEF CloseFinish
<1>12. CASE SyncBegin
  BY <1>12 DEF SyncBegin
<1>13. CASE FlushReturns
  BY <1>13 DEF FlushReturns
<1>14. CASE FlushTimesOut
  BY <1>14 DEF FlushTimesOut
<1>15. CASE SyncEnd
  BY <1>15 DEF SyncEnd
<1> QED
  BY <1>1, <1>2, <1>3, <1>4, <1>5, <1>6, <1>7, <1>8, <1>9, <1>10, <1>11, <1>12, <1>13,
      <1>14, <1>15 DEF WriterNext

(* The loop only ever handles transfers that were written.                  *)
LEMMA SenderKeepsBorn ==
  TypeOK /\ Born /\ SenderNext => Born'
<1> SUFFICES ASSUME TypeOK, Born, SenderNext PROVE Born'
  OBVIOUS
<1> USE NoneIsNobody DEF TypeOK, RegistryTypeOK, LoopTypeOK, StoreTypeOK, HandleTypeOK,
    Fates, Born, senderFrame, registryVars, loopVars, keyVars, readerVars, cleanupVars
<1>1. CASE SenderPoll
  BY <1>1 DEF SenderPoll, RequestScanIds
<1>2. CASE SenderExit
  BY <1>2 DEF SenderExit
<1>3. ASSUME NEW t \in Transfers, SenderSkip(t) PROVE Born'
  BY <1>3 DEF SenderSkip
<1>4. ASSUME NEW t \in Transfers, SenderFind(t) PROVE Born'
  BY <1>4 DEF SenderFind
<1>5. CASE SenderCheckFails
  BY <1>5 DEF SenderCheckFails
<1>6. CASE SenderReadRequest
  BY <1>6 DEF SenderReadRequest
<1>7. CASE SenderClaim
  BY <1>7 DEF SenderClaim, ClaimTransferSnapshot
<1>8. CASE SenderDecides
  BY <1>8 DEF SenderDecides, Verdict
<1>9. CASE SenderSeesCancel
  BY <1>9 DEF SenderSeesCancel, BackToScan, DeleteRendezvousKeys
<1>10. CASE SenderDropsRequest
  BY <1>10 DEF SenderDropsRequest, BackToScan
<1>11. CASE SenderWritesAck
  BY <1>11 DEF SenderWritesAck, Verdict, BackToScan
<1>12. CASE SenderCompletes
  BY <1>12 DEF SenderCompletes, BackToScan
<1>13. CASE SenderSendFails
  BY <1>13 DEF SenderSendFails, BackToScan
<1> QED
  BY <1>1, <1>2, <1>3, <1>4, <1>5, <1>6, <1>7, <1>8, <1>9, <1>10, <1>11, <1>12, <1>13 DEF
      SenderNext

(* A reader reads what was handed to it, and unwrites nothing.             *)
LEMMA ReceiverKeepsBorn ==
  TypeOK /\ Born /\ ReceiverNext => Born'
<1> SUFFICES ASSUME TypeOK, Born, ReceiverNext PROVE Born'
  OBVIOUS
<1> USE NoneIsNobody DEF TypeOK, RegistryTypeOK, LoopTypeOK, StoreTypeOK, HandleTypeOK,
    Fates, Born, readerFrame, registryVars, loopVars, keyVars, readerVars, cleanupVars
<1>1. ASSUME NEW r \in Receivers, NEW t \in Transfers, ReadBegin(r, t) PROVE Born'
  BY <1>1 DEF ReadBegin, MayRead, Go
<1>2. ASSUME NEW r \in Receivers, NEW t \in Transfers,
           ReadNoManifest(r, t) \/ ReadCheckFails(r, t) PROVE Born'
  BY <1>2 DEF ReadNoManifest, ReadCheckFails, KeepManifest, MayRead
<1>3. ASSUME NEW r \in Receivers, ReadManifest(r) PROVE Born'
  BY <1>3 DEF ReadManifest, Go
<1>4. ASSUME NEW r \in Receivers, ReadNoRoute(r) PROVE Born'
  BY <1>4 DEF ReadNoRoute, RaiseAndDeleteManifest, KeepManifest, Leave
<1>5. ASSUME NEW r \in Receivers, ReadManifestFails(r) PROVE Born'
  BY <1>5 DEF ReadManifestFails, KeepManifest, Leave
<1>6. ASSUME NEW r \in Receivers, PublishState(r) PROVE Born'
  BY <1>6 DEF PublishState, Go
<1>7. ASSUME NEW r \in Receivers, PublishRequest(r) PROVE Born'
  BY <1>7 DEF PublishRequest, Go
<1>8. ASSUME NEW r \in Receivers, AckLands(r) PROVE Born'
  BY <1>8 DEF AckLands, Go
<1>9. ASSUME NEW r \in Receivers, AckTimeout(r) PROVE Born'
  BY <1>9 DEF AckTimeout, Go
<1>10. ASSUME NEW r \in Receivers, CancelWins(r) PROVE Born'
  BY <1>10 DEF CancelWins, RaiseAndDeleteManifest, KeepManifest, Leave
<1>11. ASSUME NEW r \in Receivers, CancelLoses(r) PROVE Born'
  BY <1>11 DEF CancelLoses, Go
<1>12. ASSUME NEW r \in Receivers, GraceTimeout(r) PROVE Born'
  BY <1>12 DEF GraceTimeout, RaiseAndDeleteManifest, KeepManifest, Leave,
      DeleteRendezvousKeys
<1>13. ASSUME NEW r \in Receivers, TakeAccepted(r) PROVE Born'
  BY <1>13 DEF TakeAccepted, Go, DeleteRendezvousKeys
<1>14. ASSUME NEW r \in Receivers, TakeMissing(r) PROVE Born'
  BY <1>14 DEF TakeMissing, RaiseAndDeleteManifest, KeepManifest, Leave,
      DeleteRendezvousKeys
<1>15. ASSUME NEW r \in Receivers, ReaderStoreFails(r) PROVE Born'
  BY <1>15 DEF ReaderStoreFails, RaiseAndDeleteManifest, KeepManifest, Leave
<1>16. ASSUME NEW r \in Receivers, RecvFails(r) PROVE Born'
  BY <1>16 DEF RecvFails, RaiseAndDeleteManifest, KeepManifest, Leave
<1>17. ASSUME NEW r \in Receivers, ReadDone(r) \/ ReadIsWasted(r) PROVE Born'
  BY <1>17 DEF ReadDone, ReadIsWasted, KeepManifest, Leave
<1> QED
  BY <1>1, <1>2, <1>3, <1>4, <1>5, <1>6, <1>7, <1>8, <1>9, <1>10, <1>11, <1>12, <1>13,
      <1>14, <1>15, <1>16, <1>17 DEF ReceiverNext, ReaderStep

(* The writer marks a handle written when it registers it.                 *)
LEMMA WriterKeepsBorn ==
  TypeOK /\ Born /\ WriterNext => Born'
<1> SUFFICES ASSUME TypeOK, Born, WriterNext PROVE Born'
  OBVIOUS
<1> USE NoneIsNobody DEF TypeOK, RegistryTypeOK, LoopTypeOK, StoreTypeOK, HandleTypeOK,
    Fates, Born, writerFrame, registryVars, loopVars, keyVars, readerVars, cleanupVars
<1>1. ASSUME NEW t \in Transfers, WriteRegister(t) PROVE Born'
  BY <1>1 DEF WriteRegister
<1>2. ASSUME NEW t \in Transfers, WriteRefused(t) PROVE Born'
  BY <1>2 DEF WriteRefused
<1>3. ASSUME NEW t \in Transfers, WritePublish(t) PROVE Born'
  BY <1>3 DEF WritePublish
<1>4. ASSUME NEW t \in Transfers, WritePublishFails(t) PROVE Born'
  BY <1>4 DEF WritePublishFails
<1>5. ASSUME NEW t \in Transfers, Discard(t) PROVE Born'
  BY <1>5 DEF Discard
<1>6. ASSUME NEW t \in Transfers, TrainerDrop(t) PROVE Born'
  BY <1>6 DEF TrainerDrop
<1>7. ASSUME NEW t \in Transfers, CleanupDeletesManifest(t) PROVE Born'
  BY <1>7 DEF CleanupDeletesManifest, KeepManifest
<1>8. CASE CleanupReleases
  BY <1>8 DEF CleanupReleases, ReleaseTransfer
<1>9. CASE CleanupDies
  BY <1>9 DEF CleanupDies
<1>10. CASE CloseBegin
  BY <1>10 DEF CloseBegin
<1>11. CASE CloseFinish
  BY <1>11 DEF CloseFinish
<1>12. CASE SyncBegin
  BY <1>12 DEF SyncBegin
<1>13. CASE FlushReturns
  BY <1>13 DEF FlushReturns
<1>14. CASE FlushTimesOut
  BY <1>14 DEF FlushTimesOut
<1>15. CASE SyncEnd
  BY <1>15 DEF SyncEnd
<1> QED
  BY <1>1, <1>2, <1>3, <1>4, <1>5, <1>6, <1>7, <1>8, <1>9, <1>10, <1>11, <1>12, <1>13,
      <1>14, <1>15 DEF WriterNext

(* Readers leave the registry, the loop and the communicator alone.         *)
LEMMA ReceiverKeepsMemory == MemoryOK /\ ReceiverNext => MemoryOK'
<1> SUFFICES ASSUME MemoryOK, ReceiverNext PROVE MemoryOK'
  OBVIOUS
<1>1. UNCHANGED readerFrame
  BY DEF ReceiverNext, ReaderStep, ReadBegin, ReadNoManifest, ReadCheckFails,
      KeepManifest, ReadManifest, ReadNoRoute, ReadManifestFails, PublishState,
      PublishRequest, AckLands, AckTimeout, CancelWins, CancelLoses, GraceTimeout,
      TakeAccepted, TakeMissing, ReaderStoreFails, RecvFails, ReadDone, ReadIsWasted
<1> QED
  BY <1>1 DEF readerFrame, registryVars, loopVars, MemoryOK, LoopOK, ExclusiveOwnership,
              FailedSenderHoldsNothing

(* The tensor batch moves two program counters and nothing else.            *)
LEMMA TransferKeepsOwnership ==
  ASSUME NEW r \in Receivers, OwnershipInv, NcclTransfer(r)
  PROVE  OwnershipInv'
<1> USE DEF NcclTransfer, OwnershipInv, MemoryOK, registryVars, keyVars, cleanupVars
<1>1. TypeOK'
  BY DEF TypeOK, RegistryTypeOK, LoopTypeOK, StoreTypeOK, ReaderTypeOK, HandleTypeOK,
      ClockTypeOK,
         SenderPcs, ReaderPcs
<1>2. LoopOK' /\ ExclusiveOwnership' /\ FailedSenderHoldsNothing'
  BY DEF LoopOK, ExclusiveOwnership, FailedSenderHoldsNothing
<1>3. Born'
  BY DEF Born
<1> QED
  BY <1>1, <1>2, <1>3

(* Every step of the transport keeps the ownership invariant.               *)
LEMMA OwnershipStep == OwnershipInv /\ [Next]_vars => OwnershipInv'
<1> SUFFICES ASSUME OwnershipInv, [Next]_vars PROVE OwnershipInv'
  OBVIOUS
<1>0. TypeOK /\ MemoryOK /\ LoopOK /\ Born
  BY DEF OwnershipInv, MemoryOK
<1>1. CASE SenderNext
  BY <1>0, <1>1, SenderKeepsTypes, SenderKeepsMemory, SenderKeepsBorn DEF OwnershipInv
<1>2. CASE ReceiverNext
  BY <1>0, <1>2, ReceiverKeepsTypes, ReceiverKeepsMemory, ReceiverKeepsBorn DEF OwnershipInv
<1>3. CASE WriterNext
  BY <1>0, <1>3, WriterKeepsTypes, WriterKeepsMemory, WriterKeepsBorn DEF OwnershipInv
<1>4. ASSUME NEW r \in Receivers, NcclTransfer(r) PROVE OwnershipInv'
  BY <1>4, TransferKeepsOwnership
<1>5. CASE UNCHANGED vars
  BY <1>5 DEF vars, registryVars, loopVars, keyVars, readerVars, cleanupVars, OwnershipInv,
              MemoryOK, TypeOK, RegistryTypeOK, LoopTypeOK, StoreTypeOK, ReaderTypeOK,
              HandleTypeOK, ClockTypeOK, LoopOK, Born, ExclusiveOwnership,
              FailedSenderHoldsNothing
<1> QED
  BY <1>1, <1>2, <1>3, <1>4, <1>5 DEF Next

(* OwnershipInv holds in every reachable state of the transport.            *)
THEOREM OwnershipInvariant == Spec => []OwnershipInv
  BY OwnershipInit, OwnershipStep, PTL DEF Spec

(* Every variable keeps its type, for all transfers, readers and events.    *)
THEOREM TypeCorrect == Spec => []TypeOK
<1>1. OwnershipInv => TypeOK
  BY DEF OwnershipInv
<1> QED
  BY <1>1, OwnershipInvariant, PTL

(* The tensors of a transfer are in one place at a time, at most one        *)
(* transfer is claimed, and a discard never takes tensors from under a send *)
(* (sender.py:302-321 against sender.py:410-434).                           *)
THEOREM OwnershipIsExclusive == Spec => []ExclusiveOwnership
<1>1. OwnershipInv => ExclusiveOwnership
  BY DEF OwnershipInv, MemoryOK
<1> QED
  BY <1>1, OwnershipInvariant, PTL

(* After a failed send nothing is held and nothing is registered again      *)
(* (sender.py:344-380).                                                     *)
THEOREM FailedSenderIsEmpty == Spec => []FailedSenderHoldsNothing
<1>1. OwnershipInv => FailedSenderHoldsNothing
  BY DEF OwnershipInv, MemoryOK
<1> QED
  BY <1>1, OwnershipInvariant, PTL

-----------------------------------------------------------------------------
(* Every action but WriteRegister leaves the registry as it is or shrinks   *)
(* it.                                                                      *)
LEMMA OnlyWriteGrows ==
  ASSUME Next, \A t \in Transfers : ~WriteRegister(t)
  PROVE  pending' \subseteq pending
<1> USE DEF registryVars, senderFrame, readerFrame, writerFrame
<1>1. CASE SenderNext
  BY <1>1 DEF SenderNext, SenderPoll, SenderExit, SenderSkip, SenderFind, SenderCheckFails,
     SenderReadRequest, SenderClaim, ClaimTransferSnapshot, SenderDecides,
     SenderSeesCancel, SenderDropsRequest, SenderWritesAck, SenderCompletes,
     SenderSendFails
<1>2. CASE ReceiverNext
  BY <1>2 DEF ReceiverNext, ReaderStep, ReadBegin, ReadNoManifest, ReadCheckFails,
      KeepManifest, ReadManifest, ReadNoRoute, ReadManifestFails, PublishState,
      PublishRequest, AckLands, AckTimeout, CancelWins, CancelLoses, GraceTimeout,
      TakeAccepted, TakeMissing, ReaderStoreFails, RecvFails, ReadDone, ReadIsWasted
<1>3. CASE WriterNext
  BY <1>3 DEF WriterNext, WriteRefused, WritePublish, WritePublishFails, Discard,
      TrainerDrop, CleanupDeletesManifest, KeepManifest, CleanupReleases, ReleaseTransfer,
      CleanupDies, CloseBegin, CloseFinish, SyncBegin, FlushReturns, FlushTimesOut,
      SyncEnd
<1>4. ASSUME NEW r \in Receivers, NcclTransfer(r) PROVE pending' \subseteq pending
  BY <1>4 DEF NcclTransfer
<1> QED
  BY <1>1, <1>2, <1>3, <1>4 DEF Next

(* The capacity check of write keeps the registry within its limit          *)
(* (sender.py:284-300); a smaller registry stays within it.                 *)
LEMMA RegistryStep == RegistryOK /\ [Next]_vars => RegistryOK'
<1> SUFFICES ASSUME RegistryOK, [Next]_vars PROVE RegistryOK'
  OBVIOUS
<1>0. MaxPending \in Nat
  BY TransportAssumption DEF TransportAssumption
<1>1. ASSUME NEW t \in Transfers, WriteRegister(t) PROVE RegistryOK'
  <2>1. /\ IsFiniteSet(pending')
        /\ Cardinality(pending') = IF t \in pending THEN Cardinality(pending)
                                                    ELSE Cardinality(pending) + 1
    BY <1>1, FS_AddElement DEF RegistryOK, WriteRegister
  <2>2. MaxPending > 0 => Cardinality(pending) < MaxPending
    BY <1>0, <1>1 DEF WriteRegister, RegistryHasRoom
  <2>3. Cardinality(pending) \in Nat
    BY FS_CardinalityType DEF RegistryOK
  <2> QED
    BY <1>0, <2>1, <2>2, <2>3 DEF RegistryOK
<1>2. ASSUME pending' \subseteq pending PROVE RegistryOK'
  <2>1. IsFiniteSet(pending') /\ Cardinality(pending') <= Cardinality(pending)
    BY <1>2, FS_Subset DEF RegistryOK
  <2>2. Cardinality(pending') \in Nat /\ Cardinality(pending) \in Nat
    BY <2>1, FS_CardinalityType DEF RegistryOK
  <2> QED
    BY <1>0, <2>1, <2>2 DEF RegistryOK
<1>3. CASE UNCHANGED vars
  BY <1>2, <1>3 DEF vars, registryVars
<1> QED
  BY <1>1, <1>2, <1>3, OnlyWriteGrows

(* At any time the worker retains at most MaxPending registered payloads    *)
(* and the one being sent, however many episodes it writes.                 *)
THEOREM RegistryIsBounded == Spec => []RetainedBounded
<1>1. Init => RegistryOK
  BY FS_EmptySet, TransportAssumption DEF Init, RegistryOK, TransportAssumption
<1>2. Spec => []RegistryOK
  BY <1>1, RegistryStep, PTL DEF Spec
<1>3. RegistryOK /\ OwnershipInv => RetainedBounded
  <2> SUFFICES ASSUME RegistryOK, OwnershipInv, MaxPending > 0 PROVE
        /\ Cardinality(pending) <= MaxPending
        /\ Cardinality(pending \cup claimed) <= MaxPending + 1
    BY DEF RetainedBounded
  <2>1. Cardinality(pending) <= MaxPending /\ Cardinality(pending) \in Nat
    BY FS_CardinalityType DEF RegistryOK
  <2>2. CASE claimed = {}
    <3>1. pending \cup claimed = pending
      BY <2>2
    <3> QED
      BY <2>1, <3>1, TransportAssumption DEF TransportAssumption
  <2>3. CASE claimed = {scur}
    <3>1. Cardinality(pending \cup {scur}) \in
            {Cardinality(pending), Cardinality(pending) + 1}
      BY FS_AddElement DEF RegistryOK
    <3>2. Cardinality(pending \cup claimed) \in
            {Cardinality(pending), Cardinality(pending) + 1}
      BY <2>3, <3>1
    <3> QED
      BY <2>1, <3>2, TransportAssumption DEF TransportAssumption
  <2> QED
    BY <2>1, <2>2, <2>3 DEF OwnershipInv, MemoryOK, ExclusiveOwnership
<1> QED
  BY <1>2, <1>3, OwnershipInvariant, PTL

(* The same, and nothing at all once a send has failed (sender.py:344-380).  *)
THEOREM RetentionIsSound == Spec => []RetentionIsBounded
<1>1. RetainedBounded /\ FailedSenderHoldsNothing => RetentionIsBounded
  BY DEF RetentionIsBounded
<1> QED
  BY <1>1, RegistryIsBounded, FailedSenderIsEmpty, PTL

-----------------------------------------------------------------------------
(* The rendezvous                                                           *)

(* In the initial state nobody reads and no key exists.                     *)
LEMMA RendezvousInit == Init => RendezvousInv
<1> SUFFICES ASSUME Init PROVE RendezvousInv
  OBVIOUS
<1>1. ReaderOK /\ PeerOK /\ ScanOK /\ ServiceOK /\ OneShotOK
  BY NoneIsNobody DEF Init, ReaderOK, PeerOK, ScanOK, Accepted, Asking, ServiceOK, OneShotOK
<1>2. KeysOfReader /\ KeysAtRest /\ BackingOK
  BY DEF Init, KeysOfReader, KeysAtRest, NoKeys, Asking, KeysAfterAccept, BackingOK
<1> QED
  BY <1>1, <1>2, OwnershipInit DEF RendezvousInv

(* The writer's side has no hand in the rendezvous.                         *)
LEMMA WriterLeavesKeys == WriterNext => UNCHANGED writerFrame
  BY DEF WriterNext, WriteRegister, WriteRefused, WritePublish, WritePublishFails,
      Discard, TrainerDrop, CleanupDeletesManifest, KeepManifest, CleanupReleases,
      CleanupDies, CloseBegin, CloseFinish, SyncBegin, FlushReturns, FlushTimesOut,
      SyncEnd

(* What failed once is not forgotten.                                       *)
LEMMA WriterKeepsStray == WriterNext => stray \subseteq stray'
  BY DEF WriterNext, WriteRegister, WriteRefused, WritePublish, WritePublishFails,
      Discard, TrainerDrop, CleanupDeletesManifest, KeepManifest, CleanupReleases,
      CleanupDies, CloseBegin, CloseFinish, SyncBegin, FlushReturns, FlushTimesOut,
      SyncEnd

(* Nor is a handle delivered or raised by the writer.                       *)
LEMMA WriterDeliversNothing ==
  ASSUME TypeOK, WriterNext
  PROVE  \A t \in Transfers : \A v \in {"got", "wasted", "raised"} :
            fate'[t] = v <=> fate[t] = v
  BY DEF WriterNext, WriteRegister, WriteRefused, WritePublish, WritePublishFails,
      Discard, TrainerDrop, CleanupDeletesManifest, KeepManifest, CleanupReleases,
      CleanupDies, CloseBegin, CloseFinish, SyncBegin, FlushReturns, FlushTimesOut,
      SyncEnd, TypeOK, HandleTypeOK

(* A rank takes a handle nobody is reading and leaves it got, wasted or     *)
(* raised.                                                                  *)
LEMMA ReceiverKeepsReaders ==
  ASSUME TypeOK, ReaderOK, ReceiverNext
  PROVE  ReaderOK'
<1> USE NoneIsNobody DEF TypeOK, ReaderTypeOK, HandleTypeOK, ReaderOK, readerVars
<1>1. ASSUME NEW r \in Receivers,
           \/ ReadManifest(r) \/ PublishState(r) \/ PublishRequest(r) \/ AckLands(r)
           \/ AckTimeout(r) \/ CancelLoses(r) \/ TakeAccepted(r)
    PROVE  ReaderOK'
  BY <1>1 DEF ReadManifest, Go, PublishState, PublishRequest, AckLands, AckTimeout,
      CancelLoses, TakeAccepted, DeleteRendezvousKeys
<1>2. ASSUME NEW r \in Receivers,
           \/ ReadNoRoute(r) \/ ReadManifestFails(r) \/ CancelWins(r)
           \/ GraceTimeout(r) \/ TakeMissing(r) \/ ReaderStoreFails(r)
           \/ RecvFails(r) \/ ReadDone(r) \/ ReadIsWasted(r)
    PROVE  ReaderOK'
  BY <1>2 DEF ReadNoRoute, RaiseAndDeleteManifest, KeepManifest, Leave, ReadManifestFails,
      CancelWins, GraceTimeout, DeleteRendezvousKeys, TakeMissing, ReaderStoreFails,
      RecvFails, ReadDone, ReadIsWasted
<1>3. ASSUME NEW r \in Receivers, NEW t \in Transfers, ReadBegin(r, t) PROVE ReaderOK'
  BY <1>3 DEF ReadBegin, MayRead, Go
<1>4. ASSUME NEW r \in Receivers, NEW t \in Transfers,
           ReadNoManifest(r, t) \/ ReadCheckFails(r, t) PROVE ReaderOK'
  BY <1>4 DEF ReadNoManifest, ReadCheckFails, KeepManifest, MayRead
<1> QED
  BY <1>1, <1>2, <1>3, <1>4 DEF ReceiverNext, ReaderStep

(* A reader writes, and finally deletes, the keys of its own handle alone.  *)
LEMMA ReceiverKeepsKeysOfReader ==
  ASSUME TypeOK, ReaderOK, KeysOfReader, KeysAtRest, ReceiverNext
  PROVE  KeysOfReader'
<1> USE DEF TypeOK, StoreTypeOK, ReaderTypeOK, ReaderOK, KeysOfReader, KeysAtRest,
    NoKeys, Asking, KeysAfterAccept, AckStatuses, keyVars, readerVars
<1>1. ASSUME NEW r \in Receivers,
           \/ ReadManifest(r) \/ AckLands(r) \/ AckTimeout(r) \/ CancelLoses(r)
    PROVE  KeysOfReader'
  BY <1>1 DEF ReadManifest, Go, AckLands, AckTimeout, CancelLoses
<1>2. ASSUME NEW r \in Receivers,
           \/ ReadNoRoute(r) \/ ReadManifestFails(r) \/ ReaderStoreFails(r)
           \/ RecvFails(r) \/ ReadDone(r) \/ ReadIsWasted(r)
    PROVE  KeysOfReader'
  BY <1>2 DEF ReadNoRoute, RaiseAndDeleteManifest, KeepManifest, Leave, ReadManifestFails,
      ReaderStoreFails, RecvFails, ReadDone, ReadIsWasted
<1>3. ASSUME NEW r \in Receivers, NEW t \in Transfers, ReadBegin(r, t) PROVE KeysOfReader'
  BY <1>3 DEF ReadBegin, MayRead, Go
<1>4. ASSUME NEW r \in Receivers, NEW t \in Transfers,
           ReadNoManifest(r, t) \/ ReadCheckFails(r, t) PROVE KeysOfReader'
  BY <1>4 DEF ReadNoManifest, ReadCheckFails, KeepManifest, MayRead
<1>5. ASSUME NEW r \in Receivers, PublishState(r) PROVE KeysOfReader'
  BY <1>5 DEF PublishState, Go
<1>6. ASSUME NEW r \in Receivers, PublishRequest(r) PROVE KeysOfReader'
  BY <1>6 DEF PublishRequest, Go
<1>7. ASSUME NEW r \in Receivers, CancelWins(r) PROVE KeysOfReader'
  BY <1>7 DEF CancelWins, RaiseAndDeleteManifest, KeepManifest, Leave
<1>8. ASSUME NEW r \in Receivers, GraceTimeout(r) PROVE KeysOfReader'
  BY <1>8 DEF GraceTimeout, RaiseAndDeleteManifest, KeepManifest, Leave,
      DeleteRendezvousKeys
<1>9. ASSUME NEW r \in Receivers, TakeAccepted(r) PROVE KeysOfReader'
  BY <1>9 DEF TakeAccepted, Go, DeleteRendezvousKeys
<1>10. ASSUME NEW r \in Receivers, TakeMissing(r) PROVE KeysOfReader'
  BY <1>10 DEF TakeMissing, RaiseAndDeleteManifest, KeepManifest, Leave,
      DeleteRendezvousKeys
<1> QED
  BY <1>1, <1>2, <1>3, <1>4, <1>5, <1>6, <1>7, <1>8, <1>9, <1>10 DEF ReceiverNext,
      ReaderStep

(* A read begins without keys, and only a reader that raises leaves any.    *)
LEMMA ReceiverKeepsKeysAtRest ==
  ASSUME TypeOK, ReaderOK, KeysOfReader, KeysAtRest, ReceiverNext
  PROVE  KeysAtRest'
<1> USE DEF TypeOK, StoreTypeOK, ReaderOK, KeysOfReader, KeysAtRest, NoKeys, Asking,
    KeysAfterAccept, AckStatuses, keyVars
<1>1. ASSUME NEW r \in Receivers,
           \/ ReadManifest(r) \/ AckLands(r) \/ AckTimeout(r) \/ CancelLoses(r)
    PROVE  KeysAtRest'
  BY <1>1 DEF ReadManifest, Go, AckLands, AckTimeout, CancelLoses
<1>2. ASSUME NEW r \in Receivers, NEW t \in Transfers, ReadBegin(r, t) PROVE KeysAtRest'
  BY <1>2 DEF ReadBegin, MayRead, Go
<1>3. ASSUME NEW r \in Receivers, NEW t \in Transfers,
           ReadNoManifest(r, t) \/ ReadCheckFails(r, t) PROVE KeysAtRest'
  BY <1>3 DEF ReadNoManifest, ReadCheckFails, KeepManifest, MayRead, HandleTypeOK
<1>4. ASSUME NEW r \in Receivers, ReadNoRoute(r) PROVE KeysAtRest'
  BY <1>4 DEF ReadNoRoute, RaiseAndDeleteManifest, KeepManifest, Leave
<1>5. ASSUME NEW r \in Receivers, ReadManifestFails(r) PROVE KeysAtRest'
  BY <1>5 DEF ReadManifestFails, KeepManifest, Leave
<1>6. ASSUME NEW r \in Receivers, PublishState(r) PROVE KeysAtRest'
  BY <1>6 DEF PublishState, Go
<1>7. ASSUME NEW r \in Receivers, PublishRequest(r) PROVE KeysAtRest'
  BY <1>7 DEF PublishRequest, Go
<1>8. ASSUME NEW r \in Receivers, CancelWins(r) PROVE KeysAtRest'
  BY <1>8 DEF CancelWins, RaiseAndDeleteManifest, KeepManifest, Leave
<1>9. ASSUME NEW r \in Receivers, GraceTimeout(r) PROVE KeysAtRest'
  BY <1>9 DEF GraceTimeout, RaiseAndDeleteManifest, KeepManifest, Leave,
      DeleteRendezvousKeys
<1>10. ASSUME NEW r \in Receivers, TakeAccepted(r) PROVE KeysAtRest'
  BY <1>10 DEF TakeAccepted, Go, DeleteRendezvousKeys
<1>11. ASSUME NEW r \in Receivers, TakeMissing(r) PROVE KeysAtRest'
  BY <1>11 DEF TakeMissing, RaiseAndDeleteManifest, KeepManifest, Leave,
      DeleteRendezvousKeys
<1>12. ASSUME NEW r \in Receivers, ReaderStoreFails(r) PROVE KeysAtRest'
  BY <1>12 DEF ReaderStoreFails, RaiseAndDeleteManifest, KeepManifest, Leave
<1>13. ASSUME NEW r \in Receivers, RecvFails(r) PROVE KeysAtRest'
  BY <1>13 DEF RecvFails, RaiseAndDeleteManifest, KeepManifest, Leave
<1>14. ASSUME NEW r \in Receivers, ReadDone(r) \/ ReadIsWasted(r) PROVE KeysAtRest'
  BY <1>14 DEF ReadDone, ReadIsWasted, KeepManifest, Leave, HandleTypeOK
<1> QED
  BY <1>1, <1>2, <1>3, <1>4, <1>5, <1>6, <1>7, <1>8, <1>9, <1>10, <1>11, <1>12,
      <1>13, <1>14 DEF ReceiverNext, ReaderStep

(* No rank picks up the transfer the sender is answering.                   *)
LEMMA ReceiverKeepsPeer ==
  ASSUME TypeOK, LoopOK, PeerOK, ReceiverNext
  PROVE  PeerOK'
<1> USE NoneIsNobody DEF TypeOK, ReaderTypeOK, LoopOK, PeerOK, readerFrame,
    loopVars, readerVars
<1>1. ASSUME NEW r \in Receivers,
           \/ ReadManifest(r) \/ PublishState(r) \/ PublishRequest(r) \/ AckLands(r)
           \/ AckTimeout(r) \/ CancelLoses(r) \/ TakeAccepted(r)
    PROVE  PeerOK'
  BY <1>1 DEF ReadManifest, Go, PublishState, PublishRequest, AckLands, AckTimeout,
      CancelLoses, TakeAccepted, DeleteRendezvousKeys
<1>2. ASSUME NEW r \in Receivers, NEW t \in Transfers, ReadBegin(r, t) PROVE PeerOK'
  BY <1>2 DEF ReadBegin, MayRead, Go
<1>3. ASSUME NEW r \in Receivers, NEW t \in Transfers,
           ReadNoManifest(r, t) \/ ReadCheckFails(r, t) PROVE PeerOK'
  BY <1>3 DEF ReadNoManifest, ReadCheckFails, KeepManifest, MayRead, HandleTypeOK
<1>4. ASSUME NEW r \in Receivers, ReadNoRoute(r) PROVE PeerOK'
  BY <1>4 DEF ReadNoRoute, RaiseAndDeleteManifest, KeepManifest, Leave
<1>5. ASSUME NEW r \in Receivers, ReadManifestFails(r) PROVE PeerOK'
  BY <1>5 DEF ReadManifestFails, KeepManifest, Leave
<1>6. ASSUME NEW r \in Receivers, CancelWins(r) PROVE PeerOK'
  BY <1>6 DEF CancelWins, RaiseAndDeleteManifest, KeepManifest, Leave
<1>7. ASSUME NEW r \in Receivers, GraceTimeout(r) PROVE PeerOK'
  BY <1>7 DEF GraceTimeout, RaiseAndDeleteManifest, KeepManifest, Leave,
      DeleteRendezvousKeys
<1>8. ASSUME NEW r \in Receivers, TakeMissing(r) PROVE PeerOK'
  BY <1>8 DEF TakeMissing, RaiseAndDeleteManifest, KeepManifest, Leave, DeleteRendezvousKeys
<1>9. ASSUME NEW r \in Receivers, ReaderStoreFails(r) PROVE PeerOK'
  BY <1>9 DEF ReaderStoreFails, RaiseAndDeleteManifest, KeepManifest, Leave
<1>10. ASSUME NEW r \in Receivers, RecvFails(r) PROVE PeerOK'
  BY <1>10 DEF RecvFails, RaiseAndDeleteManifest, KeepManifest, Leave
<1>11. ASSUME NEW r \in Receivers, ReadDone(r) \/ ReadIsWasted(r) PROVE PeerOK'
  BY <1>11 DEF ReadDone, ReadIsWasted, KeepManifest, Leave, HandleTypeOK
<1> QED
  BY <1>1, <1>2, <1>3, <1>4, <1>5, <1>6, <1>7, <1>8, <1>9, <1>10, <1>11 DEF
      ReceiverNext, ReaderStep

(* A rank comes to an acceptance only by its own ACK.                       *)
LEMMA ReceiverKeepsScan ==
  ASSUME TypeOK, LoopOK, ReaderOK, KeysOfReader, KeysAtRest, ScanOK, ReceiverNext
  PROVE  ScanOK'
<1> USE DEF TypeOK, ReaderTypeOK, HandleTypeOK, LoopTypeOK, ReaderOK, ScanOK, Asking,
    readerFrame, loopVars, keyVars, readerVars
<1>1. ASSUME NEW t \in Transfers, Accepted(t)' PROVE Accepted(t)
  <2> USE DEF Accepted
  <2>1. ASSUME NEW r \in Receivers, NEW u \in Transfers,
             ReadBegin(r, u) PROVE Accepted(t)
    BY <1>1, <2>1 DEF ReadBegin, MayRead, Go, KeysAtRest, NoKeys
  <2>2. ASSUME NEW r \in Receivers, NEW u \in Transfers,
             ReadNoManifest(r, u) PROVE Accepted(t)
    BY <1>1, <2>2 DEF ReadNoManifest, MayRead
  <2>3. ASSUME NEW r \in Receivers, NEW u \in Transfers,
             ReadCheckFails(r, u) PROVE Accepted(t)
    BY <1>1, <2>3 DEF ReadCheckFails, MayRead
  <2>4. ASSUME NEW r \in Receivers, ReadManifest(r) \/ PublishState(r) PROVE Accepted(t)
    BY <1>1, <2>4 DEF ReadManifest, PublishState, Go
  <2>5. ASSUME NEW r \in Receivers, PublishRequest(r) PROVE Accepted(t)
    BY <1>1, <2>5 DEF PublishRequest, Go, KeysOfReader
  <2>6. ASSUME NEW r \in Receivers, AckLands(r) \/ AckTimeout(r) \/ CancelLoses(r)
        PROVE  Accepted(t)
    BY <1>1, <2>6 DEF AckLands, AckTimeout, CancelLoses, Go
  <2>7. ASSUME NEW r \in Receivers,
             \/ ReadNoRoute(r) \/ ReadManifestFails(r) \/ CancelWins(r)
             \/ ReaderStoreFails(r) \/ RecvFails(r)
        PROVE  Accepted(t)
    BY <1>1, <2>7 DEF ReadNoRoute, ReadManifestFails, CancelWins, ReaderStoreFails,
        RecvFails, RaiseAndDeleteManifest, Leave
  <2>8. ASSUME NEW r \in Receivers, GraceTimeout(r) \/ TakeMissing(r) PROVE Accepted(t)
    <3>1. rcur[r] \in Transfers /\ Leave(r, "raised")
      BY <2>8 DEF GraceTimeout, TakeMissing, RaiseAndDeleteManifest
    <3>2. \A u \in Transfers : u # rcur[r] => ack'[u] = ack[u]
      BY <2>8, <3>1 DEF GraceTimeout, TakeMissing, DeleteRendezvousKeys, StoreTypeOK
    <3>3. ~(t = rcur[r])
      BY <1>1, <3>1, NoneIsNobody DEF Leave
    <3> QED
      BY <1>1, <3>1, <3>2, <3>3, NoneIsNobody DEF Leave
  <2>9. ASSUME NEW r \in Receivers, TakeAccepted(r) PROVE Accepted(t)
    BY <1>1, <2>9 DEF TakeAccepted, DeleteRendezvousKeys, Go
  <2>10. ASSUME NEW r \in Receivers, ReadDone(r) \/ ReadIsWasted(r) PROVE Accepted(t)
    BY <1>1, <2>10 DEF ReadDone, ReadIsWasted, Leave
  <2> QED
    BY <2>1, <2>2, <2>3, <2>4, <2>5, <2>6, <2>7, <2>8, <2>9, <2>10 DEF ReceiverNext,
        ReaderStep
<1>2. UNCHANGED loopVars
  BY DEF ReceiverNext, ReaderStep, ReadBegin, ReadNoManifest, ReadCheckFails, ReadManifest,
     ReadNoRoute, ReadManifestFails, PublishState, PublishRequest, AckLands, AckTimeout,
     CancelWins, CancelLoses, GraceTimeout, TakeAccepted, TakeMissing, ReaderStoreFails,
     RecvFails, ReadDone, ReadIsWasted
<1>3. \A t \in scan : t \in Transfers /\ ~Accepted(t)'
  BY <1>1
<1>4. ASSUME spc \in {"read", "claim", "cas", "ack"} PROVE ~Accepted(scur)'
  <2>1. scur \in Transfers /\ scur' = scur
    BY <1>2, <1>4 DEF LoopOK
  <2> QED
    BY <1>1, <1>4, <2>1 DEF Accepted
<1> QED
  BY <1>2, <1>3, <1>4

(* A reader that takes an acceptance goes on to receive; nobody else reads the*)
(* transfer the sender is deciding.                                         *)
LEMMA ReceiverKeepsService ==
  ASSUME TypeOK, LoopOK, ReaderOK, KeysOfReader, KeysAtRest, PeerOK, ServiceOK,
         ReceiverNext
  PROVE  ServiceOK'
<1> USE DEF TypeOK, ReaderTypeOK, HandleTypeOK, LoopOK, KeysAtRest, PeerOK, ServiceOK,
    NoKeys, Asking, KeysAfterAccept, Verdict, readerFrame, registryVars, loopVars,
    keyVars, readerVars
<1>1. ASSUME NEW r \in Receivers,
           \/ ReadManifest(r) \/ AckLands(r) \/ AckTimeout(r) \/ CancelLoses(r)
    PROVE  ServiceOK'
  BY <1>1 DEF ReadManifest, Go, AckLands, AckTimeout, CancelLoses
<1>2. ASSUME NEW r \in Receivers,
           \/ ReadNoRoute(r) \/ ReadManifestFails(r) \/ ReaderStoreFails(r)
           \/ RecvFails(r) \/ ReadDone(r) \/ ReadIsWasted(r)
    PROVE  ServiceOK'
  BY <1>2 DEF ReadNoRoute, RaiseAndDeleteManifest, KeepManifest, Leave, ReadManifestFails,
      ReaderStoreFails, RecvFails, ReadDone, ReadIsWasted
<1>3. ASSUME NEW r \in Receivers, NEW t \in Transfers, ReadBegin(r, t) PROVE ServiceOK'
  BY <1>3 DEF ReadBegin, MayRead, Go
<1>4. ASSUME NEW r \in Receivers, NEW t \in Transfers,
           ReadNoManifest(r, t) \/ ReadCheckFails(r, t) PROVE ServiceOK'
  BY <1>4 DEF ReadNoManifest, ReadCheckFails, KeepManifest, MayRead
<1>5. ASSUME NEW r \in Receivers, PublishState(r) PROVE ServiceOK'
  BY <1>5 DEF PublishState, Go
<1>6. ASSUME NEW r \in Receivers, PublishRequest(r) PROVE ServiceOK'
  BY <1>6 DEF PublishRequest, Go, KeysOfReader
<1>7. ASSUME NEW r \in Receivers, CancelWins(r) PROVE ServiceOK'
  BY <1>7 DEF CancelWins, RaiseAndDeleteManifest, KeepManifest, Leave
<1>8. ASSUME NEW r \in Receivers, GraceTimeout(r) PROVE ServiceOK'
  BY <1>8 DEF GraceTimeout, RaiseAndDeleteManifest, KeepManifest, Leave,
      DeleteRendezvousKeys
<1>9. ASSUME NEW r \in Receivers, TakeAccepted(r) PROVE ServiceOK'
  BY <1>9 DEF TakeAccepted, Go, DeleteRendezvousKeys
<1>10. ASSUME NEW r \in Receivers, TakeMissing(r) PROVE ServiceOK'
  BY <1>10 DEF TakeMissing, RaiseAndDeleteManifest, KeepManifest, Leave,
      DeleteRendezvousKeys
<1> QED
  BY <1>1, <1>2, <1>3, <1>4, <1>5, <1>6, <1>7, <1>8, <1>9, <1>10 DEF ReceiverNext,
      ReaderStep

(* A read ends by deleting its manifest, or records that it could not.      *)
LEMMA ReceiverKeepsOneShot ==
  ASSUME TypeOK, OneShotOK, ReceiverNext
  PROVE  OneShotOK'
<1> USE DEF TypeOK, ReaderTypeOK, OneShotOK, readerFrame, registryVars, readerVars
<1>1. ASSUME NEW r \in Receivers,
           \/ ReadManifest(r) \/ PublishState(r) \/ PublishRequest(r) \/ AckLands(r)
           \/ AckTimeout(r) \/ CancelLoses(r) \/ TakeAccepted(r)
    PROVE  OneShotOK'
  BY <1>1 DEF ReadManifest, Go, PublishState, PublishRequest, AckLands, AckTimeout,
      CancelLoses, TakeAccepted, DeleteRendezvousKeys
<1>2. ASSUME NEW r \in Receivers, NEW t \in Transfers, ReadBegin(r, t) PROVE OneShotOK'
  BY <1>2 DEF ReadBegin, MayRead, Go
<1>3. ASSUME NEW r \in Receivers, NEW t \in Transfers,
           ReadNoManifest(r, t) \/ ReadCheckFails(r, t) PROVE OneShotOK'
  BY <1>3 DEF ReadNoManifest, ReadCheckFails, KeepManifest, MayRead, HandleTypeOK
<1>4. ASSUME NEW r \in Receivers, ReadNoRoute(r) PROVE OneShotOK'
  BY <1>4 DEF ReadNoRoute, RaiseAndDeleteManifest, KeepManifest, Leave
<1>5. ASSUME NEW r \in Receivers, ReadManifestFails(r) PROVE OneShotOK'
  BY <1>5 DEF ReadManifestFails, KeepManifest, Leave
<1>6. ASSUME NEW r \in Receivers, CancelWins(r) PROVE OneShotOK'
  BY <1>6 DEF CancelWins, RaiseAndDeleteManifest, KeepManifest, Leave
<1>7. ASSUME NEW r \in Receivers, GraceTimeout(r) PROVE OneShotOK'
  BY <1>7 DEF GraceTimeout, RaiseAndDeleteManifest, KeepManifest, Leave,
      DeleteRendezvousKeys
<1>8. ASSUME NEW r \in Receivers, TakeMissing(r) PROVE OneShotOK'
  BY <1>8 DEF TakeMissing, RaiseAndDeleteManifest, KeepManifest, Leave, DeleteRendezvousKeys
<1>9. ASSUME NEW r \in Receivers, ReaderStoreFails(r) PROVE OneShotOK'
  BY <1>9 DEF ReaderStoreFails, RaiseAndDeleteManifest, KeepManifest, Leave
<1>10. ASSUME NEW r \in Receivers, RecvFails(r) PROVE OneShotOK'
  BY <1>10 DEF RecvFails, RaiseAndDeleteManifest, KeepManifest, Leave
<1>11. ASSUME NEW r \in Receivers, ReadDone(r) \/ ReadIsWasted(r) PROVE OneShotOK'
  BY <1>11 DEF ReadDone, ReadIsWasted, KeepManifest, Leave, HandleTypeOK
<1> QED
  BY <1>1, <1>2, <1>3, <1>4, <1>5, <1>6, <1>7, <1>8, <1>9, <1>10, <1>11 DEF
      ReceiverNext, ReaderStep

(* Readers take nothing from the sender's memory.                           *)
LEMMA ReceiverKeepsBacking ==
  ASSUME TypeOK, BackingOK, ReceiverNext
  PROVE  BackingOK'
<1> USE DEF TypeOK, HandleTypeOK, BackingOK, readerFrame, registryVars, cleanupVars
<1>1. ASSUME NEW r \in Receivers,
           \/ ReadManifest(r) \/ PublishState(r) \/ PublishRequest(r) \/ AckLands(r)
           \/ AckTimeout(r) \/ CancelLoses(r) \/ TakeAccepted(r)
    PROVE  BackingOK'
  BY <1>1 DEF ReadManifest, Go, PublishState, PublishRequest, AckLands, AckTimeout,
      CancelLoses, TakeAccepted, DeleteRendezvousKeys
<1>2. ASSUME NEW r \in Receivers, NEW t \in Transfers, ReadBegin(r, t) PROVE BackingOK'
  BY <1>2 DEF ReadBegin, MayRead, Go
<1>3. ASSUME NEW r \in Receivers, NEW t \in Transfers,
           ReadNoManifest(r, t) \/ ReadCheckFails(r, t) PROVE BackingOK'
  BY <1>3 DEF ReadNoManifest, ReadCheckFails, KeepManifest, MayRead, HandleTypeOK
<1>4. ASSUME NEW r \in Receivers, ReadNoRoute(r) PROVE BackingOK'
  BY <1>4 DEF ReadNoRoute, RaiseAndDeleteManifest, KeepManifest, Leave
<1>5. ASSUME NEW r \in Receivers, ReadManifestFails(r) PROVE BackingOK'
  BY <1>5 DEF ReadManifestFails, KeepManifest, Leave
<1>6. ASSUME NEW r \in Receivers, CancelWins(r) PROVE BackingOK'
  BY <1>6 DEF CancelWins, RaiseAndDeleteManifest, KeepManifest, Leave
<1>7. ASSUME NEW r \in Receivers, GraceTimeout(r) PROVE BackingOK'
  BY <1>7 DEF GraceTimeout, RaiseAndDeleteManifest, KeepManifest, Leave,
      DeleteRendezvousKeys
<1>8. ASSUME NEW r \in Receivers, TakeMissing(r) PROVE BackingOK'
  BY <1>8 DEF TakeMissing, RaiseAndDeleteManifest, KeepManifest, Leave, DeleteRendezvousKeys
<1>9. ASSUME NEW r \in Receivers, ReaderStoreFails(r) PROVE BackingOK'
  BY <1>9 DEF ReaderStoreFails, RaiseAndDeleteManifest, KeepManifest, Leave
<1>10. ASSUME NEW r \in Receivers, RecvFails(r) PROVE BackingOK'
  BY <1>10 DEF RecvFails, RaiseAndDeleteManifest, KeepManifest, Leave
<1>11. ASSUME NEW r \in Receivers, ReadDone(r) \/ ReadIsWasted(r) PROVE BackingOK'
  BY <1>11 DEF ReadDone, ReadIsWasted, KeepManifest, Leave, HandleTypeOK
<1> QED
  BY <1>1, <1>2, <1>3, <1>4, <1>5, <1>6, <1>7, <1>8, <1>9, <1>10, <1>11 DEF
      ReceiverNext, ReaderStep

(* The sender loop leaves the readers where they are.                       *)
LEMMA SenderKeepsReaders ==
  ASSUME ReaderOK, SenderNext
  PROVE  ReaderOK'
<1> USE DEF ReaderOK, senderFrame
<1>1. CASE
      \/ SenderPoll \/ SenderExit \/ SenderCheckFails \/ SenderReadRequest
      \/ SenderClaim \/ SenderDecides \/ SenderSeesCancel \/ SenderDropsRequest
      \/ SenderWritesAck \/ SenderCompletes \/ SenderSendFails
      \/ \E t \in Transfers : SenderSkip(t) \/ SenderFind(t)
  BY <1>1 DEF SenderPoll, RequestScanIds, SenderExit, SenderSkip, SenderFind,
      SenderCheckFails, SenderReadRequest, SenderClaim, ClaimTransferSnapshot,
      SenderDecides, Verdict, SenderSeesCancel, BackToScan, DeleteRendezvousKeys,
      SenderDropsRequest, ProcessRequestRaises, SenderWritesAck, SenderCompletes,
      SenderSendFails
<1> QED
  BY <1>1 DEF SenderNext

(* The sender decides for a reader that waits, and deletes the keys of a    *)
(* cancelled request only after its reader has left.                        *)
LEMMA SenderKeepsKeysOfReader ==
  ASSUME TypeOK, ReaderOK, KeysOfReader, PeerOK, ServiceOK, SenderNext
  PROVE  KeysOfReader'
<1> USE DEF ReaderOK, KeysOfReader, PeerOK, ServiceOK, NoKeys, Asking, KeysAfterAccept,
    senderFrame, keyVars
<1>1. CASE
      \/ SenderPoll \/ SenderExit \/ SenderCheckFails \/ SenderReadRequest
      \/ SenderClaim \/ SenderDropsRequest \/ SenderCompletes \/ SenderSendFails
      \/ \E t \in Transfers : SenderSkip(t) \/ SenderFind(t)
  BY <1>1 DEF SenderPoll, RequestScanIds, SenderExit, SenderSkip, SenderFind,
      SenderCheckFails, SenderReadRequest, SenderClaim, ClaimTransferSnapshot,
      SenderDropsRequest, BackToScan, ProcessRequestRaises, SenderCompletes,
      SenderSendFails
<1>2. CASE SenderDecides
  BY <1>2 DEF SenderDecides, Verdict, TypeOK, StoreTypeOK, AckStatuses
<1>3. CASE SenderSeesCancel
  BY <1>3 DEF SenderSeesCancel, BackToScan, DeleteRendezvousKeys
<1>4. CASE SenderWritesAck
  BY <1>4 DEF SenderWritesAck, Verdict, BackToScan
<1> QED
  BY <1>1, <1>2, <1>3, <1>4 DEF SenderNext

(* It writes to the keys of a transfer only while it is being read.         *)
LEMMA SenderKeepsKeysAtRest ==
  ASSUME TypeOK, KeysAtRest, PeerOK, ServiceOK, SenderNext
  PROVE  KeysAtRest'
<1> USE DEF TypeOK, StoreTypeOK, KeysAtRest, PeerOK, ServiceOK, NoKeys, Asking,
    KeysAfterAccept, AckStatuses, senderFrame, keyVars
<1>1. CASE
      \/ SenderPoll \/ SenderExit \/ SenderCheckFails \/ SenderReadRequest
      \/ SenderClaim \/ SenderDropsRequest \/ SenderCompletes \/ SenderSendFails
      \/ \E t \in Transfers : SenderSkip(t) \/ SenderFind(t)
  BY <1>1 DEF SenderPoll, RequestScanIds, SenderExit, SenderSkip, SenderFind,
      SenderCheckFails, SenderReadRequest, SenderClaim, ClaimTransferSnapshot,
      SenderDropsRequest, BackToScan, ProcessRequestRaises, SenderCompletes,
      SenderSendFails
<1>2. CASE SenderDecides
  BY <1>2 DEF SenderDecides, Verdict
<1>3. CASE SenderSeesCancel
  BY <1>3 DEF SenderSeesCancel, BackToScan, DeleteRendezvousKeys
<1>4. CASE SenderWritesAck
  BY <1>4 DEF SenderWritesAck, Verdict, BackToScan
<1> QED
  BY <1>1, <1>2, <1>3, <1>4 DEF SenderNext

(* A request that is there when the sender reads it is its reader's, and    *)
(* that reader waits.                                                       *)
LEMMA SenderKeepsPeer ==
  ASSUME TypeOK, LoopOK, ReaderOK, KeysOfReader, KeysAtRest, PeerOK, ScanOK,
         SenderNext
  PROVE  PeerOK'
<1> USE NoneIsNobody DEF TypeOK, ReaderTypeOK, LoopOK, ReaderOK, KeysOfReader,
    KeysAtRest, PeerOK, NoKeys, Asking, KeysAfterAccept, ReaderPcs, senderFrame
<1>1. CASE
      \/ SenderPoll
      \/ \E t \in Transfers : SenderSkip(t)
  BY <1>1 DEF SenderPoll, RequestScanIds, SenderSkip
<1>2. CASE SenderExit
  BY <1>2 DEF SenderExit
<1>3. ASSUME NEW t \in Transfers, SenderFind(t) PROVE PeerOK'
  BY <1>3 DEF SenderFind
<1>4. CASE SenderCheckFails
  BY <1>4 DEF SenderCheckFails
<1>5. CASE SenderReadRequest
  BY <1>5 DEF SenderReadRequest, ScanOK, Accepted
<1>6. CASE SenderClaim
  BY <1>6 DEF SenderClaim, ClaimTransferSnapshot
<1>7. CASE SenderDecides
  BY <1>7 DEF SenderDecides, Verdict
<1>8. CASE SenderSeesCancel
  BY <1>8 DEF SenderSeesCancel, BackToScan, DeleteRendezvousKeys
<1>9. CASE SenderDropsRequest
  BY <1>9 DEF SenderDropsRequest, BackToScan, ProcessRequestRaises
<1>10. CASE SenderWritesAck
  BY <1>10 DEF SenderWritesAck, Verdict, BackToScan
<1>11. CASE SenderCompletes
  BY <1>11 DEF SenderCompletes, BackToScan
<1>12. CASE SenderSendFails
  BY <1>12 DEF SenderSendFails, BackToScan
<1> QED
  BY <1>1, <1>2, <1>3, <1>4, <1>5, <1>6, <1>7, <1>8, <1>9, <1>10, <1>11, <1>12 DEF
      SenderNext

(* It scans what it holds or remembers, and what was delivered is neither;  *)
(* an ACK that accepts comes after the decision, and the pass goes on with  *)
(* other transfers.                                                         *)
LEMMA SenderKeepsScan ==
  ASSUME TypeOK, LoopOK, ReaderOK, KeysOfReader, KeysAtRest, PeerOK, ScanOK, ServiceOK,
         OneShotOK, FailedSenderHoldsNothing, SenderNext
  PROVE  ScanOK'
<1> USE DEF TypeOK, StoreTypeOK, LoopTypeOK, LoopOK, ScanOK, Accepted, Asking, senderFrame,
    registryVars, keyVars
<1>1. CASE
      \/ SenderExit \/ SenderCheckFails \/ SenderReadRequest \/ SenderClaim
      \/ SenderDecides \/ SenderDropsRequest \/ SenderCompletes \/ SenderSendFails
      \/ \E t \in Transfers : SenderSkip(t) \/ SenderFind(t)
  BY <1>1 DEF SenderExit, SenderCheckFails, SenderReadRequest, SenderClaim,
      ClaimTransferSnapshot, SenderDecides, SenderDropsRequest, SenderCompletes,
      SenderSendFails, BackToScan, SenderSkip, SenderFind
<1>2. CASE SenderPoll
  <2>1. ASSUME NEW t \in pending \cup released PROVE t \in Transfers /\ ~Accepted(t)
    BY <1>2 DEF SenderPoll, RegistryTypeOK, OneShotOK, ServiceOK, FailedSenderHoldsNothing
  <2>2. \A t \in Transfers : Accepted(t)' <=> Accepted(t)
    BY <1>2 DEF SenderPoll
  <2> QED
    BY <1>2, <2>1, <2>2 DEF SenderPoll, RequestScanIds
<1>3. CASE SenderSeesCancel
  BY <1>3 DEF SenderSeesCancel, BackToScan, DeleteRendezvousKeys
<1>4. CASE SenderWritesAck
  BY <1>4 DEF SenderWritesAck, Verdict, BackToScan
<1> QED
  BY <1>1, <1>2, <1>3, <1>4 DEF SenderNext

(* The ACK names the verdict, and the send of the same transfer follows; the*)
(* sender leaves the send by completing it or by giving its end up.         *)
LEMMA SenderKeepsService ==
  ASSUME TypeOK, LoopOK, ReaderOK, KeysOfReader, KeysAtRest, PeerOK, ScanOK, ServiceOK,
         SenderNext
  PROVE  ServiceOK'
<1> USE DEF TypeOK, StoreTypeOK, LoopOK, KeysAtRest, ServiceOK, Asking, AckStatuses,
    senderFrame, registryVars, keyVars
<1>1. CASE
      \/ SenderPoll
      \/ \E t \in Transfers : SenderSkip(t)
  BY <1>1 DEF SenderPoll, RequestScanIds, SenderSkip
<1>2. CASE SenderExit
  BY <1>2 DEF SenderExit
<1>3. ASSUME NEW t \in Transfers, SenderFind(t) PROVE ServiceOK'
  BY <1>3 DEF SenderFind
<1>4. CASE SenderCheckFails
  BY <1>4 DEF SenderCheckFails
<1>5. CASE SenderReadRequest
  BY <1>5 DEF SenderReadRequest
<1>6. CASE SenderClaim
  BY <1>6 DEF SenderClaim, ClaimTransferSnapshot
<1>7. CASE SenderDecides
  <2>1. scur \in Transfers /\ st[scur] = "requested"
    BY <1>7 DEF SenderDecides
  <2>2. ASSUME fate[scur] = "reading" PROVE ack[scur] = "absent"
    <3>1. PICK r \in Receivers : rcur[r] = scur
      BY <2>1, <2>2 DEF ReaderOK
    <3>2. Asking(r)
      BY <1>7, <2>1, <3>1, NoneIsNobody DEF SenderDecides, PeerOK, ReaderOK, ScanOK,
          Accepted, TypeOK, ReaderTypeOK, ReaderPcs
    <3> QED
      BY <2>1, <3>1, <3>2 DEF KeysOfReader
  <2> QED
    BY <1>7, <2>1, <2>2 DEF SenderDecides, Verdict
<1>8. CASE SenderSeesCancel
  BY <1>8 DEF SenderSeesCancel, BackToScan, DeleteRendezvousKeys
<1>9. CASE SenderDropsRequest
  BY <1>9 DEF SenderDropsRequest, BackToScan, ProcessRequestRaises
<1>10. CASE SenderWritesAck
  BY <1>10 DEF SenderWritesAck, Verdict, BackToScan
<1>11. CASE SenderCompletes
  BY <1>11 DEF SenderCompletes, BackToScan
<1>12. CASE SenderSendFails
  BY <1>12 DEF SenderSendFails, BackToScan
<1> QED
  BY <1>1, <1>2, <1>3, <1>4, <1>5, <1>6, <1>7, <1>8, <1>9, <1>10, <1>11, <1>12 DEF
      SenderNext

(* The sender never takes a transfer up again.                              *)
LEMMA SenderKeepsOneShot ==
  ASSUME OneShotOK, SenderNext
  PROVE  OneShotOK'
<1> USE DEF OneShotOK, senderFrame, registryVars
<1>1. CASE
      \/ SenderExit \/ SenderCheckFails \/ SenderReadRequest \/ SenderDecides
      \/ SenderDropsRequest \/ SenderCompletes
      \/ \E t \in Transfers : SenderSkip(t) \/ SenderFind(t)
  BY <1>1 DEF SenderExit, SenderSkip, SenderFind, SenderCheckFails,
      SenderReadRequest, SenderDecides, Verdict, SenderDropsRequest, BackToScan,
      ProcessRequestRaises, SenderCompletes
<1>2. CASE SenderPoll
  BY <1>2 DEF SenderPoll, RequestScanIds
<1>3. CASE SenderClaim
  BY <1>3 DEF SenderClaim, ClaimTransferSnapshot
<1>4. CASE SenderSeesCancel
  BY <1>4 DEF SenderSeesCancel, BackToScan, DeleteRendezvousKeys
<1>5. CASE SenderWritesAck
  BY <1>5 DEF SenderWritesAck, Verdict, BackToScan
<1>6. CASE SenderSendFails
  BY <1>6 DEF SenderSendFails, BackToScan
<1> QED
  BY <1>1, <1>2, <1>3, <1>4, <1>5, <1>6 DEF SenderNext

(* It takes tensors up only for a transfer that is being read, or whose     *)
(* read was cancelled.                                                      *)
LEMMA SenderKeepsBacking ==
  ASSUME PeerOK, OneShotOK, BackingOK, SenderNext
  PROVE  BackingOK'
<1> USE DEF PeerOK, OneShotOK, BackingOK, senderFrame, registryVars
<1>1. CASE
      \/ SenderPoll \/ SenderExit \/ SenderCheckFails \/ SenderReadRequest
      \/ SenderDecides \/ SenderSeesCancel \/ SenderDropsRequest \/ SenderWritesAck
      \/ SenderCompletes
      \/ \E t \in Transfers : SenderSkip(t) \/ SenderFind(t)
  BY <1>1 DEF SenderPoll, RequestScanIds, SenderExit, SenderSkip, SenderFind,
      SenderCheckFails, SenderReadRequest, SenderDecides, Verdict, SenderSeesCancel,
      BackToScan, DeleteRendezvousKeys, SenderDropsRequest, ProcessRequestRaises,
      SenderWritesAck, SenderCompletes
<1>2. CASE SenderClaim
  BY <1>2 DEF SenderClaim, ClaimTransferSnapshot
<1>3. CASE SenderSendFails
  BY <1>3 DEF SenderSendFails, BackToScan
<1> QED
  BY <1>1, <1>2, <1>3 DEF SenderNext

(* The writer and the controller act on handles nobody is reading.          *)
LEMMA WriterKeepsReaders ==
  ASSUME ReaderOK, WriterNext
  PROVE  ReaderOK'
<1> USE DEF ReaderOK, writerFrame, readerVars
<1>1. CASE
      \/ CleanupReleases \/ CleanupDies \/ CloseBegin \/ CloseFinish \/ SyncBegin
      \/ FlushReturns \/ FlushTimesOut \/ SyncEnd
      \/ \E t \in Transfers : Discard(t) \/ CleanupDeletesManifest(t)
  BY <1>1 DEF Discard, CleanupDeletesManifest, KeepManifest, CleanupReleases,
      ReleaseTransfer, CleanupDies, CloseBegin, CloseFinish, SyncBegin, FlushReturns,
      Drained, FlushTimesOut, SyncEnd
<1>2. ASSUME NEW t \in Transfers, WriteRegister(t) PROVE ReaderOK'
  BY <1>2 DEF WriteRegister
<1>3. ASSUME NEW t \in Transfers, WriteRefused(t) PROVE ReaderOK'
  BY <1>3 DEF WriteRefused
<1>4. ASSUME NEW t \in Transfers, WritePublish(t) PROVE ReaderOK'
  BY <1>4 DEF WritePublish
<1>5. ASSUME NEW t \in Transfers, WritePublishFails(t) PROVE ReaderOK'
  BY <1>5 DEF WritePublishFails
<1>6. ASSUME NEW t \in Transfers, TrainerDrop(t) PROVE ReaderOK'
  BY <1>6 DEF TrainerDrop
<1> QED
  BY <1>1, <1>2, <1>3, <1>4, <1>5, <1>6 DEF WriterNext

(* They leave the rendezvous keys alone ...                                 *)
LEMMA WriterKeepsKeysOfReader ==
  ASSUME KeysOfReader, WriterNext
  PROVE  KeysOfReader'
<1>1. stray \subseteq stray'
  BY WriterKeepsStray
<1> QED
  BY <1>1, WriterLeavesKeys DEF writerFrame, keyVars, readerVars, KeysOfReader, NoKeys,
      Asking, KeysAfterAccept

(* ... those of settled handles too,                                        *)
LEMMA WriterKeepsKeysAtRest ==
  ASSUME KeysAtRest, WriterNext
  PROVE  KeysAtRest'
<1> USE DEF KeysAtRest, NoKeys, Asking, KeysAfterAccept, writerFrame, keyVars
<1>1. CASE
      \/ CleanupReleases \/ CleanupDies \/ CloseBegin \/ CloseFinish \/ SyncBegin
      \/ FlushReturns \/ FlushTimesOut \/ SyncEnd
      \/ \E t \in Transfers : Discard(t) \/ CleanupDeletesManifest(t)
  BY <1>1 DEF Discard, CleanupDeletesManifest, KeepManifest, CleanupReleases,
      ReleaseTransfer, CleanupDies, CloseBegin, CloseFinish, SyncBegin, FlushReturns,
      Drained, FlushTimesOut, SyncEnd
<1>2. ASSUME NEW t \in Transfers, WriteRegister(t) PROVE KeysAtRest'
  BY <1>2 DEF WriteRegister
<1>3. ASSUME NEW t \in Transfers, WriteRefused(t) PROVE KeysAtRest'
  BY <1>3 DEF WriteRefused
<1>4. ASSUME NEW t \in Transfers, WritePublish(t) PROVE KeysAtRest'
  BY <1>4 DEF WritePublish
<1>5. ASSUME NEW t \in Transfers, WritePublishFails(t) PROVE KeysAtRest'
  BY <1>5 DEF WritePublishFails
<1>6. ASSUME NEW t \in Transfers, TrainerDrop(t) PROVE KeysAtRest'
  BY <1>6 DEF TrainerDrop
<1> QED
  BY <1>1, <1>2, <1>3, <1>4, <1>5, <1>6 DEF WriterNext

(* and the transfer the sender is answering.                                *)
LEMMA WriterKeepsPeer ==
  ASSUME PeerOK, WriterNext
  PROVE  PeerOK'
<1> USE DEF PeerOK, writerFrame, loopVars, readerVars
<1>1. CASE
      \/ CleanupReleases \/ CleanupDies \/ CloseBegin \/ CloseFinish \/ SyncBegin
      \/ FlushReturns \/ FlushTimesOut \/ SyncEnd
      \/ \E t \in Transfers : Discard(t) \/ CleanupDeletesManifest(t)
  BY <1>1 DEF Discard, CleanupDeletesManifest, KeepManifest, CleanupReleases,
      ReleaseTransfer, CleanupDies, CloseBegin, CloseFinish, SyncBegin, FlushReturns,
      Drained, FlushTimesOut, SyncEnd
<1>2. ASSUME NEW t \in Transfers, WriteRegister(t) PROVE PeerOK'
  BY <1>2 DEF WriteRegister
<1>3. ASSUME NEW t \in Transfers, WriteRefused(t) PROVE PeerOK'
  BY <1>3 DEF WriteRefused
<1>4. ASSUME NEW t \in Transfers, WritePublish(t) PROVE PeerOK'
  BY <1>4 DEF WritePublish
<1>5. ASSUME NEW t \in Transfers, WritePublishFails(t) PROVE PeerOK'
  BY <1>5 DEF WritePublishFails
<1>6. ASSUME NEW t \in Transfers, TrainerDrop(t) PROVE PeerOK'
  BY <1>6 DEF TrainerDrop
<1> QED
  BY <1>1, <1>2, <1>3, <1>4, <1>5, <1>6 DEF WriterNext

(* They deliver nothing: what the loop may decide is as it was.             *)
LEMMA WriterKeepsScan ==
  ASSUME TypeOK, LoopOK, ScanOK, WriterNext
  PROVE  ScanOK'
<1>1. UNCHANGED <<loopVars, keyVars, readerVars>>
  BY WriterLeavesKeys DEF writerFrame
<1>2. \A t \in Transfers : \A v \in {"got", "wasted"} : fate'[t] = v <=> fate[t] = v
  BY WriterDeliversNothing
<1>3. /\ scan \subseteq Transfers
      /\ spc \in {"read", "claim", "cas", "ack"} => scur \in Transfers
  BY DEF TypeOK, LoopTypeOK, LoopOK
<1>4. ASSUME NEW t \in Transfers PROVE Accepted(t)' <=> Accepted(t)
  BY <1>1, <1>2 DEF keyVars, readerVars, Accepted, Asking
<1>5. /\ \A t \in scan : ~Accepted(t)'
      /\ spc \in {"read", "claim", "cas", "ack"} =>
           ~(\E t \in Transfers : t = scur /\ Accepted(t)')
  BY <1>3, <1>4 DEF ScanOK
<1> QED
  BY <1>1, <1>3, <1>5 DEF loopVars, ScanOK, Accepted

(* close() aborts the communicator and lets a sender finish its step.       *)
LEMMA WriterKeepsService ==
  ASSUME ServiceOK, WriterNext
  PROVE  ServiceOK'
<1> USE DEF ServiceOK, Asking, Verdict, writerFrame, registryVars, loopVars, keyVars,
    readerVars
<1>1. CASE
      \/ CleanupReleases \/ CleanupDies \/ CloseBegin \/ SyncBegin \/ FlushReturns
      \/ FlushTimesOut \/ SyncEnd
      \/ \E t \in Transfers : Discard(t) \/ CleanupDeletesManifest(t)
  BY <1>1 DEF Discard, CleanupDeletesManifest, KeepManifest, CleanupReleases,
      ReleaseTransfer, CleanupDies, CloseBegin, SyncBegin, FlushReturns, Drained,
      FlushTimesOut, SyncEnd
<1>2. ASSUME NEW t \in Transfers, WriteRegister(t) PROVE ServiceOK'
  BY <1>2 DEF WriteRegister
<1>3. ASSUME NEW t \in Transfers, WriteRefused(t) PROVE ServiceOK'
  BY <1>3 DEF WriteRefused
<1>4. ASSUME NEW t \in Transfers, WritePublish(t) PROVE ServiceOK'
  BY <1>4 DEF WritePublish
<1>5. ASSUME NEW t \in Transfers, WritePublishFails(t) PROVE ServiceOK'
  BY <1>5 DEF WritePublishFails
<1>6. ASSUME NEW t \in Transfers, TrainerDrop(t) PROVE ServiceOK'
  BY <1>6 DEF TrainerDrop
<1>7. CASE CloseFinish
  BY <1>7 DEF CloseFinish
<1> QED
  BY <1>1, <1>2, <1>3, <1>4, <1>5, <1>6, <1>7 DEF WriterNext

(* Only a handle that was never read is registered.                         *)
LEMMA WriterKeepsOneShot ==
  ASSUME ReaderOK, OneShotOK, WriterNext
  PROVE  OneShotOK'
<1> USE DEF ReaderOK, OneShotOK, writerFrame, registryVars, readerVars
<1>1. CASE
      \/ CleanupDies \/ CloseBegin \/ SyncBegin \/ FlushReturns \/ FlushTimesOut
      \/ SyncEnd
      \/ \E t \in Transfers : Discard(t)
  BY <1>1 DEF Discard, CleanupDies, CloseBegin, SyncBegin, FlushReturns, Drained,
      FlushTimesOut, SyncEnd
<1>2. ASSUME NEW t \in Transfers, WriteRegister(t) PROVE OneShotOK'
  BY <1>2 DEF WriteRegister
<1>3. ASSUME NEW t \in Transfers, WriteRefused(t) PROVE OneShotOK'
  BY <1>3 DEF WriteRefused
<1>4. ASSUME NEW t \in Transfers, WritePublish(t) PROVE OneShotOK'
  BY <1>4 DEF WritePublish
<1>5. ASSUME NEW t \in Transfers, WritePublishFails(t) PROVE OneShotOK'
  BY <1>5 DEF WritePublishFails
<1>6. ASSUME NEW t \in Transfers, TrainerDrop(t) PROVE OneShotOK'
  BY <1>6 DEF TrainerDrop
<1>7. ASSUME NEW t \in Transfers, CleanupDeletesManifest(t) PROVE OneShotOK'
  BY <1>7 DEF CleanupDeletesManifest, KeepManifest
<1>8. CASE CleanupReleases
  BY <1>8 DEF CleanupReleases, ReleaseTransfer
<1>9. CASE CloseFinish
  BY <1>9 DEF CloseFinish
<1> QED
  BY <1>1, <1>2, <1>3, <1>4, <1>5, <1>6, <1>7, <1>8, <1>9 DEF WriterNext

(* A write registers before it publishes; a cleanup deletes the manifest    *)
(* before it releases the tensors.                                          *)
LEMMA WriterKeepsBacking ==
  ASSUME TypeOK, Born, BackingOK, WriterNext
  PROVE  BackingOK'
<1> USE DEF TypeOK, HandleTypeOK, Born, BackingOK, registryVars, cleanupVars
<1>1. CASE
      \/ CleanupDies \/ SyncBegin \/ FlushReturns \/ FlushTimesOut \/ SyncEnd
  BY <1>1 DEF CleanupDies, SyncBegin, FlushReturns, Drained, FlushTimesOut, SyncEnd
<1>2. ASSUME NEW t \in Transfers, WriteRegister(t) PROVE BackingOK'
  BY <1>2 DEF WriteRegister
<1>3. ASSUME NEW t \in Transfers, WriteRefused(t) PROVE BackingOK'
  BY <1>3 DEF WriteRefused
<1>4. ASSUME NEW t \in Transfers, WritePublish(t) PROVE BackingOK'
  BY <1>4 DEF WritePublish
<1>5. ASSUME NEW t \in Transfers, WritePublishFails(t) PROVE BackingOK'
  BY <1>5 DEF WritePublishFails
<1>6. ASSUME NEW t \in Transfers, Discard(t) PROVE BackingOK'
  BY <1>6 DEF Discard
<1>7. ASSUME NEW t \in Transfers, TrainerDrop(t) PROVE BackingOK'
  BY <1>7 DEF TrainerDrop
<1>8. ASSUME NEW t \in Transfers, CleanupDeletesManifest(t) PROVE BackingOK'
  BY <1>8 DEF CleanupDeletesManifest, KeepManifest
<1>9. CASE CleanupReleases
  BY <1>9 DEF CleanupReleases, ReleaseTransfer
<1>10. CASE CloseBegin
  BY <1>10 DEF CloseBegin
<1>11. CASE CloseFinish
  BY <1>11 DEF CloseFinish
<1> QED
  BY <1>1, <1>2, <1>3, <1>4, <1>5, <1>6, <1>7, <1>8, <1>9, <1>10, <1>11 DEF
      WriterNext

(* Two ends that meet are at the same transfer.                             *)
LEMMA MeetingEndsAgree ==
  ASSUME OwnershipInv, ServiceOK, NEW r \in Receivers, NcclTransfer(r)
  PROVE  rcur[r] = scur /\ scur \in Transfers /\ sown
  BY DEF NcclTransfer, ServiceOK, OwnershipInv, MemoryOK, LoopOK

(* The tensor batch moves the reader from recv to unpack and the sender on  *)
(* to its completion.                                                       *)
LEMMA TransferKeepsRendezvous ==
  ASSUME RendezvousInv, NEW r \in Receivers, NcclTransfer(r)
  PROVE  /\ ReaderOK' /\ KeysOfReader' /\ KeysAtRest' /\ PeerOK'
         /\ ScanOK' /\ ServiceOK' /\ OneShotOK' /\ BackingOK'
<1> USE DEF RendezvousInv, OwnershipInv, MemoryOK, TypeOK, ReaderTypeOK, NcclTransfer,
        keyVars, registryVars, cleanupVars
<1>0. rcur[r] = scur /\ scur \in Transfers /\ sown
  BY MeetingEndsAgree
<1>1. ReaderOK'
  BY DEF ReaderOK
<1>2. KeysOfReader' /\ KeysAtRest'
  BY DEF KeysOfReader, KeysAtRest, NoKeys, Asking, KeysAfterAccept
<1>3. PeerOK'
  BY DEF PeerOK
<1>4. ServiceOK'
  <2>1. ASSUME NEW q \in Receivers, rpc'[q] = "recv" PROVE FALSE
    BY <1>0, <2>1 DEF ServiceOK, ReaderOK
  <2>2. ASSUME NEW q \in Receivers, Asking(q)', ack[rcur[q]] = "accepted" PROVE FALSE
    BY <1>0, <2>2 DEF ServiceOK, ReaderOK, Asking
  <2> QED
    BY <2>1, <2>2 DEF ServiceOK, Asking
<1>5. OneShotOK' /\ BackingOK'
  BY <1>0 DEF OneShotOK, BackingOK, ExclusiveOwnership
<1>6. ScanOK'
  <2>1. r \in Receivers /\ rcur[r] = scur /\ scur \notin scan
    BY <1>0 DEF ScanOK
  <2>2. ASSUME NEW t \in Transfers, ~Accepted(t) PROVE ~Accepted(t)'
    BY <2>2 DEF Accepted, Asking
  <2>3. scan \subseteq Transfers
    BY DEF LoopTypeOK
  <2> QED
    BY <2>1, <2>2, <2>3 DEF ScanOK
<1> QED
  BY <1>1, <1>2, <1>3, <1>4, <1>5, <1>6

(* Every step keeps the rendezvous invariant.                               *)
LEMMA RendezvousStep == RendezvousInv /\ [Next]_vars => RendezvousInv'
<1> SUFFICES ASSUME RendezvousInv, [Next]_vars PROVE RendezvousInv'
  OBVIOUS
<1> USE DEF RendezvousInv
<1>1. OwnershipInv'
  BY OwnershipStep
<1>2. TypeOK /\ LoopOK /\ Born /\ ExclusiveOwnership /\ FailedSenderHoldsNothing
  BY DEF OwnershipInv, MemoryOK
<1>3. CASE SenderNext
  BY <1>1, <1>2, <1>3, SenderKeepsReaders, SenderKeepsKeysOfReader, SenderKeepsKeysAtRest,
      SenderKeepsPeer, SenderKeepsScan, SenderKeepsService, SenderKeepsOneShot,
      SenderKeepsBacking
<1>4. CASE ReceiverNext
  BY <1>1, <1>2, <1>4, ReceiverKeepsReaders, ReceiverKeepsKeysOfReader,
     ReceiverKeepsKeysAtRest, ReceiverKeepsPeer, ReceiverKeepsScan, ReceiverKeepsService,
     ReceiverKeepsOneShot, ReceiverKeepsBacking
<1>5. CASE WriterNext
  BY <1>1, <1>2, <1>5, WriterKeepsReaders, WriterKeepsKeysOfReader, WriterKeepsKeysAtRest,
      WriterKeepsPeer, WriterKeepsScan, WriterKeepsService, WriterKeepsOneShot,
      WriterKeepsBacking
<1>6. ASSUME NEW r \in Receivers, NcclTransfer(r) PROVE RendezvousInv'
  BY <1>1, <1>6, TransferKeepsRendezvous
<1>7. CASE UNCHANGED vars
  BY <1>1, <1>7 DEF vars, registryVars, loopVars, keyVars, readerVars, cleanupVars,
      ReaderOK, KeysOfReader, KeysAtRest, NoKeys, Asking, KeysAfterAccept, PeerOK, ScanOK,
      Accepted, ServiceOK, Verdict, OneShotOK, BackingOK
<1> QED
  BY <1>3, <1>4, <1>5, <1>6, <1>7 DEF Next

(* RendezvousInv holds in every reachable state, whatever fails.            *)
THEOREM RendezvousInvariant == Spec => []RendezvousInv
  BY RendezvousInit, RendezvousStep, PTL DEF Spec

(* The tagless communicator never pairs a send with another transfer's      *)
(* receive (sender.py:382-402 against receiver.py:154-213).                 *)
THEOREM PayloadsMatch == Spec => []RightPayload
<1>1. RendezvousInv => RightPayload
  BY DEF RendezvousInv, OwnershipInv, MemoryOK, LoopOK, FailedSenderHoldsNothing, ServiceOK,
     RightPayload
<1> QED
  BY <1>1, RendezvousInvariant, PTL

(* After a read nothing is left at the sender, and nothing in the store but *)
(* what a store call that failed on that very handle has left               *)
(* (endpoints.py:255-295, rendezvous.py:80-145).                            *)
THEOREM ReadsLeaveNothing == Spec => []ReadsAreOneShot
<1>1. RendezvousInv => ReadsAreOneShot
  BY DEF RendezvousInv, OneShotOK, KeysAtRest, NoKeys, Asking, KeysAfterAccept,
      ReadsAreOneShot
<1> QED
  BY <1>1, RendezvousInvariant, PTL

(* Whatever a live manifest names, the sender still has, unless a store call *)
(* failed on that manifest (endpoints.py:84-104 and 122-150, 255-295).      *)
THEOREM ManifestsAreBacked == Spec => []ManifestIsBacked
<1>1. RendezvousInv => ManifestIsBacked
  BY DEF RendezvousInv, OwnershipInv, TypeOK, StoreTypeOK, BackingOK, ManifestIsBacked
<1> QED
  BY <1>1, RendezvousInvariant, PTL

(* compare_set on both sides: the state key leaves "requested" once         *)
(* (rendezvous.py:100-138).                                                 *)
THEOREM OutcomeIsFinal == Spec => DecisionIsFinal
<1> DEFINE Final == \A t \in Transfers :
     st[t] \in {"accepted", "missing", "cancelled"} => st'[t] \in {st[t], "absent"}
<1>1. RendezvousInv /\ [Next]_vars => [Final]_vars
  <2> SUFFICES ASSUME RendezvousInv, Next PROVE Final
    OBVIOUS
  <2> USE DEF RendezvousInv, OwnershipInv, MemoryOK, TypeOK, StoreTypeOK, keyVars
  <2>1. CASE SenderNext
    <3>1. CASE SenderDecides
      BY <3>1 DEF SenderDecides
    <3>2. CASE SenderSeesCancel
      BY <3>2 DEF SenderSeesCancel, DeleteRendezvousKeys
    <3>3. CASE UNCHANGED st
      BY <3>3
    <3> QED
      BY <2>1, <3>1, <3>2, <3>3 DEF SenderNext, SenderPoll, SenderExit, SenderSkip,
         SenderFind, SenderCheckFails, SenderReadRequest, SenderClaim, SenderDropsRequest,
         SenderWritesAck, SenderCompletes, SenderSendFails
  <2>2. CASE ReceiverNext
    <3>1. ASSUME NEW r \in Receivers, PublishState(r) PROVE Final
      BY <3>1 DEF PublishState, KeysOfReader, NoKeys, Asking, KeysAfterAccept
    <3>2. ASSUME NEW r \in Receivers, CancelWins(r) PROVE Final
      BY <3>2 DEF CancelWins
    <3>3. ASSUME NEW r \in Receivers, GraceTimeout(r) \/ TakeAccepted(r) \/ TakeMissing(r)
          PROVE  Final
      BY <3>3 DEF GraceTimeout, TakeAccepted, TakeMissing, DeleteRendezvousKeys
    <3>4. CASE UNCHANGED st
      BY <3>4
    <3> QED
      BY <2>2, <3>1, <3>2, <3>3, <3>4 DEF ReceiverNext, ReaderStep, ReadBegin,
          ReadNoManifest, ReadCheckFails, ReadManifest, ReadNoRoute, ReadManifestFails,
          PublishRequest, AckLands, AckTimeout, CancelLoses, ReaderStoreFails, RecvFails,
          ReadDone, ReadIsWasted, KeepManifest
  <2>3. CASE WriterNext \/ \E r \in Receivers : NcclTransfer(r)
    <3>1. UNCHANGED st
      BY <2>3, WriterLeavesKeys DEF NcclTransfer, writerFrame
    <3> QED
      BY <3>1
  <2> QED
    BY <2>1, <2>2, <2>3 DEF Next
<1> QED
  BY <1>1, RendezvousInvariant, PTL DEF Spec, DecisionIsFinal

-----------------------------------------------------------------------------
(***************************************************************************)
(* Proofs about commitments: as long as committed requests are awaited      *)
(* (CommitmentsAreAwaited), CommitmentInv is inductive, hence nobody parks  *)
(* alone in NCCL and the weight broadcast is quiet, for any number of       *)
(* transfers and readers.                                                   *)
(*                                                                          *)
(* Then the refinement, under the same condition: the transport implements  *)
(* Handoff under the mapping of NcclTransport.  The first lemmas say, for   *)
(* each step of Handoff, what has to happen to the mapped tensors (HoldOf)  *)
(* and the mapped reader (AskOf) of every transfer; the others say which of *)
(* them each step of the transport is.                                      *)
(***************************************************************************)

(* In the initial state nobody has asked and nothing is being synced.       *)
LEMMA CommitmentInit == Init => CommitmentInv
  BY RendezvousInit DEF Init, CommitmentInv, AbandonedOK, CommitOK, SyncOK

(* Without reader_error a reader that raises has deleted its keys, or has won*)
(* the cancel.                                                              *)
LEMMA ReceiverKeepsAbandoned ==
  ASSUME TypeOK, ReaderOK, KeysOfReader, KeysAtRest, AbandonedOK,
         CommitmentsAreAwaited, ReceiverNext
  PROVE  AbandonedOK'
<1> USE DEF TypeOK, StoreTypeOK, HandleTypeOK, ReaderOK, KeysOfReader, KeysAtRest,
    AbandonedOK, CommitmentsAreAwaited, NoKeys, Asking, KeysAfterAccept, AckStatuses,
    keyVars
<1>1. ASSUME NEW r \in Receivers,
           \/ ReadManifest(r) \/ PublishRequest(r) \/ AckLands(r) \/ AckTimeout(r)
           \/ CancelLoses(r)
    PROVE  AbandonedOK'
  BY <1>1 DEF ReadManifest, Go, PublishRequest, AckLands, AckTimeout, CancelLoses
<1>2. ASSUME NEW r \in Receivers,
           \/ ReadNoRoute(r) \/ ReadManifestFails(r) \/ ReaderStoreFails(r)
           \/ RecvFails(r) \/ ReadDone(r) \/ ReadIsWasted(r)
    PROVE  AbandonedOK'
  BY <1>2 DEF ReadNoRoute, RaiseAndDeleteManifest, KeepManifest, Leave, ReadManifestFails,
      ReaderStoreFails, RecvFails, ReadDone, ReadIsWasted
<1>3. ASSUME NEW r \in Receivers, NEW t \in Transfers, ReadBegin(r, t) PROVE AbandonedOK'
  BY <1>3 DEF ReadBegin, MayRead, Go
<1>4. ASSUME NEW r \in Receivers, NEW t \in Transfers,
           ReadNoManifest(r, t) \/ ReadCheckFails(r, t) PROVE AbandonedOK'
  BY <1>4 DEF ReadNoManifest, ReadCheckFails, KeepManifest, MayRead
<1>5. ASSUME NEW r \in Receivers, PublishState(r) PROVE AbandonedOK'
  BY <1>5 DEF PublishState, Go
<1>6. ASSUME NEW r \in Receivers, CancelWins(r) PROVE AbandonedOK'
  BY <1>6 DEF CancelWins, RaiseAndDeleteManifest, KeepManifest, Leave
<1>7. ASSUME NEW r \in Receivers, GraceTimeout(r) PROVE AbandonedOK'
  BY <1>7 DEF GraceTimeout, RaiseAndDeleteManifest, KeepManifest, Leave,
      DeleteRendezvousKeys
<1>8. ASSUME NEW r \in Receivers, TakeAccepted(r) PROVE AbandonedOK'
  BY <1>8 DEF TakeAccepted, Go, DeleteRendezvousKeys
<1>9. ASSUME NEW r \in Receivers, TakeMissing(r) PROVE AbandonedOK'
  BY <1>9 DEF TakeMissing, RaiseAndDeleteManifest, KeepManifest, Leave, DeleteRendezvousKeys
<1> QED
  BY <1>1, <1>2, <1>3, <1>4, <1>5, <1>6, <1>7, <1>8, <1>9 DEF ReceiverNext,
      ReaderStep

(* Without late_ack a reader outlives the sender's decision: the second     *)
(* budget does not end while the ACK is on its way.                         *)
LEMMA ReceiverKeepsCommitments ==
  ASSUME TypeOK, LoopOK, ReaderOK, KeysOfReader, KeysAtRest, ServiceOK, CommitOK,
         CommitmentsAreAwaited, ReceiverNext
  PROVE  CommitOK'
<1> USE DEF TypeOK, ReaderTypeOK, LoopOK, ReaderOK, KeysAtRest, ServiceOK, CommitOK,
    CommitmentsAreAwaited, Verdict, Waiting, AckOnItsWay, readerFrame, loopVars,
    keyVars, readerVars
<1>1. ASSUME NEW r \in Receivers,
           \/ ReadManifest(r) \/ AckLands(r) \/ AckTimeout(r) \/ CancelLoses(r)
    PROVE  CommitOK'
  BY <1>1 DEF ReadManifest, Go, AckLands, AckTimeout, CancelLoses
<1>2. ASSUME NEW r \in Receivers,
           \/ ReadNoRoute(r) \/ ReadManifestFails(r) \/ ReaderStoreFails(r)
           \/ RecvFails(r) \/ ReadDone(r) \/ ReadIsWasted(r)
    PROVE  CommitOK'
  BY <1>2 DEF ReadNoRoute, RaiseAndDeleteManifest, KeepManifest, Leave, ReadManifestFails,
      ReaderStoreFails, RecvFails, ReadDone, ReadIsWasted
<1>3. ASSUME NEW r \in Receivers, NEW t \in Transfers, ReadBegin(r, t) PROVE CommitOK'
  BY <1>3 DEF ReadBegin, MayRead, Go
<1>4. ASSUME NEW r \in Receivers, NEW t \in Transfers,
           ReadNoManifest(r, t) \/ ReadCheckFails(r, t) PROVE CommitOK'
  BY <1>4 DEF ReadNoManifest, ReadCheckFails, KeepManifest, MayRead
<1>5. ASSUME NEW r \in Receivers, PublishState(r) PROVE CommitOK'
  BY <1>5 DEF PublishState, Go
<1>6. ASSUME NEW r \in Receivers, PublishRequest(r) PROVE CommitOK'
  BY <1>6 DEF PublishRequest, Go
<1>7. ASSUME NEW r \in Receivers, CancelWins(r) PROVE CommitOK'
  BY <1>7 DEF CancelWins, RaiseAndDeleteManifest, KeepManifest, Leave, KeysOfReader, Asking
<1>8. ASSUME NEW r \in Receivers, GraceTimeout(r) PROVE CommitOK'
  BY <1>8 DEF GraceTimeout, RaiseAndDeleteManifest, KeepManifest, Leave,
      DeleteRendezvousKeys
<1>9. ASSUME NEW r \in Receivers, TakeAccepted(r) PROVE CommitOK'
  BY <1>9 DEF TakeAccepted, Go, DeleteRendezvousKeys
<1>10. ASSUME NEW r \in Receivers, TakeMissing(r) PROVE CommitOK'
  BY <1>10 DEF TakeMissing, RaiseAndDeleteManifest, KeepManifest, Leave,
      DeleteRendezvousKeys
<1> QED
  BY <1>1, <1>2, <1>3, <1>4, <1>5, <1>6, <1>7, <1>8, <1>9, <1>10 DEF ReceiverNext,
      ReaderStep

(* No read begins during a weight sync.                                     *)
LEMMA ReceiverKeepsSync ==
  ASSUME SyncOK, ReceiverNext
  PROVE  SyncOK'
<1> USE DEF SyncOK, readerFrame
<1>1. ASSUME NEW r \in Receivers,
           \/ ReadManifest(r) \/ PublishState(r) \/ PublishRequest(r) \/ AckLands(r)
           \/ AckTimeout(r) \/ CancelLoses(r) \/ TakeAccepted(r)
    PROVE  SyncOK'
  BY <1>1 DEF ReadManifest, Go, PublishState, PublishRequest, AckLands, AckTimeout,
      CancelLoses, TakeAccepted, DeleteRendezvousKeys
<1>2. ASSUME NEW r \in Receivers,
           \/ ReadNoRoute(r) \/ ReadManifestFails(r) \/ CancelWins(r)
           \/ GraceTimeout(r) \/ TakeMissing(r) \/ ReaderStoreFails(r)
           \/ RecvFails(r) \/ ReadDone(r) \/ ReadIsWasted(r)
    PROVE  SyncOK'
  BY <1>2 DEF ReadNoRoute, RaiseAndDeleteManifest, KeepManifest, Leave, ReadManifestFails,
      CancelWins, GraceTimeout, DeleteRendezvousKeys, TakeMissing, ReaderStoreFails,
      RecvFails, ReadDone, ReadIsWasted
<1>3. ASSUME NEW r \in Receivers, NEW t \in Transfers, ReadBegin(r, t) PROVE SyncOK'
  BY <1>3 DEF ReadBegin, MayRead, Go
<1>4. ASSUME NEW r \in Receivers, NEW t \in Transfers,
           ReadNoManifest(r, t) \/ ReadCheckFails(r, t) PROVE SyncOK'
  BY <1>4 DEF ReadNoManifest, ReadCheckFails, KeepManifest, MayRead
<1> QED
  BY <1>1, <1>2, <1>3, <1>4 DEF ReceiverNext, ReaderStep

(* The sender decides for waiting readers only.                             *)
LEMMA SenderKeepsAbandoned ==
  ASSUME LoopOK, ReaderOK, AbandonedOK, CommitOK, SenderNext
  PROVE  AbandonedOK'
<1> USE DEF LoopOK, ReaderOK, AbandonedOK, CommitOK, senderFrame, keyVars
<1>1. CASE
      \/ SenderPoll \/ SenderExit \/ SenderCheckFails \/ SenderReadRequest
      \/ SenderClaim \/ SenderDropsRequest \/ SenderCompletes \/ SenderSendFails
      \/ \E t \in Transfers : SenderSkip(t) \/ SenderFind(t)
  BY <1>1 DEF SenderPoll, RequestScanIds, SenderExit, SenderSkip, SenderFind,
      SenderCheckFails, SenderReadRequest, SenderClaim, ClaimTransferSnapshot,
      SenderDropsRequest, BackToScan, ProcessRequestRaises, SenderCompletes,
      SenderSendFails
<1>2. CASE SenderDecides
  BY <1>2 DEF SenderDecides, Verdict
<1>3. CASE SenderSeesCancel
  BY <1>3 DEF SenderSeesCancel, BackToScan, DeleteRendezvousKeys
<1>4. CASE SenderWritesAck
  BY <1>4 DEF SenderWritesAck, Verdict, BackToScan
<1> QED
  BY <1>1, <1>2, <1>3, <1>4 DEF SenderNext

(* A decision wins the compare_set only while the reader is before it; the  *)
(* ACK names the verdict, and the send follows.                             *)
LEMMA SenderKeepsCommitments ==
  ASSUME TypeOK, LoopOK, ReaderOK, KeysOfReader, PeerOK, AbandonedOK, CommitOK,
         SenderNext
  PROVE  CommitOK'
<1> USE NoneIsNobody DEF TypeOK, StoreTypeOK, ReaderTypeOK, LoopOK, ReaderOK,
    KeysOfReader, PeerOK, AbandonedOK, CommitOK, NoKeys, Asking, KeysAfterAccept, Waiting,
    ReaderPcs, senderFrame
<1>1. CASE
      \/ SenderPoll
      \/ \E t \in Transfers : SenderSkip(t)
  BY <1>1 DEF SenderPoll, RequestScanIds, SenderSkip
<1>2. CASE SenderExit
  BY <1>2 DEF SenderExit
<1>3. ASSUME NEW t \in Transfers, SenderFind(t) PROVE CommitOK'
  BY <1>3 DEF SenderFind
<1>4. CASE SenderCheckFails
  BY <1>4 DEF SenderCheckFails
<1>5. CASE SenderReadRequest
  BY <1>5 DEF SenderReadRequest
<1>6. CASE SenderClaim
  BY <1>6 DEF SenderClaim, ClaimTransferSnapshot
<1>7. CASE SenderDecides
  BY <1>7 DEF SenderDecides, Verdict
<1>8. CASE SenderSeesCancel
  BY <1>8 DEF SenderSeesCancel, BackToScan, DeleteRendezvousKeys
<1>9. CASE SenderDropsRequest
  BY <1>9 DEF SenderDropsRequest, BackToScan, ProcessRequestRaises
<1>10. CASE SenderWritesAck
  BY <1>10 DEF SenderWritesAck, Verdict, BackToScan
<1>11. CASE SenderCompletes
  BY <1>11 DEF SenderCompletes, BackToScan
<1>12. CASE SenderSendFails
  BY <1>12 DEF SenderSendFails, BackToScan
<1> QED
  BY <1>1, <1>2, <1>3, <1>4, <1>5, <1>6, <1>7, <1>8, <1>9, <1>10, <1>11, <1>12 DEF
      SenderNext

(* With every reader outside the transport there is no request to decide.   *)
LEMMA SenderKeepsSync ==
  ASSUME LoopOK, ReaderOK, KeysAtRest, AbandonedOK, SyncOK, SenderNext
  PROVE  SyncOK'
<1> USE NoneIsNobody DEF LoopOK, ReaderOK, KeysAtRest, AbandonedOK, SyncOK, NoKeys,
    Asking, KeysAfterAccept, senderFrame
<1>1. CASE
      \/ SenderPoll
      \/ \E t \in Transfers : SenderSkip(t)
  BY <1>1 DEF SenderPoll, RequestScanIds, SenderSkip
<1>2. CASE SenderExit
  BY <1>2 DEF SenderExit
<1>3. ASSUME NEW t \in Transfers, SenderFind(t) PROVE SyncOK'
  BY <1>3 DEF SenderFind
<1>4. CASE SenderCheckFails
  BY <1>4 DEF SenderCheckFails
<1>5. CASE SenderReadRequest
  BY <1>5 DEF SenderReadRequest
<1>6. CASE SenderClaim
  BY <1>6 DEF SenderClaim, ClaimTransferSnapshot
<1>7. CASE SenderDecides
  BY <1>7 DEF SenderDecides, Verdict
<1>8. CASE SenderSeesCancel
  BY <1>8 DEF SenderSeesCancel, BackToScan, DeleteRendezvousKeys
<1>9. CASE SenderDropsRequest
  BY <1>9 DEF SenderDropsRequest, BackToScan, ProcessRequestRaises
<1>10. CASE SenderWritesAck
  BY <1>10 DEF SenderWritesAck, Verdict, BackToScan
<1>11. CASE SenderCompletes
  BY <1>11 DEF SenderCompletes, BackToScan
<1>12. CASE SenderSendFails
  BY <1>12 DEF SenderSendFails, BackToScan
<1> QED
  BY <1>1, <1>2, <1>3, <1>4, <1>5, <1>6, <1>7, <1>8, <1>9, <1>10, <1>11, <1>12 DEF
      SenderNext

(* The writer and the controller end no read.                               *)
LEMMA WriterKeepsAbandoned ==
  ASSUME AbandonedOK, WriterNext
  PROVE  AbandonedOK'
<1> USE DEF AbandonedOK, writerFrame, keyVars
<1>1. CASE
      \/ CleanupReleases \/ CleanupDies \/ CloseBegin \/ CloseFinish \/ SyncBegin
      \/ FlushReturns \/ FlushTimesOut \/ SyncEnd
      \/ \E t \in Transfers : Discard(t) \/ CleanupDeletesManifest(t)
  BY <1>1 DEF Discard, CleanupDeletesManifest, KeepManifest, CleanupReleases,
      ReleaseTransfer, CleanupDies, CloseBegin, CloseFinish, SyncBegin, FlushReturns,
      Drained, FlushTimesOut, SyncEnd
<1>2. ASSUME NEW t \in Transfers, WriteRegister(t) PROVE AbandonedOK'
  BY <1>2 DEF WriteRegister
<1>3. ASSUME NEW t \in Transfers, WriteRefused(t) PROVE AbandonedOK'
  BY <1>3 DEF WriteRefused
<1>4. ASSUME NEW t \in Transfers, WritePublish(t) PROVE AbandonedOK'
  BY <1>4 DEF WritePublish
<1>5. ASSUME NEW t \in Transfers, WritePublishFails(t) PROVE AbandonedOK'
  BY <1>5 DEF WritePublishFails
<1>6. ASSUME NEW t \in Transfers, TrainerDrop(t) PROVE AbandonedOK'
  BY <1>6 DEF TrainerDrop
<1> QED
  BY <1>1, <1>2, <1>3, <1>4, <1>5, <1>6 DEF WriterNext

(* close() takes the communicator from under a commitment, never the keys.  *)
LEMMA WriterKeepsCommitments ==
  ASSUME CommitOK, WriterNext
  PROVE  CommitOK'
<1> USE DEF CommitOK, Waiting, writerFrame, loopVars, keyVars, readerVars
<1>1. CASE
      \/ CleanupReleases \/ CleanupDies \/ CloseBegin \/ CloseFinish \/ SyncBegin
      \/ FlushReturns \/ FlushTimesOut \/ SyncEnd
      \/ \E t \in Transfers : WriteRegister(t) \/ WriteRefused(t) \/ WritePublish(t)
            \/ WritePublishFails(t) \/ Discard(t) \/ TrainerDrop(t)
            \/ CleanupDeletesManifest(t)
  BY <1>1 DEF WriteRegister, WriteRefused, WritePublish, WritePublishFails, Discard,
      TrainerDrop, CleanupDeletesManifest, KeepManifest, CleanupReleases, ReleaseTransfer,
      CleanupDies, CloseBegin, CloseFinish, SyncBegin, FlushReturns, Drained,
      FlushTimesOut, SyncEnd
<1> QED
  BY <1>1 DEF WriterNext

(* A flush that finds nothing claimed finds the sender uncommitted: between *)
(* claim and completion the transfer in hand is claimed.                    *)
LEMMA WriterKeepsSync ==
  ASSUME LoopOK, ExclusiveOwnership, CommitOK, SyncOK, WriterNext
  PROVE  SyncOK'
<1> USE DEF LoopOK, ExclusiveOwnership, CommitOK, SyncOK, writerFrame, loopVars,
    readerVars
<1>1. CASE
      \/ CleanupReleases \/ CleanupDies
      \/ \E t \in Transfers : WriteRegister(t) \/ WriteRefused(t) \/ WritePublish(t)
            \/ WritePublishFails(t) \/ Discard(t) \/ TrainerDrop(t)
            \/ CleanupDeletesManifest(t)
  BY <1>1 DEF WriteRegister, WriteRefused, WritePublish, WritePublishFails, Discard,
      TrainerDrop, CleanupDeletesManifest, KeepManifest, CleanupReleases, ReleaseTransfer,
      CleanupDies
<1>2. CASE CloseBegin
  BY <1>2 DEF CloseBegin
<1>3. CASE CloseFinish
  BY <1>3 DEF CloseFinish
<1>4. CASE SyncBegin
  BY <1>4 DEF SyncBegin
<1>5. CASE FlushReturns
  BY <1>5 DEF FlushReturns, Drained
<1>6. CASE FlushTimesOut
  BY <1>6 DEF FlushTimesOut, Drained
<1>7. CASE SyncEnd
  BY <1>7 DEF SyncEnd
<1> QED
  BY <1>1, <1>2, <1>3, <1>4, <1>5, <1>6, <1>7 DEF WriterNext

(* The commitment is spent when the tensors have crossed.                   *)
LEMMA TransferKeepsCommitment ==
  ASSUME CommitmentInv, NEW r \in Receivers, NcclTransfer(r)
  PROVE  AbandonedOK' /\ CommitOK' /\ SyncOK'
  BY DEF CommitmentInv, RendezvousInv, OwnershipInv, TypeOK, ReaderTypeOK, NcclTransfer,
     keyVars, AbandonedOK, CommitOK, SyncOK

(* Every step keeps the commitment invariant.                               *)
LEMMA CommitmentStep ==
  ASSUME CommitmentsAreAwaited
  PROVE  CommitmentInv /\ [Next]_vars => CommitmentInv'
<1> SUFFICES ASSUME CommitmentInv, [Next]_vars PROVE CommitmentInv'
  OBVIOUS
<1> USE DEF CommitmentInv
<1>1. RendezvousInv'
  BY RendezvousStep
<1>2. /\ TypeOK /\ LoopOK /\ ExclusiveOwnership /\ FailedSenderHoldsNothing
      /\ ReaderOK /\ KeysOfReader /\ KeysAtRest /\ PeerOK /\ ServiceOK
  BY DEF RendezvousInv, OwnershipInv, MemoryOK
<1>3. CASE SenderNext
  BY <1>1, <1>2, <1>3, SenderKeepsAbandoned, SenderKeepsCommitments, SenderKeepsSync
<1>4. CASE ReceiverNext
  BY <1>1, <1>2, <1>4, ReceiverKeepsAbandoned, ReceiverKeepsCommitments, ReceiverKeepsSync
<1>5. CASE WriterNext
  BY <1>1, <1>2, <1>5, WriterKeepsAbandoned, WriterKeepsCommitments, WriterKeepsSync
<1>6. ASSUME NEW r \in Receivers, NcclTransfer(r) PROVE CommitmentInv'
  BY <1>1, <1>6, TransferKeepsCommitment
<1>7. CASE UNCHANGED vars
  BY <1>1, <1>7 DEF vars, registryVars, loopVars, keyVars, readerVars, AbandonedOK,
      CommitOK, Waiting, SyncOK
<1> QED
  BY <1>3, <1>4, <1>5, <1>6, <1>7 DEF Next

(* As long as committed requests are awaited, CommitmentInv holds in every  *)
(* reachable state.                                                         *)
THEOREM CommitmentInvariant ==
  ASSUME CommitmentsAreAwaited
  PROVE  Spec => []CommitmentInv
  BY CommitmentInit, CommitmentStep, PTL DEF Spec

(* Neither side parks alone in NCCL: what the README of the transport       *)
(* promises (nccl/README.md:370-372) holds when ACKs come within the two    *)
(* budgets of rendezvous.py:95-138.                                         *)
THEOREM NobodyParksAlone ==
  ASSUME CommitmentsAreAwaited
  PROVE  Spec => []NeitherParksAlone
<1>1. CommitmentInv => NeitherParksAlone
  BY DEF CommitmentInv, RendezvousInv, ServiceOK, CommitOK, NeitherParksAlone, Served
<1> QED
  BY <1>1, CommitmentInvariant, PTL

(* A flush that looks at claimed sends alone is enough to keep data sends   *)
(* out of the weight broadcast, given readers that sit outside the transport*)
(* while it runs (sender.py:176-206).                                       *)
THEOREM BroadcastIsQuiet ==
  ASSUME CommitmentsAreAwaited
  PROVE  Spec => []NoSendDuringBroadcast
<1>1. CommitmentInv => NoSendDuringBroadcast
  BY DEF CommitmentInv, SyncOK, NoSendDuringBroadcast
<1> QED
  BY <1>1, CommitmentInvariant, PTL

-----------------------------------------------------------------------------
SameHold == \A u \in Transfers : HoldOf(u)' = HoldOf(u)
SameAsk  == \A u \in Transfers : AskOf(u)' = AskOf(u)

(* Transfer t goes to v and no other moves.                                 *)
HoldGoes(t, v) == \A u \in Transfers : HoldOf(u)' = IF u = t THEN v ELSE HoldOf(u)
AskGoes(t, v)  == \A u \in Transfers : AskOf(u)' = IF u = t THEN v ELSE AskOf(u)

-----------------------------------------------------------------------------
(* STEPS OF HANDOFF *)

(* Nothing visible happens.                                                 *)
LEMMA Stutters ==
  ASSUME SameHold, SameAsk
  PROVE  [H!Next]_(H!vars)
  BY DEF SameHold, SameAsk, H!vars

(* Tensors come into being, or never will.                                  *)
LEMMA Writes ==
  ASSUME NEW t \in Transfers, HoldOf(t) = "unborn", SameAsk,
         HoldGoes(t, "held") \/ HoldGoes(t, "gone")
  PROVE  [H!Next]_(H!vars)
<1>1. H!Write(t) \/ H!Refuse(t)
  BY DEF HoldGoes, SameAsk, H!Write, H!Refuse
<1> QED
  BY <1>1 DEF H!Next

(* A reader asks for written tensors.                                       *)
LEMMA Asks ==
  ASSUME NEW t \in Transfers, AskOf(t) = "none", HoldOf(t) # "unborn", SameHold,
         AskGoes(t, "asking")
  PROVE  [H!Next]_(H!vars)
<1>1. H!Ask(t)
  BY DEF AskGoes, SameHold, H!Ask
<1> QED
  BY <1>1 DEF H!Next

(* A reader gives up.                                                       *)
LEMMA Raises ==
  ASSUME NEW t \in Transfers, AskOf(t) \in {"none", "asking"}, SameHold, AskGoes(t, "raised")
  PROVE  [H!Next]_(H!vars)
<1>1. H!Raise(t)
  BY DEF AskGoes, SameHold, H!Raise
<1> QED
  BY <1>1 DEF H!Next

(* The commit point.                                                        *)
LEMMA Commits ==
  ASSUME NEW t \in Transfers, HoldOf(t) = "held", AskOf(t) = "asking",
         \A u \in Transfers : HoldOf(u) # "committed", SameAsk, HoldGoes(t, "committed")
  PROVE  [H!Next]_(H!vars)
<1>1. H!Commit(t)
  BY DEF HoldGoes, SameAsk, H!Commit
<1> QED
  BY <1>1 DEF H!Next

(* Both sides leave the commitment with the tensors delivered.              *)
LEMMA Delivers ==
  ASSUME NEW t \in Transfers, HoldOf(t) = "committed", AskOf(t) = "asking",
         HoldGoes(t, "sent"), AskGoes(t, "got")
  PROVE  [H!Next]_(H!vars)
<1>1. H!Deliver(t)
  BY DEF HoldGoes, AskGoes, H!Deliver
<1> QED
  BY <1>1 DEF H!Next

(* A commitment is given up, or the tensors of a delivered one are freed.   *)
LEMMA Frees ==
  ASSUME NEW t \in Transfers, HoldOf(t) \in {"committed", "sent"}, SameAsk,
         HoldGoes(t, "gone")
  PROVE  [H!Next]_(H!vars)
<1>1. H!Lose(t) \/ H!Free(t)
  BY DEF HoldGoes, SameAsk, H!Lose, H!Free
<1> QED
  BY <1>1 DEF H!Next

(* A committed send fails and takes the held tensors along.                 *)
LEMMA Breaks ==
  ASSUME NEW t \in Transfers, HoldOf(t) = "committed", SameAsk,
         \A u \in Transfers :
           HoldOf(u)' = IF u = t \/ HoldOf(u) = "held" THEN "gone" ELSE HoldOf(u)
  PROVE  [H!Next]_(H!vars)
<1>1. H!Break(t)
  BY DEF SameAsk, H!Break
<1> QED
  BY <1>1 DEF H!Next

(* Held tensors are dropped.                                                *)
LEMMA Drops ==
  ASSUME NEW S \in SUBSET Transfers, \A t \in S : HoldOf(t) = "held", SameAsk,
         \A u \in Transfers : HoldOf(u)' = IF u \in S THEN "gone" ELSE HoldOf(u)
  PROVE  [H!Next]_(H!vars)
<1>1. H!Drop(S)
  BY DEF SameAsk, H!Drop
<1> QED
  BY <1>1 DEF H!Next

(* One transfer's held tensors are dropped.                                 *)
LEMMA DropsOne ==
  ASSUME NEW t \in Transfers, HoldOf(t) = "held", SameAsk, HoldGoes(t, "gone")
  PROVE  [H!Next]_(H!vars)
<1>1. \A u \in Transfers : HoldOf(u)' = IF u \in {t} THEN "gone" ELSE HoldOf(u)
  BY DEF HoldGoes
<1> QED
  BY <1>1, Drops

-----------------------------------------------------------------------------
(* THE SENDER *)

(* The loop does not move readers; a cancelled request is its reader's past. *)
LEMMA SenderKeepsAsks ==
  ASSUME SenderNext
  PROVE  SameAsk
  BY DEF SenderNext, SenderPoll, SenderExit, SenderSkip, SenderFind, SenderCheckFails,
     SenderReadRequest, SenderClaim, SenderDecides, SenderSeesCancel, SenderDropsRequest,
     SenderWritesAck, SenderCompletes, SenderSendFails, senderFrame, SameAsk, AskOf, Waiting

(* The decision to accept is the commit; a reader is there to be committed  *)
(* to because the compare_set found the request still open.                 *)
LEMMA DecisionCommits ==
  ASSUME CommitmentInv, CommitmentInv', SenderDecides
  PROVE  [H!Next]_(H!vars)
<1> USE DEF CommitmentInv, RendezvousInv, OwnershipInv, MemoryOK, SenderDecides,
    senderFrame, registryVars
<1>1. scur \in Transfers
  BY DEF LoopOK
<1>2. SameAsk
  BY DEF SameAsk, AskOf, Waiting
<1>3. CASE ~sown
  BY <1>2, <1>3, Stutters DEF SameHold, HoldOf
<1>4. CASE sown
  <2>1. HoldOf(scur) = "held" /\ HoldGoes(scur, "committed")
    BY <1>4 DEF HoldGoes, HoldOf
  <2>2. \A u \in Transfers : HoldOf(u) # "committed"
    BY DEF HoldOf
  <2>3. AskOf(scur) = "asking"
    BY <1>1 DEF AskOf, Waiting, CommitOK, ReaderOK, LoopOK
  <2> QED
    BY <1>1, <1>2, <2>1, <2>2, <2>3, Commits
<1> QED
  BY <1>3, <1>4

(* Every step of the sender loop.                                           *)
LEMMA SenderRefines ==
  ASSUME CommitmentInv, CommitmentInv', SenderNext
  PROVE  [H!Next]_(H!vars)
<1> USE DEF CommitmentInv, RendezvousInv, OwnershipInv, MemoryOK, senderFrame, registryVars
<1>0. SameAsk
  BY SenderKeepsAsks
<1>1. CASE SenderPoll \/ SenderExit \/ SenderCheckFails \/ SenderReadRequest
           \/ \E t \in Transfers : SenderSkip(t) \/ SenderFind(t)
  <2>1. SameHold
    BY <1>1 DEF SenderPoll, SenderExit, SenderCheckFails, SenderReadRequest, SenderSkip,
       SenderFind, SameHold, HoldOf, LoopOK
  <2> QED
    BY <1>0, <2>1, Stutters
<1>2. CASE SenderClaim
  <2>1. SameHold
    BY <1>2 DEF SenderClaim, ClaimTransferSnapshot, SameHold, HoldOf, LoopOK
  <2> QED
    BY <1>0, <2>1, Stutters
<1>3. CASE SenderDecides
  BY <1>3, DecisionCommits
<1>4. CASE (SenderSeesCancel \/ SenderDropsRequest) /\ ~sown
  <2>1. SameHold
    BY <1>4 DEF SenderSeesCancel, SenderDropsRequest, BackToScan, SameHold, HoldOf
  <2> QED
    BY <1>0, <2>1, Stutters
<1>5. CASE (SenderSeesCancel \/ (SenderDropsRequest /\ spc # "ack")) /\ sown
  <2>1. scur \in Transfers /\ HoldOf(scur) = "held" /\ HoldGoes(scur, "gone")
    BY <1>5 DEF SenderSeesCancel, SenderDropsRequest, ProcessRequestRaises, BackToScan,
       HoldOf, HoldGoes, Born, ExclusiveOwnership, LoopOK
  <2> QED
    BY <1>0, <2>1, DropsOne
<1>6. CASE SenderDropsRequest /\ spc = "ack" /\ sown
  <2>1. scur \in Transfers /\ HoldOf(scur) = "committed" /\ HoldGoes(scur, "gone")
    BY <1>6 DEF SenderDropsRequest, BackToScan, HoldOf, HoldGoes, Born, ExclusiveOwnership,
       LoopOK
  <2> QED
    BY <1>0, <2>1, Frees
<1>7. CASE SenderWritesAck
  <2>1. SameHold
    BY <1>7 DEF SenderWritesAck, BackToScan, SameHold, HoldOf
  <2> QED
    BY <1>0, <2>1, Stutters
<1>8. CASE SenderCompletes
  <2>1. scur \in Transfers /\ HoldOf(scur) = "sent" /\ HoldGoes(scur, "gone")
    BY <1>8 DEF SenderCompletes, BackToScan, HoldOf, HoldGoes, Born, ExclusiveOwnership,
        LoopOK
  <2> QED
    BY <1>0, <2>1, Frees
<1>9. CASE SenderSendFails
  <2>1. scur \in Transfers /\ HoldOf(scur) = "committed"
    BY <1>9 DEF SenderSendFails, HoldOf, LoopOK
  <2>2. \A u \in Transfers :
          HoldOf(u)' = IF u = scur \/ HoldOf(u) = "held" THEN "gone" ELSE HoldOf(u)
    BY <1>9, <2>1 DEF SenderSendFails, BackToScan, HoldOf, Born, ExclusiveOwnership, LoopOK
  <2> QED
    BY <1>0, <2>1, <2>2, Breaks
<1>10. CASE SenderSeesCancel \/ SenderDropsRequest
  <2>1. CASE ~sown
    BY <1>4, <1>10, <2>1
  <2>2. CASE SenderDropsRequest /\ spc = "ack" /\ sown
    BY <1>6, <2>2
  <2>3. CASE SenderSeesCancel /\ sown
    BY <1>5, <2>3
  <2>4. CASE SenderDropsRequest /\ spc # "ack" /\ sown
    BY <1>5, <2>4
  <2> QED
    BY <1>10, <2>1, <2>2, <2>3, <2>4
<1> QED
  BY <1>1, <1>2, <1>3, <1>7, <1>8, <1>9, <1>10 DEF SenderNext

-----------------------------------------------------------------------------
(* THE READERS *)

(* A reader moves no tensors; a handle that is read stays written.          *)
LEMMA ReceiverKeepsHolds ==
  ASSUME OwnershipInv, ReaderOK, ReceiverNext
  PROVE  SameHold
<1>1. UNCHANGED <<pending, spc, scur, sown>>
  BY DEF ReceiverNext, ReaderStep, ReadBegin, ReadNoManifest, ReadCheckFails,
      KeepManifest, ReadManifest, ReadNoRoute, ReadManifestFails, PublishState,
      PublishRequest, AckLands, AckTimeout, CancelWins, CancelLoses, GraceTimeout,
      TakeAccepted, TakeMissing, ReaderStoreFails, RecvFails, ReadDone, ReadIsWasted,
      readerFrame, registryVars, loopVars
<1>2. \A u \in Transfers : fate'[u] = "unborn" <=> fate[u] = "unborn"
  BY DEF ReceiverNext, ReaderStep, ReadBegin, ReadNoManifest, ReadCheckFails,
      KeepManifest, ReadManifest, ReadNoRoute, ReadManifestFails, PublishState,
      PublishRequest, AckLands, AckTimeout, CancelWins, CancelLoses, GraceTimeout,
      TakeAccepted, TakeMissing, ReaderStoreFails, RecvFails, ReadDone, ReadIsWasted,
      MayRead, RaiseAndDeleteManifest, Leave, ReaderOK, OwnershipInv, TypeOK, HandleTypeOK
<1> QED
  BY <1>1, <1>2 DEF SameHold, HoldOf

(* A read that raises, at whatever point, gives up asking.                  *)
LEMMA LeavingRaises ==
  ASSUME CommitmentInv, SameHold, NEW r \in Receivers, rpc[r] \notin {"idle", "unpack"},
         Leave(r, "raised")
  PROVE  [H!Next]_(H!vars)
<1> DEFINE t == rcur[r]
<1> USE DEF CommitmentInv, RendezvousInv, OwnershipInv, TypeOK, ReaderTypeOK, HandleTypeOK,
        ReaderOK, Leave
<1>1. t \in Transfers /\ fate[t] = "reading"
  OBVIOUS
<1>2. AskOf(t) \in {"none", "asking"}
  BY <1>1 DEF AskOf
<1>3. AskGoes(t, "raised")
  BY <1>1, NoneIsNobody DEF AskGoes, AskOf, Waiting
<1> QED
  BY <1>1, <1>2, <1>3, Raises

(* Every step of a reader.                                                  *)
LEMMA ReceiverRefines ==
  ASSUME CommitmentsAreAwaited, CommitmentInv, ReceiverNext
  PROVE  [H!Next]_(H!vars)
<1> USE DEF CommitmentInv, RendezvousInv, OwnershipInv, TypeOK, ReaderTypeOK, HandleTypeOK,
        ReaderOK
<1>0. SameHold
  BY ReceiverKeepsHolds
<1>1. ASSUME NEW r \in Receivers, NEW t \in Transfers, ReadBegin(r, t) PROVE [H!Next]_(H!vars)
  <2>1. SameAsk
    BY <1>1 DEF ReadBegin, MayRead, Go, SameAsk, AskOf, Waiting
  <2> QED
    BY <1>0, <2>1, Stutters
<1>2. ASSUME NEW r \in Receivers, NEW t \in Transfers,
           ReadNoManifest(r, t) \/ ReadCheckFails(r, t)
      PROVE  [H!Next]_(H!vars)
  <2>1. AskOf(t) \in {"none", "asking"} /\ AskGoes(t, "raised")
    BY <1>2 DEF ReadNoManifest, ReadCheckFails, KeepManifest, MayRead, readerVars,
        AskGoes, AskOf, Waiting
  <2> QED
    BY <1>0, <2>1, Raises
<1>3. ASSUME NEW r \in Receivers, PublishRequest(r) PROVE [H!Next]_(H!vars)
  <2>1. rcur[r] \in Transfers /\ fate[rcur[r]] = "reading"
    BY <1>3 DEF PublishRequest
  <2>2. AskOf(rcur[r]) = "none" /\ AskGoes(rcur[r], "asking")
    BY <1>3, <2>1 DEF PublishRequest, Go, AskGoes, AskOf, Waiting
  <2>3. HoldOf(rcur[r]) # "unborn"
    BY <2>1 DEF HoldOf
  <2> QED
    BY <1>0, <2>1, <2>2, <2>3, Asks
<1>4. ASSUME NEW r \in Receivers,
           ReadManifest(r) \/ PublishState(r) \/ AckLands(r) \/ AckTimeout(r)
           \/ CancelLoses(r) \/ TakeAccepted(r)
      PROVE  [H!Next]_(H!vars)
  <2>1. SameAsk
    BY <1>4 DEF ReadManifest, PublishState, AckLands, AckTimeout, CancelLoses, TakeAccepted,
       Go, SameAsk, AskOf, Waiting
  <2> QED
    BY <1>0, <2>1, Stutters
<1>5. ASSUME NEW r \in Receivers,
           ReadNoRoute(r) \/ ReadManifestFails(r) \/ CancelWins(r) \/ GraceTimeout(r)
           \/ TakeMissing(r) \/ ReaderStoreFails(r) \/ RecvFails(r)
      PROVE  [H!Next]_(H!vars)
  <2>1. rpc[r] \notin {"idle", "unpack"} /\ Leave(r, "raised")
    BY <1>5 DEF ReadNoRoute, ReadManifestFails, CancelWins, GraceTimeout, TakeMissing,
       ReaderStoreFails, RecvFails, RaiseAndDeleteManifest
  <2> QED
    BY <1>0, <2>1, LeavingRaises
<1>6. ASSUME NEW r \in Receivers, ReadDone(r) \/ ReadIsWasted(r) PROVE [H!Next]_(H!vars)
  <2>1. SameAsk
    BY <1>6, NoneIsNobody DEF ReadDone, ReadIsWasted, KeepManifest, Leave, SameAsk, AskOf,
        Waiting
  <2> QED
    BY <1>0, <2>1, Stutters
<1> QED
  BY <1>1, <1>2, <1>3, <1>4, <1>5, <1>6 DEF ReceiverNext, ReaderStep

-----------------------------------------------------------------------------
(* THE WRITER AND THE TRANSFER *)

(* The writer moves no reader.                                              *)
LEMMA WriterKeepsAsks ==
  ASSUME TypeOK, WriterNext
  PROVE  SameAsk
<1>1. UNCHANGED readerVars
  BY WriterLeavesKeys DEF writerFrame
<1>2. \A u \in Transfers : \A v \in {"got", "wasted", "raised"} : fate'[u] = v <=> fate[u] = v
  BY WriterDeliversNothing
<1> QED
  BY <1>1, <1>2 DEF readerVars, SameAsk, AskOf, Waiting

(* Every step of the writer: a write, a refusal, or the drop of what is held.*)
LEMMA WriterRefines ==
  ASSUME OwnershipInv, WriterNext
  PROVE  [H!Next]_(H!vars)
<1> USE DEF OwnershipInv, MemoryOK, TypeOK, HandleTypeOK, writerFrame, loopVars,
    registryVars
<1>0. SameAsk
  BY WriterKeepsAsks
<1>1. ASSUME NEW t \in Transfers, WriteRegister(t) PROVE [H!Next]_(H!vars)
  <2>1. HoldOf(t) = "unborn" /\ HoldGoes(t, "held")
    BY <1>1 DEF WriteRegister, HoldOf, HoldGoes, Born
  <2> QED
    BY <1>0, <2>1, Writes
<1>2. ASSUME NEW t \in Transfers, WriteRefused(t) PROVE [H!Next]_(H!vars)
  <2>1. HoldOf(t) = "unborn" /\ HoldGoes(t, "gone")
    BY <1>2 DEF WriteRefused, HoldOf, HoldGoes, Born
  <2> QED
    BY <1>0, <2>1, Writes
<1>3. CASE CloseFinish
  <2>1. pending \in SUBSET Transfers /\ \A t \in pending : HoldOf(t) = "held"
    BY DEF HoldOf, ExclusiveOwnership, RegistryTypeOK
  <2>2. \A u \in Transfers : HoldOf(u)' = IF u \in pending THEN "gone" ELSE HoldOf(u)
    BY <1>3 DEF CloseFinish, HoldOf, Born, ExclusiveOwnership
  <2> QED
    BY <1>0, <2>1, <2>2, Drops
<1>4. CASE CleanupReleases /\ ccur \in pending
  <2>1. ccur \in Transfers /\ HoldOf(ccur) = "held" /\ HoldGoes(ccur, "gone")
    BY <1>4 DEF CleanupReleases, ReleaseTransfer, HoldOf, HoldGoes, Born,
       ExclusiveOwnership, RegistryTypeOK
  <2> QED
    BY <1>0, <2>1, DropsOne
<1>5. ASSUME NEW t \in Transfers, WritePublishFails(t) PROVE [H!Next]_(H!vars)
  <2>1. CASE t \in pending
    <3>1. HoldOf(t) = "held" /\ HoldGoes(t, "gone")
      BY <1>5, <2>1 DEF WritePublishFails, HoldOf, HoldGoes, ExclusiveOwnership
    <3> QED
      BY <1>0, <3>1, DropsOne
  <2>2. CASE t \notin pending
    <3>1. SameHold
      BY <1>5, <2>2 DEF WritePublishFails, HoldOf, SameHold
    <3> QED
      BY <1>0, <3>1, Stutters
  <2> QED
    BY <2>1, <2>2
<1>6. CASE CleanupReleases /\ ccur \notin pending
  <2>1. SameHold
    BY <1>6 DEF CleanupReleases, ReleaseTransfer, SameHold, HoldOf
  <2> QED
    BY <1>0, <2>1, Stutters
<1>7. ASSUME NEW t \in Transfers, WritePublish(t) \/ TrainerDrop(t) PROVE [H!Next]_(H!vars)
  <2>1. SameHold
    BY <1>7 DEF WritePublish, TrainerDrop, SameHold, HoldOf
  <2> QED
    BY <1>0, <2>1, Stutters
<1>8. CASE \/ CleanupDies \/ CloseBegin \/ SyncBegin \/ FlushReturns \/ FlushTimesOut
           \/ SyncEnd \/ \E t \in Transfers : Discard(t) \/ CleanupDeletesManifest(t)
  <2>1. SameHold
    BY <1>8 DEF CleanupDies, CloseBegin, SyncBegin, FlushReturns, FlushTimesOut, SyncEnd,
       Discard, CleanupDeletesManifest, KeepManifest, SameHold, HoldOf
  <2> QED
    BY <1>0, <2>1, Stutters
<1> QED
  BY <1>1, <1>2, <1>3, <1>4, <1>5, <1>6, <1>7, <1>8 DEF WriterNext

(* The tensors cross: the delivery.                                         *)
LEMMA TransferDelivers ==
  ASSUME CommitmentInv, NEW r \in Receivers, NcclTransfer(r)
  PROVE  [H!Next]_(H!vars)
<1> USE DEF CommitmentInv, RendezvousInv, OwnershipInv, NcclTransfer, registryVars, TypeOK,
        ReaderTypeOK, ReaderOK
<1>1. rcur[r] = scur /\ scur \in Transfers /\ sown
  BY MeetingEndsAgree
<1>2. HoldOf(scur) = "committed" /\ HoldGoes(scur, "sent")
  BY <1>1 DEF HoldOf, HoldGoes
<1>3. AskOf(scur) = "asking" /\ AskGoes(scur, "got")
  BY <1>1 DEF AskOf, AskGoes, Waiting
<1> QED
  BY <1>1, <1>2, <1>3, Delivers

-----------------------------------------------------------------------------
(* THE REFINEMENT *)

(* Nothing is written and nobody asks at the start.                         *)
LEMMA InitRefines == Init => H!Init
  BY NoneIsNobody DEF Init, H!Init, HoldOf, AskOf, Waiting

(* Every step of the transport is a step of Handoff or changes nothing in   *)
(* it.                                                                      *)
LEMMA StepRefines ==
  ASSUME CommitmentsAreAwaited
  PROVE  CommitmentInv /\ CommitmentInv' /\ [Next]_vars => [H!Next]_(H!vars)
<1> SUFFICES ASSUME CommitmentInv, CommitmentInv', [Next]_vars PROVE [H!Next]_(H!vars)
  OBVIOUS
<1>1. CASE SenderNext
  BY <1>1, SenderRefines
<1>2. CASE ReceiverNext
  BY <1>2, ReceiverRefines
<1>3. CASE WriterNext
  BY <1>3, WriterRefines DEF CommitmentInv, RendezvousInv
<1>4. ASSUME NEW r \in Receivers, NcclTransfer(r) PROVE [H!Next]_(H!vars)
  BY <1>4, TransferDelivers
<1>5. CASE UNCHANGED vars
  <2>1. SameHold /\ SameAsk
    BY <1>5 DEF vars, registryVars, loopVars, readerVars, SameHold, SameAsk, HoldOf, AskOf,
       Waiting
  <2> QED
    BY <2>1, Stutters
<1> QED
  BY <1>1, <1>2, <1>3, <1>4, <1>5 DEF Next

(* The transport implements the hand-off as long as committed requests are  *)
(* awaited: one commit point (rendezvous.py:208-241), one committed transfer *)
(* at a time, delivery only out of a commitment.                            *)
THEOREM TransportImplementsHandoff ==
  ASSUME CommitmentsAreAwaited
  PROVE  Spec => ImplementsHandoff
  BY CommitmentInvariant, InitRefines, StepRefines, PTL DEF Spec, ImplementsHandoff, H!Spec
=============================================================================

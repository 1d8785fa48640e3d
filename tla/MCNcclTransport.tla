-------------------------- MODULE MCNcclTransport --------------------------
(* TLC instances of NcclTransport.                                          *)
EXTENDS NcclInvariant, TLC

Sym == Permutations(Transfers) \cup Permutations(Receivers)

(* Two instances share the events that are not about late or failing readers, *)
(* to keep each in reach.  A weight sync only keeps readers out.              *)
CoreEvents == AllEvents \ {"weight_sync", "slow_join", "redis_error"}

(* What a reader can meet; a rendezvous key that stays is never read again.  *)
ReaderEvents == AllEvents \ {"weight_sync", "key_error"}

(* Every event but the two that leave a committed sender without a reader.  *)
HandledEvents == AllEvents \ {"late_ack", "reader_error"}

(* A deployment in which nothing fails: discards and weight syncs happen.   *)
HealthyEvents == {"discard", "weight_sync"}

(* Failures that the transport makes good.                                  *)
MendedEvents == HealthyEvents \cup {"publish_error", "cleanup_error"}

(* One departure from a healthy deployment each.                            *)
LateAckEvents     == HealthyEvents \cup {"late_ack"}
TrainerDropEvents == HealthyEvents \cup {"trainer_drop"}
=============================================================================

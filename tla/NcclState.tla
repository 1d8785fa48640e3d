----------------------------- MODULE NcclState -----------------------------
(***************************************************************************)
(* Vocabulary and state of the NCCL episode transport of one rollout       *)
(* worker (alpagym_runtime/transport/nccl): the sender's registry and poll  *)
(* loop, the TCPStore keys of every transfer, the policy-side readers, the  *)
(* discard-cleanup subscriber and the two environment clocks that cut       *)
(* across them (close of the writer, R2R weight sync).                      *)
(*                                                                          *)
(* A transfer stands for one uuid handle and its tensors.  One rollout      *)
(* replica is modelled: every key sits under that replica's prefix and      *)
(* nothing is shared between prefixes.                                      *)
(***************************************************************************)
EXTENDS Naturals, FiniteSets

CONSTANTS
  Transfers,    \* handles the rollout worker may emit
  Receivers,    \* policy ranks, one NcclReceiver each
  MaxPending,   \* NcclSenderConfig.max_pending_transfers (0: unlimited)
  Events,       \* the environment events a behaviour may contain
  None          \* "no transfer", "no receiver"

AllEvents ==
  { "discard",          \* the controller publishes cleanup for a handle
    "trainer_drop",     \* the trainer filter drops a handle it was given
    "publish_error",    \* the manifest write of NcclEpisodeWriter.write raises
    "store_error",      \* a TCPStore call of the sender loop raises
    "reader_error",     \* a TCPStore call of a reader raises
    "cleanup_error",    \* the manifest delete of a cleanup raises, swallowed
    "key_error",        \* the delete of a rendezvous key raises, swallowed
    "redis_error",      \* the cleanup subscriber loses Redis
    "nccl_error",       \* an NCCL call fails or stalls past the watchdog
    "late_ack",         \* the ACK of an accepted request misses both budgets
    "close",            \* NcclEpisodeWriter.close runs
    "slow_join",        \* the sender thread outlives the join in close
    "weight_sync" }     \* R2R broadcasts happen

ASSUME TransportAssumption ==
  /\ MaxPending \in Nat
  /\ Events \subseteq AllEvents
  /\ None \notin Transfers
  /\ None \notin Receivers

VARIABLES
  pending,    \* NcclSender._pending_sends: held tensors
  claimed,    \* NcclSender._claimed_sends: tensors the loop is shipping
  released,   \* NcclSender._released_transfers: discard markers
  comm,       \* the sender's communicator: "up", "aborted" (comm_idx kept), "cleared"
  spc,        \* where the sender thread is
  scan,       \* ids left in the current pass over _request_scan_ids()
  scur,       \* transfer id of the request in hand
  sown,       \* process_request holds the claimed tensor map
  speer,      \* requester rank read from the request
  meta,       \* nccl_meta:<id> keys present
  stray,      \* history: a failed call left the manifest, or a key once accepted
  req,        \* nccl_req:<id>: the requester, or None
  st,         \* nccl_state:<id>
  ack,        \* nccl_ack:<id>
  rpc,        \* where each policy rank is inside get_policy_input
  rcur,       \* the transfer each policy rank is reading
  rcomm,      \* the rank still routes to this rollout's communicator
  fate,       \* what became of each handle
  disc,       \* the cleanup message of each handle: "no", "sent", "done"
  listening,  \* the cleanup subscriber thread runs its loop
  ccur,       \* the transfer the subscriber is releasing
  life,       \* the writer: "open", "stopping", "closed"
  sync        \* R2R weight sync: "off", "drain", "broadcast", "failed"

registryVars == <<pending, claimed, released, comm>>
loopVars     == <<spc, scan, scur, sown, speer>>
keyVars      == <<req, st, ack>>
readerVars   == <<rpc, rcur, rcomm>>
cleanupVars  == <<listening, ccur>>
vars == <<registryVars, loopVars, meta, stray, keyVars, readerVars, fate, disc,
          cleanupVars, life, sync>>

RendezvousStates == {"requested", "accepted", "missing", "cancelled"}
AckStatuses      == {"accepted", "missing"}
SenderPcs == {"scan", "read", "claim", "cas", "ack", "send", "complete", "exited"}
ReaderPcs == {"idle", "manifest", "publish", "request", "wait", "cancel",
              "grace", "answer", "recv", "unpack"}
Fates     == {"unborn", "writing", "queued", "reading", "got", "raised",
              "wasted", "unsent", "filtered"}

(* _delete_rendezvous_keys swallows the error of each key on its own: the    *)
(* keys it may leave, and the keys of one transfer gone but for those left.  *)
LeftKeys == IF "key_error" \in Events THEN {"req", "state", "ack"} ELSE {}

DeleteRendezvousKeys(t, left) ==
  /\ req' = IF "req" \in left THEN req ELSE [req EXCEPT ![t] = None]
  /\ st'  = IF "state" \in left THEN st ELSE [st EXCEPT ![t] = "absent"]
  /\ ack' = IF "ack" \in left THEN ack ELSE [ack EXCEPT ![t] = "absent"]

(* A call that should have led to the manifest's removal failed: it stays if *)
(* it is still there.                                                        *)
KeepManifest(t) == UNCHANGED meta /\ stray' = stray \cup (meta \cap {t})

RegistryTypeOK ==
  /\ pending \subseteq Transfers /\ claimed \subseteq Transfers
  /\ released \subseteq Transfers /\ comm \in {"up", "aborted", "cleared"}

LoopTypeOK ==
  /\ spc \in SenderPcs /\ scan \subseteq Transfers
  /\ scur \in Transfers \cup {None} /\ sown \in BOOLEAN
  /\ speer \in Receivers \cup {None}

StoreTypeOK ==
  /\ meta \subseteq Transfers /\ stray \subseteq Transfers
  /\ req \in [Transfers -> Receivers \cup {None}]
  /\ st \in [Transfers -> RendezvousStates \cup {"absent"}]
  /\ ack \in [Transfers -> AckStatuses \cup {"absent"}]

ReaderTypeOK ==
  /\ rpc \in [Receivers -> ReaderPcs]
  /\ rcur \in [Receivers -> Transfers \cup {None}]
  /\ \A r \in Receivers : rpc[r] # "idle" => rcur[r] # None
  /\ rcomm \in [Receivers -> BOOLEAN]

HandleTypeOK ==
  /\ fate \in [Transfers -> Fates] /\ disc \in [Transfers -> {"no", "sent", "done"}]

ClockTypeOK ==
  /\ listening \in BOOLEAN /\ ccur \in Transfers \cup {None}
  /\ life \in {"open", "stopping", "closed"}
  /\ sync \in {"off", "drain", "broadcast", "failed"}

TypeOK ==
  /\ RegistryTypeOK /\ LoopTypeOK /\ StoreTypeOK /\ ReaderTypeOK
  /\ HandleTypeOK /\ ClockTypeOK

(* After setup(): communicator up, sender thread and cleanup subscriber     *)
(* running, nothing registered and no per-transfer key in the store.        *)
Init ==
  /\ pending = {} /\ claimed = {} /\ released = {} /\ comm = "up"
  /\ spc = "scan" /\ scan = {} /\ scur = None /\ sown = FALSE /\ speer = None
  /\ meta = {} /\ stray = {}
  /\ req = [t \in Transfers |-> None]
  /\ st  = [t \in Transfers |-> "absent"]
  /\ ack = [t \in Transfers |-> "absent"]
  /\ rpc = [r \in Receivers |-> "idle"]
  /\ rcur = [r \in Receivers |-> None]
  /\ rcomm = [r \in Receivers |-> TRUE]
  /\ fate = [t \in Transfers |-> "unborn"]
  /\ disc = [t \in Transfers |-> "no"]
  /\ listening = TRUE /\ ccur = None
  /\ life = "open" /\ sync = "off"
=============================================================================

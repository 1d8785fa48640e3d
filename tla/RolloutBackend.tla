---------------------------- MODULE RolloutBackend ----------------------------
(***************************************************************************)
(* AlpagymRolloutBackend (cosmos/rollout_backend.py): builds engine, driver  *)
(* and worker, asks for episodes and awaits them, and takes everything down  *)
(* in an order.  The streaming worker (module StreamingWorker) is reduced to *)
(* a thread per running simulate() and a retry budget; one episode per       *)
(* payload, no substitute scenes.                                            *)
(***************************************************************************)
EXTENDS EpisodeReward

(* init_engine on DP rank 0: engine, endpoint, driver (serving and published)*)
StartDriver ==
  /\ backend = "fresh"
  /\ backend' = "serving" /\ accepting' = TRUE
  /\ UNCHANGED <<load, driverVars, episodeVars, expertVars, engineVars, grace, jobVars, genVars>>

(* ... the AlpaSim runtime answers within 60 seconds: worker, engine thread, *)
(* exit hook ...                                                             *)
StartEngine ==
  /\ backend = "serving"
  /\ backend' = "ready" /\ engine' = "ready"
  /\ UNCHANGED <<load, driverVars, episodeVars, expertVars, queue, batch, grace, accepting,
                 jobVars, genVars>>

(* ... or not: init_engine raises, and no exit hook stops the driver.        *)
ChannelTimesOut ==
  /\ backend = "serving" /\ "channel" \in load.faults
  /\ backend' = "failed"
  /\ UNCHANGED <<load, driverVars, episodeVars, expertVars, engineVars, grace, accepting,
                 jobVars, genVars>>

(* init_engine on any other rank: an engine for the weight sync, and no      *)
(* episodes.                                                                 *)
StartOtherRank ==
  /\ backend = "fresh" /\ backend' = "other"
  /\ UNCHANGED <<load, driverVars, episodeVars, expertVars, engineVars, grace, accepting,
                 jobVars, genVars>>

GenerateNothing ==
  /\ backend = "other" /\ gen = 0
  /\ given' = [p \in Payloads |-> "empty"] /\ gen' = load.payloads + 1
  /\ UNCHANGED <<load, driverVars, episodeVars, expertVars, engineVars, serverVars, jobVars>>

-----------------------------------------------------------------------------
(* submit_payload: a payload that is there already is not submitted again.   *)
SubmitAll(S) == job' = [p \in Payloads |-> IF p \in S /\ job[p] = "none" THEN "queued" ELSE job[p]]

EnqueuePrefetch(p) ==
  /\ backend = "ready" /\ gen = 0 /\ job[p] = "none"
  /\ SubmitAll({p})
  /\ UNCHANGED <<load, driverVars, episodeVars, expertVars, engineVars, serverVars, session,
                 tries, result, genVars>>

(* rollout_generation submits everything, then awaits in order.              *)
Generate ==
  /\ backend = "ready" /\ gen = 0
  /\ SubmitAll(Payloads) /\ gen' = 1
  /\ UNCHANGED <<load, driverVars, episodeVars, expertVars, engineVars, serverVars, session,
                 tries, result, given>>

AwaitResult ==
  /\ gen \in Payloads /\ result[gen] # "none"
  /\ given' = Append(given, result[gen]) /\ gen' = gen + 1
  /\ UNCHANGED <<load, driverVars, episodeVars, expertVars, engineVars, serverVars, jobVars>>

(* future.result(timeout): the payload counts as one without completions,    *)
(* and its job goes on.                                                      *)
AwaitTimesOut ==
  /\ gen \in Payloads /\ result[gen] = "none" /\ "await" \in load.faults
  /\ given' = Append(given, "empty") /\ gen' = gen + 1
  /\ UNCHANGED <<load, driverVars, episodeVars, expertVars, engineVars, serverVars, jobVars>>

-----------------------------------------------------------------------------
Simulating == {p \in Payloads : job[p] \in {"simulating", "popping"}}

NewSession == 1 + (CHOOSE n \in {0} \cup Sessions :
                     /\ \A p \in Payloads : session[p] <= n
                     /\ n = 0 \/ \E p \in Payloads : session[p] = n)

(* A worker thread calls simulate() with a uuid of its own choice.           *)
Simulate(p) ==
  /\ job[p] = "queued" /\ Cardinality(Simulating) < load.threads
  /\ job' = [job EXCEPT ![p] = "simulating"]
  /\ session' = [session EXCEPT ![p] = NewSession]
  /\ UNCHANGED <<load, driverVars, episodeVars, expertVars, engineVars, serverVars, tries,
                 result, genVars>>

(* simulate() returns after close_session has.                               *)
SimulateReturns(p) ==
  /\ job[p] = "simulating" /\ phase[session[p]] = "closed"
  /\ job' = [job EXCEPT ![p] = "popping"]
  /\ UNCHANGED <<load, driverVars, episodeVars, expertVars, engineVars, serverVars, session,
                 tries, result, genVars>>

(* Mutant: a payload that fails for good is not resolved.                    *)
ResolveEpisode(p, r) ==
  result' = [result EXCEPT ![p] = IF @ = "none" /\ r = "episode" THEN r ELSE @]

Resolve(p, r) == result' = [result EXCEPT ![p] = IF @ = "none" THEN r ELSE @]

(* Retry with a new uuid, or [] when the budget is spent.  What the driver   *)
(* holds of the failed session stays there.  Once the worker is shut down    *)
(* there is nobody to take the retry.                                        *)
OnRolloutFailed(p) ==
  /\ tries' = [tries EXCEPT ![p] = @ + 1]
  /\ IF tries[p] < load.retries /\ backend = "ready"
       THEN job' = [job EXCEPT ![p] = "queued"] /\ UNCHANGED result
       ELSE job' = [job EXCEPT ![p] = "done"] /\ Resolve(p, "empty")

SimulateFails(p) ==
  /\ job[p] = "simulating"
  /\ "simulate" \in load.faults \/ backend \in {"dismissed", "stopping", "joining", "down"}
  /\ OnRolloutFailed(p)
  /\ UNCHANGED <<load, driverVars, episodeVars, expertVars, engineVars, serverVars, session,
                 genVars>>

(* Mutant: the record is taken without a look at the collector.              *)
PopAtOnce(s) == TRUE

(* event.wait() returns, or there is no event.                               *)
CollectorIsDone(s) == collector[s] \in {"none", "done"}

(* pop_session_record, and the episode with its reward goes to the payload's *)
(* future.  A reward that cannot be computed fails the rollout, whose record  *)
(* is gone by then.                                                          *)
TakeRecord(p) ==
  /\ record' = [record EXCEPT ![session[p]] = "taken"]
  /\ \/ Rewarded(session[p]) /\ Resolve(p, "episode")
        /\ job' = [job EXCEPT ![p] = "done"] /\ UNCHANGED tries
     \/ ~Rewarded(session[p]) /\ OnRolloutFailed(p)

PopRecord(p) ==
  /\ job[p] = "popping" /\ CollectorIsDone(session[p])
  /\ TakeRecord(p)
  /\ UNCHANGED <<load, driverVars, episodeVars, futures, ask, tokens, collector, hurried,
                 engineVars, serverVars, session, genVars>>

Asked(s) == {i \in DOMAIN futures[s] : futures[s][i] # None}

(* event.wait(timeout=700) runs out.  One query alone takes the collector at *)
(* most 600 seconds.                                                         *)
PopGivesUp(p) ==
  LET s == session[p] IN
  /\ job[p] = "popping"
  /\ \/ collector[s] = "died"
     \/ collector[s] \in {"collect", "label"} /\ Cardinality(Asked(s)) > 1
  /\ TakeRecord(p)
  /\ hurried' = [hurried EXCEPT ![s] = TRUE]
  /\ UNCHANGED <<load, driverVars, episodeVars, futures, ask, tokens, collector, engineVars,
                 serverVars, session, genVars>>

-----------------------------------------------------------------------------
(* shutdown(), once: the worker resolves what is unresolved and starts       *)
(* nothing new ...                                                           *)
DismissWorker ==
  /\ backend = "ready" /\ backend' = "dismissed"
  /\ job' = [p \in Payloads |-> IF job[p] \in {"none", "queued"} THEN "done" ELSE job[p]]
  /\ result' = [p \in Payloads |-> IF job[p] # "none" /\ result[p] = "none" THEN "empty"
                                                                          ELSE result[p]]
  /\ UNCHANGED <<load, driverVars, episodeVars, expertVars, engineVars, grace, accepting,
                 session, tries, genVars>>

(* ... the server refuses new calls ...                                      *)
StopDriver ==
  /\ backend = "dismissed" /\ backend' = "stopping" /\ accepting' = FALSE
  /\ UNCHANGED <<load, driverVars, episodeVars, expertVars, engineVars, grace, jobVars, genVars>>

(* Mutant: the sentinel is posted without a wait for the calls in flight.    *)
NoWait == TRUE

(* .wait(): no handler is in a call any more.                                *)
CallsAreOver == \A s \in Sessions : rpc[s] = "idle"

(* ... waits for the calls in flight, or for 30 seconds, and posts the       *)
(* sentinel ...                                                              *)
StopEngine ==
  /\ backend = "stopping"
  /\ \/ CallsAreOver /\ UNCHANGED grace
     \/ ~CallsAreOver /\ "grace" \in load.faults /\ grace' = TRUE
  /\ backend' = "joining" /\ queue' = Append(queue, Shutdown)
  /\ UNCHANGED <<load, driverVars, episodeVars, expertVars, batch, engine, accepting, jobVars,
                 genVars>>

(* ... and joins the engine thread, for 30 seconds at most.                  *)
JoinEngine ==
  /\ backend = "joining" /\ (engine = "exited" \/ "grace" \in load.faults)
  /\ backend' = "down"
  /\ UNCHANGED <<load, driverVars, episodeVars, expertVars, engineVars, grace, accepting,
                 jobVars, genVars>>

WorkerNext(p) ==
  \/ Simulate(p) \/ SimulateReturns(p) \/ SimulateFails(p) \/ PopRecord(p) \/ PopGivesUp(p)

BackendNext ==
  \/ StartDriver \/ StartEngine \/ ChannelTimesOut \/ StartOtherRank \/ GenerateNothing
  \/ Generate \/ AwaitResult \/ AwaitTimesOut
  \/ \E p \in Payloads : EnqueuePrefetch(p) \/ WorkerNext(p)
  \/ DismissWorker \/ StopDriver \/ StopEngine \/ JoinEngine
=============================================================================

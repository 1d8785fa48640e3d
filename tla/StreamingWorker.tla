--------------------------- MODULE StreamingWorker ---------------------------
(***************************************************************************)
(* StreamingRolloutWorker (episode_runner/streaming_worker.py): payloads in, *)
(* one future per payload out, simulate(1) jobs run by a pool of threads.    *)
(* A worker thread is a program counter; its steps are the sections under    *)
(* _lock, the queue operations, and the writes made outside the lock when a  *)
(* poisoned payload is put on a substitute scene.                            *)
(***************************************************************************)
EXTENDS Integers, Sequences, FiniteSets

CONSTANTS
  Prompts,      \* prompt_idx values Cosmos submits
  States,       \* SharedPayloadState objects, one per fresh dispatch
  Workers,      \* simulate threads: max_concurrent_rollouts
  Targets,      \* values of rollouts_per_payload to consider
  MaxRetries,   \* max_scene_retries
  MaxFailures,  \* bound: how many simulate() calls fail in a behaviour
  None

ASSUME WorkerAssumption ==
  /\ Targets \subseteq Nat \ {0} /\ MaxRetries \in Nat /\ MaxFailures \in Nat
  /\ IsFiniteSet(Workers) /\ None \notin Prompts \cup States

VARIABLES
  nTarget,    \* rollouts_per_payload
  prompt,     \* prompt_idx of each state, None while it does not exist
  collected,  \* episodes collected
  retries,    \* retries_left
  failed,     \* permanently_failed
  resolved,   \* future_resolved
  future,     \* results set on the future, in order: their lengths
  active,     \* _active_payload_states
  retryQ,     \* jobs of priority 0
  freshQ,     \* jobs of priority 1
  sentinels,  \* None items of priority 2
  wpc,        \* where each worker thread is
  wjob,       \* its job
  lastGood,   \* _last_good_scene_id is set
  scenePool,  \* the scene pool file names a substitute scene
  closing,    \* shutdown(): "open", "closed", "drained", "dismissed", "done"
  orphans,    \* shutdown's list of unresolved states
  failures,   \* simulate() calls that failed so far
  revived     \* history: states that were put on a substitute scene

stateVars == <<prompt, collected, retries, failed, resolved, future>>
queueVars == <<retryQ, freshQ, sentinels>>
poolVars  == <<wpc, wjob>>
sceneVars == <<lastGood, scenePool>>
vars == <<nTarget, stateVars, active, queueVars, poolVars, sceneVars, closing, orphans,
          failures, revived>>

(* first: attempts = 0; fallback: is_fallback.                               *)
Job   == [state: States, first: BOOLEAN, fallback: BOOLEAN]
NoJob == None
WorkerPcs == {"get", "check", "simulate", "succeeded", "failed", "drop",
              "unfail", "unresolve", "requeue", "give", "giveNothing", "exited"}

TypeOK ==
  /\ nTarget \in Targets
  /\ prompt \in [States -> Prompts \cup {None}]
  /\ collected \in [States -> Nat] /\ retries \in [States -> Int]
  /\ failed \in [States -> BOOLEAN] /\ resolved \in [States -> BOOLEAN]
  /\ future \in [States -> Seq(Nat)]
  /\ active \in [Prompts -> States \cup {None}]
  /\ retryQ \in Seq(Job) /\ freshQ \in Seq(Job) /\ sentinels \in Nat
  /\ wpc \in [Workers -> WorkerPcs] /\ wjob \in [Workers -> Job \cup {NoJob}]
  /\ lastGood \in BOOLEAN /\ scenePool \in BOOLEAN
  /\ closing \in {"open", "closed", "drained", "dismissed", "done"}
  /\ orphans \subseteq States /\ failures \in Nat /\ revived \subseteq States

Init ==
  /\ nTarget \in Targets
  /\ prompt = [s \in States |-> None]
  /\ collected = [s \in States |-> 0] /\ retries = [s \in States |-> 0]
  /\ failed = [s \in States |-> FALSE] /\ resolved = [s \in States |-> FALSE]
  /\ future = [s \in States |-> <<>>]
  /\ active = [p \in Prompts |-> None]
  /\ retryQ = <<>> /\ freshQ = <<>> /\ sentinels = 0
  /\ wpc = [w \in Workers |-> "get"] /\ wjob = [w \in Workers |-> NoJob]
  /\ lastGood = FALSE /\ scenePool \in BOOLEAN
  /\ closing = "open" /\ orphans = {} /\ failures = 0 /\ revived = {}

Goto(w, pc) == wpc' = [wpc EXCEPT ![w] = pc]
Finish(w)   == Goto(w, "get") /\ wjob' = [wjob EXCEPT ![w] = NoJob]
SetResult(s, n) == future' = [future EXCEPT ![s] = Append(@, n)]

-----------------------------------------------------------------------------
(* submit_payload: a prompt that is in the index gets the state it has (no   *)
(* change); any other one is dispatched, rollouts_per_payload jobs at once.  *)
Submit(p, s) ==
  /\ closing = "open" /\ active[p] = None /\ prompt[s] = None
  /\ prompt' = [prompt EXCEPT ![s] = p]
  /\ retries' = [retries EXCEPT ![s] = MaxRetries]
  /\ active' = [active EXCEPT ![p] = s]
  /\ freshQ' = freshQ \o
       [i \in 1 .. nTarget |-> [state |-> s, first |-> TRUE, fallback |-> FALSE]]
  /\ UNCHANGED <<nTarget, collected, failed, resolved, future, retryQ, sentinels, poolVars,
                 sceneVars, closing, orphans, failures, revived>>

(* queue.get: lowest priority value first, FIFO within one.                  *)
TakeJob(w) ==
  /\ wpc[w] = "get"
  /\ \/ /\ retryQ # <<>>
        /\ wjob' = [wjob EXCEPT ![w] = Head(retryQ)] /\ retryQ' = Tail(retryQ)
        /\ UNCHANGED freshQ
     \/ /\ retryQ = <<>> /\ freshQ # <<>>
        /\ wjob' = [wjob EXCEPT ![w] = Head(freshQ)] /\ freshQ' = Tail(freshQ)
        /\ UNCHANGED retryQ
  /\ Goto(w, "check")
  /\ UNCHANGED <<nTarget, stateVars, active, sentinels, sceneVars, closing, orphans,
                 failures, revived>>

TakeSentinel(w) ==
  /\ wpc[w] = "get" /\ retryQ = <<>> /\ freshQ = <<>> /\ sentinels > 0
  /\ sentinels' = sentinels - 1
  /\ Goto(w, "exited")
  /\ UNCHANGED <<nTarget, stateVars, active, retryQ, freshQ, wjob, sceneVars, closing,
                 orphans, failures, revived>>

(* _rollout_worker_loop reads permanently_failed without the lock.           *)
CheckJob(w) ==
  /\ wpc[w] = "check"
  /\ IF failed[wjob[w].state] THEN Finish(w) ELSE Goto(w, "simulate") /\ UNCHANGED wjob
  /\ UNCHANGED <<nTarget, stateVars, active, queueVars, sceneVars, closing, orphans,
                 failures, revived>>

(* simulate() and everything that turns its return into an episode; the      *)
(* scene of a first attempt that worked becomes the substitute scene.        *)
SimulateSucceeds(w) ==
  /\ wpc[w] = "simulate"
  /\ lastGood' = (lastGood \/ (wjob[w].first /\ ~wjob[w].fallback))
  /\ Goto(w, "succeeded")
  /\ UNCHANGED <<nTarget, stateVars, active, queueVars, wjob, scenePool, closing, orphans,
                 failures, revived>>

SimulateFails(w) ==
  /\ wpc[w] = "simulate" /\ failures < MaxFailures
  /\ failures' = failures + 1
  /\ Goto(w, "failed")
  /\ UNCHANGED <<nTarget, stateVars, active, queueVars, wjob, sceneVars, closing, orphans,
                 revived>>

(* Mutant: a payload that resolves stays in the index.                        *)
StayIndexed(s) == UNCHANGED active

(* _active_payload_states.pop(prompt_idx, None): whatever state is there.    *)
Unindex(s) == active' = [active EXCEPT ![prompt[s]] = None]

(* This episode completes the payload, and nobody has resolved it yet.       *)
Completes(s) == collected[s] + 1 >= nTarget /\ ~resolved[s]

(* _on_rollout_succeeded, under the lock.                                    *)
Collect(w) ==
  LET s == wjob[w].state IN
  /\ wpc[w] = "succeeded"
  /\ IF failed[s]
       THEN Finish(w) /\ UNCHANGED <<collected, resolved, active>>
       ELSE /\ collected' = [collected EXCEPT ![s] = @ + 1]
            /\ IF Completes(s)
                 THEN /\ resolved' = [resolved EXCEPT ![s] = TRUE]
                      /\ Unindex(s)
                      /\ Goto(w, "give") /\ UNCHANGED wjob
                 ELSE Finish(w) /\ UNCHANGED <<resolved, active>>
  /\ UNCHANGED <<nTarget, prompt, retries, failed, future, queueVars, sceneVars, closing,
                 orphans, failures, revived>>

(* future.set_result(collected[: n_target]) after the lock is released.      *)
Give(w) ==
  /\ wpc[w] = "give"
  /\ SetResult(wjob[w].state, nTarget)
  /\ Finish(w)
  /\ UNCHANGED <<nTarget, prompt, collected, retries, failed, resolved, active, queueVars,
                 sceneVars, closing, orphans, failures, revived>>

-----------------------------------------------------------------------------
(* Mutant: the retry is not put back on the queue.                           *)
RetryForgotten(w, s) == UNCHANGED retryQ

(* Mutant: the job carries the prompt instead of the shared state.           *)
RetryOfPrompt(w, s) ==
  retryQ' = Append(retryQ, [state |-> prompt[s], first |-> FALSE, fallback |-> FALSE])

(* The retry runs the same scene; is_fallback is not carried over.           *)
Retry(w, s) == retryQ' = Append(retryQ, [state |-> s, first |-> FALSE, fallback |-> FALSE])

(* _on_rollout_failed, under the lock: retry while the budget lasts, then    *)
(* mark the payload failed and, once, take its future.                       *)
RetryOrDrop(w) ==
  LET s == wjob[w].state IN
  /\ wpc[w] = "failed"
  /\ \/ /\ failed[s]
        /\ Finish(w) /\ UNCHANGED <<retries, failed, resolved, active, retryQ>>
     \/ /\ ~failed[s] /\ retries[s] > 0
        /\ retries' = [retries EXCEPT ![s] = @ - 1]
        /\ Retry(w, s)
        /\ Finish(w) /\ UNCHANGED <<failed, resolved, active>>
     \/ /\ ~failed[s] /\ retries[s] <= 0
        /\ retries' = [retries EXCEPT ![s] = @ - 1]
        /\ failed' = [failed EXCEPT ![s] = TRUE]
        /\ IF resolved[s]
             THEN Finish(w) /\ UNCHANGED <<resolved, active>>
             ELSE /\ resolved' = [resolved EXCEPT ![s] = TRUE]
                  /\ Unindex(s)
                  /\ Goto(w, "drop") /\ UNCHANGED wjob
        /\ UNCHANGED retryQ
  /\ UNCHANGED <<nTarget, prompt, collected, future, freshQ, sentinels, sceneVars, closing,
                 orphans, failures, revived>>

(* The rest of _on_rollout_failed runs without the lock.  A substitute scene *)
(* is the last good one or, failing that, one from the scene pool file.      *)
PickSubstitute(w) ==
  /\ wpc[w] = "drop"
  /\ lastGood' = (lastGood \/ scenePool)
  /\ Goto(w, IF lastGood' /\ ~wjob[w].fallback THEN "unfail" ELSE "giveNothing")
  /\ UNCHANGED <<nTarget, stateVars, active, queueVars, wjob, scenePool, closing, orphans,
                 failures, revived>>

(* The three writes that bring the payload back, in order.                   *)
ClearFailed(w) ==
  /\ wpc[w] = "unfail"
  /\ failed' = [failed EXCEPT ![wjob[w].state] = FALSE]
  /\ revived' = revived \cup {wjob[w].state}
  /\ Goto(w, "unresolve")
  /\ UNCHANGED <<nTarget, prompt, collected, retries, resolved, future, active, queueVars,
                 wjob, sceneVars, closing, orphans, failures>>

ClearResolved(w) ==
  /\ wpc[w] = "unresolve"
  /\ resolved' = [resolved EXCEPT ![wjob[w].state] = FALSE]
  /\ Goto(w, "requeue")
  /\ UNCHANGED <<nTarget, prompt, collected, retries, failed, future, active, queueVars,
                 wjob, sceneVars, closing, orphans, failures, revived>>

Requeue(w) ==
  /\ wpc[w] = "requeue"
  /\ retries' = [retries EXCEPT ![wjob[w].state] = MaxRetries]
  /\ retryQ' = Append(retryQ, [state |-> wjob[w].state, first |-> TRUE, fallback |-> TRUE])
  /\ Finish(w)
  /\ UNCHANGED <<nTarget, prompt, collected, failed, resolved, future, active, freshQ,
                 sentinels, sceneVars, closing, orphans, failures, revived>>

(* No substitute: the payload is dropped.                                    *)
GiveNothing(w) ==
  /\ wpc[w] = "giveNothing"
  /\ SetResult(wjob[w].state, 0)
  /\ Finish(w)
  /\ UNCHANGED <<nTarget, prompt, collected, retries, failed, resolved, active, queueVars,
                 sceneVars, closing, orphans, failures, revived>>

-----------------------------------------------------------------------------
(* Mutant: shutdown marks nothing.                                           *)
MarkNone(S) == UNCHANGED <<resolved, failed>>

MarkOrphans(S) ==
  /\ resolved' = [s \in States |-> s \in S \/ resolved[s]]
  /\ failed'   = [s \in States |-> s \in S \/ failed[s]]

(* shutdown(), under the lock ...                                            *)
CloseIndex ==
  /\ closing = "open" /\ closing' = "closed"
  /\ LET S == {s \in States : (\E p \in Prompts : active[p] = s) /\ ~resolved[s]} IN
       orphans' = S /\ MarkOrphans(S)
  /\ active' = [p \in Prompts |-> None]
  /\ UNCHANGED <<nTarget, prompt, collected, retries, future, queueVars, poolVars, sceneVars,
                 failures, revived>>

(* ... then get_nowait until it finds the queue empty, racing the threads    *)
(* that take jobs and put them, ...                                          *)
DrainQueue ==
  /\ closing = "closed"
  /\ \/ /\ retryQ # <<>> /\ retryQ' = Tail(retryQ)
        /\ UNCHANGED <<freshQ, closing>>
     \/ /\ retryQ = <<>> /\ freshQ # <<>> /\ freshQ' = Tail(freshQ)
        /\ UNCHANGED <<retryQ, closing>>
     \/ /\ retryQ = <<>> /\ freshQ = <<>> /\ closing' = "drained"
        /\ UNCHANGED <<retryQ, freshQ>>
  /\ UNCHANGED <<nTarget, stateVars, active, sentinels, poolVars, sceneVars, orphans,
                 failures, revived>>

(* Mutant: one sentinel for the whole pool.                                  *)
OneSentinel == 1

(* ... then one sentinel per thread, and the orphaned futures.               *)
SentinelCount == Cardinality(Workers)

Dismiss ==
  /\ closing = "drained" /\ closing' = "dismissed"
  /\ sentinels' = SentinelCount
  /\ UNCHANGED <<nTarget, stateVars, active, retryQ, freshQ, poolVars, sceneVars, orphans,
                 failures, revived>>

ResolveOrphans ==
  /\ closing = "dismissed" /\ closing' = "done"
  /\ future' = [s \in States |-> IF s \in orphans THEN Append(future[s], 0) ELSE future[s]]
  /\ UNCHANGED <<nTarget, prompt, collected, retries, failed, resolved, active, queueVars,
                 poolVars, sceneVars, orphans, failures, revived>>

Shutdown == CloseIndex \/ DrainQueue \/ Dismiss \/ ResolveOrphans

Pool(w) ==
  \/ TakeJob(w) \/ TakeSentinel(w) \/ CheckJob(w)
  \/ SimulateSucceeds(w) \/ SimulateFails(w)
  \/ Collect(w) \/ Give(w) \/ RetryOrDrop(w)
  \/ PickSubstitute(w) \/ ClearFailed(w) \/ ClearResolved(w) \/ Requeue(w) \/ GiveNothing(w)

Next ==
  \/ \E p \in Prompts, s \in States : Submit(p, s)
  \/ \E w \in Workers : Pool(w)
  \/ Shutdown

Spec == Init /\ [][Next]_vars

(* Threads run, simulate() returns within its timeout, and a shutdown that    *)
(* has begun is carried through.                                             *)
FairSpec ==
  /\ Spec
  /\ \A w \in Workers : WF_vars(Pool(w))
  /\ WF_vars(DrainQueue \/ Dismiss \/ ResolveOrphans)

-----------------------------------------------------------------------------
(* set_result is called at most once on a future (a second call would raise  *)
(* in the middle of _run_rollout), and with all n_target episodes or none.   *)
ResolvedOnce ==
  \A s \in States : Len(future[s]) <= 1 /\ (future[s] # <<>> => future[s][1] \in {0, nTarget})

JobsOf(s, q) == Cardinality({i \in DOMAIN q : q[i].state = s})

(* Threads that still owe the payload an episode or a retry.                 *)
Busy(s) ==
  {w \in Workers : /\ wpc[w] \in {"check", "simulate", "succeeded", "failed"}
                   /\ wjob[w].state = s}

(* No sibling is lost: a payload that is neither finished nor failed has     *)
(* every missing episode queued or under way.  A payload that was put on a   *)
(* substitute scene gets one job for it however many siblings it has lost,   *)
(* so nothing is said of those.                                              *)
SiblingsAreConserved ==
  \A s \in States :
    closing = "open" /\ prompt[s] # None /\ ~failed[s] /\ ~resolved[s] /\ s \notin revived =>
      collected[s] + JobsOf(s, retryQ) + JobsOf(s, freshQ) + Cardinality(Busy(s)) = nTarget

(* What the index returns to a repeated submit is a live payload of that     *)
(* very prompt, and, as long as no payload of the prompt was put on a        *)
(* substitute scene, every live payload is there: nothing is dispatched      *)
(* twice and shutdown misses nothing.                                        *)
IndexIsExact ==
  /\ \A p \in Prompts : active[p] # None =>
       prompt[active[p]] = p /\ ~resolved[active[p]] /\ future[active[p]] = <<>>
  /\ closing = "open" =>
       \A s \in States :
         /\ prompt[s] # None /\ ~resolved[s]
         /\ \A z \in revived : prompt[z] # prompt[s]
         => active[prompt[s]] = s

(* The work on a payload and the index agree with what is left to be done.   *)
PayloadsAreTracked == SiblingsAreConserved /\ IndexIsExact

(* "Stop accepting payloads, resolve every unresolved future with []": when  *)
(* shutdown has returned and the threads are gone, every future is resolved. *)
ShutdownResolvesAll ==
  closing = "done" /\ (\A w \in Workers : wpc[w] = "exited") =>
    \A s \in States : prompt[s] # None => future[s] # <<>>

(* With one rollout per payload, every payload that is submitted gets an      *)
(* answer as long as the worker is not shut down and simulate() does not go   *)
(* on failing for ever (MaxFailures bounds it): retries, drops and substitute *)
(* scenes lose no payload.                                                    *)
EveryPayloadAnswered ==
  \A s \in States :
    prompt[s] # None /\ nTarget = 1 ~> future[s] # <<>> \/ closing # "open"

(* shutdown dismisses every thread.                                          *)
ThreadsExit == closing = "dismissed" ~> \A w \in Workers : wpc[w] = "exited"
=============================================================================

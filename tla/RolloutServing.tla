---------------------------- MODULE RolloutServing ----------------------------
(***************************************************************************)
(* The rollout process as a whole, until its engine thread ends it: what    *)
(* driver, engine, expert and backend guarantee together.                    *)
(***************************************************************************)
EXTENDS RolloutBackend

Next ==
  /\ engine # "dead"
  /\ \/ EngineNext \/ BackendNext
     \/ \E s \in Sessions :
          DriverNext(s) \/ \E recording \in load.recordings : SubmitGroundTruth(s, recording)

Spec == Init /\ [][Next]_vars

AllPayloads == UNION {1 .. l.payloads : l \in Loads}
AllSessions == UNION {1 .. l.payloads * (l.retries + 1) : l \in Loads}

(* Threads run, init_engine goes on, AlpaSim ends a session it has begun,    *)
(* and every wait for the expert ends by an answer or by its timeout.        *)
FairSpec ==
  /\ Spec
  /\ WF_vars(engine # "dead" /\ EngineNext)
  /\ WF_vars(engine # "dead" /\ AwaitResult)
  /\ \A p \in AllPayloads : WF_vars(engine # "dead" /\ p \in Payloads /\ WorkerNext(p))
  /\ \A s \in AllSessions : WF_vars(engine # "dead" /\ s \in Sessions /\ DriverNext(s))

-----------------------------------------------------------------------------
(* A label sits on the tick the expert was asked about, whatever ticks       *)
(* before it failed, had no query or got no answer: futures, tokens and      *)
(* outputs are matched by position alone (expert_futures, record.outputs).   *)
LabelsMatchTicks ==
  \A s \in Sessions : \A i \in DOMAIN outputs[s] :
    outputs[s][i].label \in {None, outputs[s][i].tick}

(* What the record says was done is what AlpaSim was told to do, and a step  *)
(* the expert drove is labelled and kept out of the policy gradient          *)
(* ("the recorded output matches the actually-executed trajectory").         *)
ActionsAreAttributed ==
  \A s \in Sessions :
    /\ drove[s] = [i \in DOMAIN outputs[s] |-> outputs[s][i].driver]
    /\ \A i \in DOMAIN outputs[s] :
         outputs[s][i].driver = "expert" =>
           outputs[s][i].masked /\ outputs[s][i].label = outputs[s][i].tick

(* The executed trajectory of an episode goes forward in time, however       *)
(* AlpaSim splits, repeats or reorders the poses it submits: the reward      *)
(* refuses any other ("requires strictly increasing executed timestamps").   *)
ExecutedMovesForward == \A s \in Sessions : Increasing(executed[s])

(* A record that left the driver, after a wait that did not run out, has     *)
(* every label its collector got, and nobody is still writing to it ("so the *)
(* rollout worker receives the fully-labeled record").                       *)
PoppedIsSettled ==
  \A s \in Sessions : record[s] = "taken" /\ ~hurried[s] =>
    /\ collector[s] \in {"none", "done"}
    /\ \A i \in DOMAIN tokens[s] : tokens[s][i] # None => outputs[s][i].label = tokens[s][i]

(* The engine thread does not leave a handler waiting: once it has returned, *)
(* no drive call is before or in its wait for an answer, unless the grace    *)
(* period of the driver ran out before the sentinel was posted.              *)
NobodyIsStranded ==
  engine = "exited" /\ ~grace =>
    queue = <<>> /\ \A s \in Sessions : rpc[s] \notin {"ask", "infer"}

(* rollout_generation returns, one result per payload: failures, retries, a  *)
(* shutdown in the middle, lost expert answers leave no future unresolved.   *)
GenerationReturns ==
  gen # 0 ~> gen = load.payloads + 1 \/ engine = "dead"
=============================================================================

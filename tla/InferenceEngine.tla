--------------------------- MODULE InferenceEngine ---------------------------
(* InferenceEngine (inference/inference_engine.py): handlers put a request    *)
(* and wait for its future; one thread answers them batch by batch.           *)
EXTENDS ServingState

(* infer(): a handler waits for one future at a time.                        *)
Infer(s) == queue' = Append(queue, s)

(* The engine thread collects: a blocking get, then get_nowait until the     *)
(* batch is full, the queue is empty or the sentinel comes out.              *)
RequestsAhead(q) ==
  IF Shutdown \in Range(q) THEN CHOOSE n \in 0 .. Len(q) - 1 : q[n + 1] = Shutdown
                           ELSE Len(q)

(* Mutant: the batch is taken without its bound.                              *)
AnyBatchSize(q) == RequestsAhead(q)

BatchSize(q) == Least(MaxBatch, RequestsAhead(q))

CollectBatch ==
  /\ engine = "ready" /\ BatchSize(queue) > 0
  /\ batch' = SubSeq(queue, 1, BatchSize(queue))
  /\ queue' = SubSeq(queue, BatchSize(queue) + 1, Len(queue))
  /\ engine' = "forward"
  /\ UNCHANGED <<load, driverVars, episodeVars, expertVars, serverVars, jobVars, genVars>>

(* stack() and unbind(): row i of the outputs is the answer to request i.    *)
Unbound(b) == [s \in Sessions |-> IF s \in Range(b) THEN "answered" ELSE rpc[s]]

(* The forward pass; every future of the batch gets its answer.  A sentinel  *)
(* met while the batch was being filled is honoured now; one that is still   *)
(* in the queue is the next get.                                             *)
AnswerBatch ==
  /\ engine = "forward"
  /\ rpc' = Unbound(batch)
  /\ batch' = <<>> /\ engine' = "ready"
  /\ UNCHANGED <<load, truth, phase, tick, step, now, buf, episodeVars, expertVars, queue, serverVars,
                 jobVars, genVars>>

(* Any exception of the forward pass, of stacking or of unbinding ends the   *)
(* process at once (os._exit), whoever waits.                                *)
ForwardRaises ==
  /\ engine = "forward" /\ "forward" \in load.faults
  /\ engine' = "dead"
  /\ UNCHANGED <<load, driverVars, episodeVars, expertVars, queue, batch, serverVars, jobVars,
                 genVars>>

TakeSentinel ==
  /\ engine = "ready" /\ queue # <<>> /\ queue[1] = Shutdown
  /\ queue' = Tail(queue) /\ engine' = "exited"
  /\ UNCHANGED <<load, driverVars, episodeVars, expertVars, batch, serverVars, jobVars, genVars>>

EngineNext == CollectBatch \/ AnswerBatch \/ ForwardRaises \/ TakeSentinel
=============================================================================

---------------------------- MODULE GrpoTrainer ----------------------------
(***************************************************************************)
(* AlpagymGRPOTrainer on every policy rank: one step filters the rollouts   *)
(* Cosmos dispatched, loads their artifacts into one pool of rows, and runs  *)
(* shuffled minibatches whose gradients are reduced across all ranks.        *)
(***************************************************************************)
EXTENDS ReplayPacking

(* A handle carries a fresh uuid, here the episode.                         *)
Path(e) == <<case.episodes[e].session, e>>

(* get_rollout_output on the rollout worker: the artifact appears whole, or *)
(* packing it raises and the worker ends.                                    *)
NextWrite      == written + 1
WriterHasEnded == NextWrite \in Episodes /\ ~ Ships(case, NextWrite)

WriteEpisode ==
  LET e == NextWrite IN
  /\ e \in Episodes /\ ~ WriterHasEnded
  /\ written' = e
  /\ files' = [p \in DOMAIN files \cup {Path(e)} |-> IF p = Path(e) THEN e ELSE files[p]]
  /\ UNCHANGED <<case, rankVars>>

Raise(r, why) ==
  /\ stage' = [stage EXCEPT ![r] = "raised"]
  /\ failure' = [failure EXCEPT ![r] = why]

Enter(r, at) == stage' = [stage EXCEPT ![r] = at]

(* Cosmos constructs the trainer, and calls step_training once all ranks    *)
(* are done with the previous step and the rollouts are dispatched.          *)
InitTrainer(r) ==
  /\ stage[r] = "new"
  /\ Enter(r, "idle")
  /\ UNCHANGED <<case, workerVars, step, failure, loopVars, modelVars>>

TrainerFails(r) ==
  /\ stage[r] = "new"
  /\ Raise(r, "init")
  /\ UNCHANGED <<case, workerVars, step, loopVars, modelVars>>

Dispatched(r) ==
  /\ step[r] + 1 \in Steps
  /\ \A e \in Range(case.feed[step[r] + 1][r]) : e <= written
  /\ \A q \in Live : stage[q] # "new" /\ (stage[q] = "idle" \/ step[q] > step[r])

(* filter_trainable_rollouts.                                               *)
Received(r)   == case.feed[step[r] + 1][r]
Version(e)    == case.episodes[e].version
Fresher(s, i) ==
  {j \in DOMAIN s : Version(s[j]) > Version(s[i]) \/ (Version(s[j]) = Version(s[i]) /\ j < i)}
FreshFirst(s) ==
  [n \in DOMAIN s |-> s[CHOOSE i \in DOMAIN s : Cardinality(Fresher(s, i)) = n - 1]]
Kept(s)       == SubSeq(FreshFirst(s), 1, Min({case.batch, Len(s)}))
Dropped(s)    == Range(s) \ Range(Kept(s))

BeginStep(r) ==
  LET s == Received(r) IN
  /\ stage[r] = "idle" /\ Dispatched(r)
  /\ step' = [step EXCEPT ![r] = @ + 1]
  /\ IF Cardinality({Path(e) : e \in Range(s)}) # Len(s)
     THEN Raise(r, "duplicate") /\ UNCHANGED <<files, kept>>
     ELSE /\ Enter(r, "load") /\ UNCHANGED failure
          /\ kept' = [kept EXCEPT ![r] = Kept(s)]
          /\ files' = [p \in DOMAIN files \ {Path(e) : e \in Dropped(s)} |-> files[p]]
  /\ samples' = [samples EXCEPT ![r] = <<>>] /\ advantages' = [advantages EXCEPT ![r] = <<>>]
  /\ UNCHANGED <<case, written, iteration, minibatch, left, gradient, trained, modelVars>>

(* _prepare_training_data: one rollout more, its rows and their advantages. *)
Loaded(r)    == Len(samples[r]) \div case.expected
ToLoad(r)    == kept[r][Loaded(r) + 1]
Advantage(e) == case.episodes[e].advantage

LoadRollout(r) ==
  LET e == ToLoad(r) IN
  /\ stage[r] = "load" /\ Loaded(r) < Len(kept[r])
  /\ IF Path(e) \notin DOMAIN files
     THEN Raise(r, "missing") /\ UNCHANGED <<samples, advantages>>
     ELSE LET kinds == Kinds(files[Path(e)])
              input == PolicyInput(files[Path(e)], kinds) IN
          IF Refused(kinds)
          THEN Raise(r, "refused") /\ UNCHANGED <<samples, advantages>>
          ELSE /\ samples' = [samples EXCEPT ![r] = @ \o input]
               /\ advantages' = [advantages EXCEPT ![r] =
                    @ \o [i \in DOMAIN input |-> IF input[i].padding THEN 0 ELSE Advantage(e)]]
               /\ UNCHANGED <<stage, failure>>
  /\ UNCHANGED <<case, workerVars, step, kept, iteration, minibatch, left, gradient, trained, modelVars>>

(* TrainerReplayDataBatch.stack: the rows of a minibatch.                   *)
Batch(r, slice) == {[row |-> samples[r][i], advantage |-> advantages[r][i]] : i \in slice}

(* _run_training_loop.                                                      *)
Rows(r)          == DOMAIN samples[r]
MiniBatchSize(r) == Min({case.mini, Len(samples[r])})

(* Mutant: the last, shorter minibatch is dropped.                          *)
WholeMiniBatches(r) == Len(samples[r]) \div MiniBatchSize(r)

NumMiniBatches(r) == (Len(samples[r]) + MiniBatchSize(r) - 1) \div MiniBatchSize(r)

(* _ensure_reference_model copies the model once.                           *)
EnsuredReference(r) == IF case.kl /\ reference[r] = NoModel THEN updates[r] ELSE reference[r]

BeginLoop(r) ==
  /\ stage[r] = "load" /\ Loaded(r) = Len(kept[r])
  /\ IF samples[r] = <<>>
     THEN Raise(r, "empty") /\ UNCHANGED <<reference, iteration, minibatch, left, trained>>
     ELSE /\ Enter(r, "train") /\ UNCHANGED failure
          /\ reference' = [reference EXCEPT ![r] = EnsuredReference(r)]
          /\ iteration' = [iteration EXCEPT ![r] = 1]
          /\ minibatch' = [minibatch EXCEPT ![r] = 1]
          /\ left' = [left EXCEPT ![r] = Rows(r)]
          /\ trained' = [trained EXCEPT ![r] = [i \in Rows(r) |-> 0]]
  /\ UNCHANGED <<case, workerVars, step, kept, samples, advantages, gradient, reduces, updates, saved>>

(* A slice of randperm is any subset of what is left, of the slice's length.*)
SliceSize(r) == Min({minibatch[r] * MiniBatchSize(r), Len(samples[r])})
                - (minibatch[r] - 1) * MiniBatchSize(r)

(* _train_minibatch up to the collective; the batch may not stack.          *)
TrainMinibatch(r) ==
  /\ stage[r] = "train"
  /\ \E slice \in kSubset(SliceSize(r), left[r]) :
       LET batch == Batch(r, slice) IN
       IF Stackable(batch)
       THEN /\ left' = [left EXCEPT ![r] = @ \ slice]
            /\ trained' = [trained EXCEPT ![r] = [i \in Rows(r) |-> @[i] + (IF i \in slice THEN 1 ELSE 0)]]
            /\ \E g \in Gradients(batch) : gradient' = [gradient EXCEPT ![r] = g]
            /\ Enter(r, "reduce") /\ UNCHANGED failure
       ELSE Raise(r, "collate") /\ UNCHANGED <<left, trained, gradient>>
  /\ UNCHANGED <<case, workerVars, step, kept, samples, advantages, iteration, minibatch, modelVars>>

(* gradient_reduce_across_dp_replicas_: the ranks that are left meet.  Its  *)
(* communicator survives the ranks that died.                                *)
(* Mutant: the verdict is on a rank's own gradient.                         *)
NotReduced(r) == gradient[r]

Sum(gs) == IF "nonfinite" \in gs THEN "nonfinite" ELSE IF "signal" \in gs THEN "signal" ELSE "zero"

Reduced(r) == Sum({gradient[q] : q \in Live})

Reduce ==
  /\ Live # {} /\ \A r \in Live : stage[r] = "reduce"
  /\ gradient' = [r \in Ranks |-> IF r \in Live THEN Reduced(r) ELSE gradient[r]]
  /\ stage' = [r \in Ranks |-> IF r \in Live THEN "reduced" ELSE stage[r]]
  /\ UNCHANGED <<case, workerVars, step, failure, kept, samples, advantages, iteration, minibatch,
                 left, trained, modelVars>>

(* The rest of all_reduce_states, and the loops.                            *)
NextInLoop(r) ==
  LET last  == minibatch[r] = NumMiniBatches(r)
      again == last /\ iteration[r] < case.iterations IN
  /\ Enter(r, IF last /\ ~ again THEN "finish" ELSE "train")
  /\ minibatch' = [minibatch EXCEPT ![r] = IF again THEN 1 ELSE IF last THEN @ ELSE @ + 1]
  /\ iteration' = [iteration EXCEPT ![r] = IF again THEN @ + 1 ELSE @]
  /\ left' = [left EXCEPT ![r] = IF again THEN Rows(r) ELSE @]
  /\ trained' = [trained EXCEPT ![r] = IF again THEN [i \in Rows(r) |-> 0] ELSE @]

AfterReduce(r) ==
  /\ stage[r] = "reduced"
  /\ reduces' = [reduces EXCEPT ![r] = @ + 1]
  /\ IF gradient[r] = "nonfinite"
     THEN Raise(r, "gradient") /\ UNCHANGED <<updates, minibatch, iteration, left, trained>>
     ELSE /\ updates' = [updates EXCEPT ![r] = IF gradient[r] = "signal" THEN @ + 1 ELSE @]
          /\ NextInLoop(r) /\ UNCHANGED failure
  /\ UNCHANGED <<case, workerVars, step, kept, samples, advantages, gradient, reference, saved>>

(* _save_checkpoint on the master: the expert first, outside of the try.  No *)
(* later failure takes it back.                                              *)
Master(r)   == r = 1

(* Mutant: whether Cosmos asked for it or not.                              *)
SavesAlways(r) == Master(r)

Saves(r)    == Master(r) /\ step[r] \in case.save
Expert(r)   == IF case.expert THEN {<<"expert", step[r]>>} ELSE {}
Exports(r)  == IF case.export \/ step[r] = Len(case.feed) THEN {<<"export", step[r]>>} ELSE {}
Tolerated   == case.expert   \* whether a failure of the rest is logged only

Resets(r) == case.kl /\ case.reset > 0 /\ step[r] % case.reset = 0

FinishStep(r) ==
  /\ stage[r] = "finish"
  /\ saved' = IF Saves(r) THEN saved \cup Expert(r) \cup Exports(r) \cup {<<"resume", step[r]>>} ELSE saved
  /\ reference' = [reference EXCEPT ![r] = IF Resets(r) THEN updates[r] ELSE @]
  /\ Enter(r, "idle")
  /\ UNCHANGED <<case, workerVars, step, failure, loopVars, reduces, updates>>

ExpertFails(r) == case.expert /\ "expert" \in case.faults /\ Raise(r, "checkpoint")

SaveFails(r) ==
  /\ stage[r] = "finish" /\ Saves(r)
  /\ \/ ExpertFails(r) /\ UNCHANGED <<saved, reference>>
     \/ /\ "export" \in case.faults
        /\ saved' = saved \cup Expert(r)
        /\ IF Tolerated
           THEN /\ Enter(r, "idle") /\ UNCHANGED failure
                /\ reference' = [reference EXCEPT ![r] = IF Resets(r) THEN updates[r] ELSE @]
           ELSE Raise(r, "checkpoint") /\ UNCHANGED reference
  /\ UNCHANGED <<case, workerVars, step, loopVars, reduces, updates>>
=============================================================================

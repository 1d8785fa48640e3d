---------------------------- MODULE EpisodeReward ----------------------------
(***************************************************************************)
(* rewards/: the reward the rollout worker computes for an episode before it *)
(* hands it over.  Distances are data; what is kept is which terms there are,*)
(* which samples are compared, and when a term raises.                       *)
(***************************************************************************)
EXTENDS EgoDriver

(* submit_recording_ground_truth, at any time while the session is open; the *)
(* trajectory is sorted as it comes in.                                      *)
SubmitGroundTruth(s, recording) ==
  /\ accepting /\ phase[s] = "open" /\ truth[s] = NoTruth
  /\ truth' = [truth EXCEPT ![s] = [recording EXCEPT !.times = InTimeOrder(@)]]
  /\ UNCHANGED <<load, phase, tick, step, rpc, now, buf, episodeVars, expertVars, engineVars,
                 serverVars, jobVars, genVars>>

Spanned(t, times) == times[1] <= t /\ t <= times[Len(times)]

(* The executed samples that have ground truth to be compared with.          *)
Paired(s) == {t \in Range(executed[s]) : Spanned(t, truth[s].times)}

(* compute_distance_to_gt_reward: the anchor is looked up in the executed    *)
(* trajectory, which must go forward in time for that.                       *)
ComparableToTruth(s) ==
  /\ truth[s] # NoTruth
  /\ Len(executed[s]) >= 2 /\ Len(truth[s].times) >= 2
  /\ Increasing(executed[s])
  /\ Spanned(truth[s].anchor, executed[s])
  /\ Paired(s) # {}

(* _compute_term: the simulator may return no metrics at all.                *)
Computable(s, term) ==
  CASE term = "metric"         -> load.metrics
    [] term = "distance_to_gt" -> ComparableToTruth(s)

(* compute_reward: the sum of all terms, so one that raises fails it.        *)
Rewarded(s) == \A term \in load.reward : Computable(s, term)
=============================================================================

---------------------------- MODULE MCRolloutServing ----------------------------
(* TLC instances of RolloutServing.                                             *)
EXTENDS RolloutServing

(* Two sessions at once; one session with a retry; one of two ticks whose     *)
(* poses come twice, early or late; one of two ticks with an expert that      *)
(* labels or drives; one of two ticks rewarded by its distance to a recording *)
(* that comes or does not, and fits or does not; one without metrics.         *)
Pair  == [payloads |-> 2, threads |-> 2, retries |-> 0, ticks |-> 1, images |-> 1,
          submissions |-> 1, times |-> {1}, expert |-> "off",
          faults |-> {"forward", "grace"},
          reward |-> {"metric"}, metrics |-> TRUE, recordings |-> {}]
Retry == [Pair EXCEPT !.payloads = 1, !.retries = 1,
                        !.faults = {"simulate", "postprocess", "await", "grace", "channel"}]
Poses == [Pair EXCEPT !.payloads = 1, !.ticks = 2, !.submissions = 2, !.times = {1, 2},
                        !.faults = {"simulate", "postprocess"}]
Label == [Pair EXCEPT !.payloads = 1, !.ticks = 2, !.times = {1, 2}, !.expert = "label",
                        !.faults = {"simulate", "postprocess", "expert", "inject"}]
Mix   == [Label EXCEPT !.expert = "mix"]
Recording(anchor, times) == [anchor |-> anchor, times |-> times]
Compare == [Pair EXCEPT !.payloads = 1, !.ticks = 2, !.times = {1, 2}, !.faults = {},
                        !.reward = {"metric", "distance_to_gt"},
                        !.recordings = {Recording(1, <<2, 1>>), Recording(3, <<1, 2>>),
                                        Recording(1, <<3, 4>>), Recording(1, <<1>>)}]
Blind == [Pair EXCEPT !.payloads = 1, !.retries = 1, !.metrics = FALSE, !.faults = {}]
MCLoads == {Pair, Retry, Poses, Label, Mix, Compare, Blind}
=============================================================================

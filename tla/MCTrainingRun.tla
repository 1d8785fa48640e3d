--------------------------- MODULE MCTrainingRun ---------------------------
(* TLC instances of TrainingRun.                                             *)
EXTENDS TrainingRun, EpisodePayload

Episode(s, v, a, outputs) == [session |-> s, version |-> v, advantage |-> a, outputs |-> outputs]

(* Two ranks, two steps, a rollout each per step.                           *)
Base ==
  [ranks |-> 2,
   episodes |-> <<Episode(1, 0, 1, <<"good", "good">>), Episode(1, 0, 2, <<"bad", "good">>),
                  Episode(2, 0, 0, <<"good">>), Episode(2, 1, 1, <<"good", "good">>)>>,
   feed |-> <<<<<<1>>, <<2>>>>, <<<<3>>, <<4>>>>>>,
   expected |-> 2, batch |-> 1, mini |-> 1, iterations |-> 1, kl |-> FALSE, reset |-> 0,
   nccl |-> FALSE, save |-> {2}, expert |-> TRUE, export |-> FALSE, faults |-> {},
   perf |-> FALSE, drives |-> 0, samples |-> 0,
   devices |-> <<"b", "a">>, visible |-> <<"a">>,   \* CUDA_VISIBLE_DEVICES hides b
   usage |-> [d \in {"a", "b"} |-> IF d = "a" THEN {1} ELSE {3}], others |-> {}]

(* Minibatches that do not divide the pool, two iterations, KL.             *)
Ragged ==
  [Base EXCEPT !.feed = <<<<<<1, 2>>, <<3, 4>>>>>>, !.batch = 2, !.mini = 3, !.iterations = 2,
               !.kl = TRUE, !.reset = 1, !.save = {1}]

(* More rollouts than a rank trains on; two ranks share them.               *)
Shared == [Base EXCEPT !.feed = <<<<<<1, 4, 2>>, <<1, 4, 2>>>>>>, !.batch = 2, !.mini = 2, !.save = {1}]

(* Three ranks.                                                             *)
Three == [Base EXCEPT !.ranks = 3, !.feed = <<<<<<1>>, <<2>>, <<4>>>>>>, !.save = {1}]

Hopeless == [Base EXCEPT !.episodes[2] = Episode(1, 0, 1, <<"bad", "bad">>), !.save = {1, 2}]

Malformed(outputs) == [Base EXCEPT !.episodes[4] = Episode(2, 1, 1, outputs)]

(* Rows that stack or do not, as the shuffle has it.                        *)
Mixed == [Shared EXCEPT !.episodes[4] = Episode(2, 1, 1, <<"nested", "nested">>)]

OddOnes == [Shared EXCEPT !.episodes[4] = Episode(2, 1, 1, <<"odd", "odd">>)]

Diverging == [Base EXCEPT !.faults = {"diverge"}]
NoRollout == [Base EXCEPT !.feed = <<<<<<1>>, <<>>>>, <<<<3>>, <<4>>>>>>]

Unsaved(faults, expert) ==
  [Base EXCEPT !.faults = faults, !.expert = expert, !.export = ~ expert, !.save = {1, 2}]

TrainingCases ==
  {Base, [Base EXCEPT !.kl = TRUE, !.reset = 2], Ragged, Shared, Three, Hopeless, Mixed, Diverging, NoRollout,
   Unsaved({"export"}, TRUE), Unsaved({"export"}, FALSE),
   Unsaved({"expert", "export"}, TRUE), Unsaved({"expert"}, FALSE), OddOnes, Malformed(<<"good", "hollow">>)}
  \cup {Malformed(outputs) : outputs \in {<<"none">>, <<"good", "odd">>, <<"bad", "odd">>, <<"good", "nested">>,
                                          <<"good", "good", "good">>, <<>>}}

(* The other transport.                                                     *)
NcclCases == {[c EXCEPT !.nccl = TRUE, !.save = {}] :
                c \in {Base, Mixed} \cup {Malformed(outputs) : outputs \in {<<"good", "hollow">>, <<"bad", "odd">>, <<"none">>}}}

(* One rank and one row; the process that is measured has a driver thread.  *)
Sample(count, sum, max) == [count |-> count, mean |-> <<sum, count>>, max |-> max]

OtherWorker ==
  [rank |-> 0, pid |-> 2,
   timing |-> [p \in {<<"trainer/step">>, <<"trainer/step", "trainer/artifact_load">>} |->
                 [count |-> 2, total |-> 6 - 2 * Len(p), max |-> 3]],
   resources |-> [f \in Families |-> [k \in {SampleKey} |-> Sample(2, 4, 3)]]]

Measured1 ==
  [Base EXCEPT !.ranks = 1, !.episodes = <<Episode(1, 0, 1, <<"good">>)>>, !.feed = <<<<<<1>>>>>>,
               !.expected = 1, !.save = {}, !.perf = TRUE, !.samples = 1, !.others = {OtherWorker}]

PerfCases ==
  {[Measured1 EXCEPT !.faults = f] : f \in {{"wedge"}, {"slow"}, {"thread", "slow"}, {"psutil"}, {"nvml"}}}
  \cup {[Measured1 EXCEPT !.faults = {"disk"}, !.samples = 0],
        [Measured1 EXCEPT !.devices = <<"b">>],
        [Measured1 EXCEPT !.drives = 1],
        [Measured1 EXCEPT !.samples = 2, !.usage["a"] = {None}]}

AllCases == TrainingCases \cup NcclCases \cup PerfCases
=============================================================================

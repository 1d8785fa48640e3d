---------------------------- MODULE TrainingRun ----------------------------
(***************************************************************************)
(* The trainer composed with the performance store of its first rank: what  *)
(* rank 1 does runs inside its timed scopes, a driver thread of the same     *)
(* process times its calls too, and the exit of the process publishes.       *)
(***************************************************************************)
EXTENDS GrpoTrainer, PerfStore, PerfReport

Measured(r) == r = 1
NotMeasured == UNCHANGED perfVars

InStep == scopes["main"] # <<>>

Write == WriteEpisode /\ NotMeasured

Construct(r) ==
  \/ InitTrainer(r) /\ IF Measured(r) THEN InitPerf(Marker(<<"trainer/ready">>)) ELSE NotMeasured
  \/ Measured(r) /\ TrainerFails(r) /\ InitPerfFails

(* The decorated step_training: what raises in it leaves its scope.         *)
Begin(r) ==
  /\ BeginStep(r)
  /\ IF Measured(r) THEN EnterScope("main", "trainer/step") ELSE NotMeasured

Load(r) ==
  /\ LoadRollout(r)
  /\ IF Measured(r) THEN LoadScopes("main") ELSE NotMeasured

Loop(r) ==
  /\ BeginLoop(r) \/ TrainMinibatch(r) \/ AfterReduce(r)
  /\ NotMeasured

AllReduce == Reduce /\ NotMeasured

(* The scope is left after the step, or by the exception, and not again.    *)
Leave(r) == IF Measured(r) /\ InStep THEN ExitScope("main") ELSE NotMeasured

Finish(r) == (FinishStep(r) \/ SaveFails(r)) /\ Leave(r)

Unwind(r) ==
  /\ Measured(r) /\ stage[r] = "raised" /\ InStep
  /\ ExitScope("main") /\ UNCHANGED <<case, workerVars, rankVars>>

(* The driver thread of a colocated process.                                *)
Drives == calls["driver/drive"] + Len(scopes["driver"])

Drive ==
  /\ UNCHANGED <<case, workerVars, rankVars>>
  /\ \/ Current /\ Drives < case.drives /\ scopes["driver"] = <<>> /\ EnterScope("driver", "driver/drive")
     \/ scopes["driver"] # <<>> /\ ExitScope("driver")

(* The rollout backend of a colocated process initializes perf as well, in  *)
(* the thread of the trainer, and once more only where its marker was lost.  *)
InitBackend ==
  /\ case.drives > 0 /\ scopes["driver"] = <<>> /\ teardown = "no" /\ stage[1] # "raised"
  /\ Marker(<<"rollout/model_ready">>) \notin DOMAIN rows["cpu"]
  /\ InitPerf(Marker(<<"rollout/model_ready">>))
  /\ UNCHANGED <<case, workerVars, rankVars>>

Background ==
  /\ \/ FlushRenders \/ FlushWrites \/ FlushExits
     \/ \E f \in Families : MonitorSamples(f) \/ MonitorExits(f)
  /\ UNCHANGED <<case, workerVars, rankVars>>

(* The interpreter exits: no work is left, or an exception ended it.        *)
WorkIsOver(r) == stage[r] = "raised" \/ (stage[r] = "idle" /\ step[r] = Len(case.feed))

ShutdownPerf ==
  /\ WorkIsOver(1) /\ ~ InStep
  /\ \/ StopFlushThread \/ JoinFlushThread \/ FlushThreadWedged \/ RenderFinal \/ WriteFinal
  /\ UNCHANGED <<case, workerVars, rankVars>>

Done ==
  /\ WriterHasEnded \/ \A r \in Ranks : WorkIsOver(r)
  /\ ~ InStep /\ (NoPerf \/ teardown = "over")
  /\ UNCHANGED vars

RankNext(r) == Construct(r) \/ Begin(r) \/ Load(r) \/ Loop(r) \/ Finish(r) \/ Unwind(r)

Next ==
  \/ Write \/ AllReduce
  \/ \E r \in Ranks : RankNext(r)
  \/ Drive \/ InitBackend \/ Background \/ ShutdownPerf
  \/ Done

Spec == Init /\ [][Next]_vars

----------------------------------------------------------------------------
(* Properties                                                                *)

(* The variables hold values of their kinds.                                *)
TypeOK ==
  /\ written \in 0 .. Len(case.episodes) /\ Range(files) \subseteq Episodes
  /\ stage \in [Ranks -> {"new", "idle", "load", "train", "reduce", "reduced", "finish", "raised"}]
  /\ step \in [Ranks -> 0 .. Len(case.feed)]
  /\ saved \subseteq {"expert", "export", "resume"} \X case.save
  /\ gradient \in [Ranks -> {"zero", "signal", "nonfinite"}]
  /\ \A r \in Ranks :
       /\ Range(kept[r]) \subseteq Episodes
       /\ Len(advantages[r]) = Len(samples[r])
       /\ left[r] \subseteq Rows(r) /\ minibatch[r] \in Nat /\ iteration[r] \in Nat
       /\ updates[r] <= reduces[r]
  /\ DOMAIN rows = Families /\ store \in {"none", "bound", "gone"} /\ nvml \in BOOLEAN
  /\ flusher \in {"absent", "waiting", "rendered", "dead"}
  /\ monitor \in [Families -> {"absent", "running", "told", "dead"}]
  /\ teardown \in {"no", "flush", "monitors", "write", "leave", "over"}

(* No rank has left a step in which another still waits for a collective:   *)
(* all ranks run the same number of minibatches, whatever they were given    *)
(* (trainer.py: every DP worker runs in lockstep).                           *)
SameCollectives ==
  \A r \in Live : stage[r] = "reduce" =>
    \A q \in Live : step[q] < step[r] \/ (step[q] = step[r] /\ stage[q] \notin {"idle", "finish"})

(* Ranks that have passed the same collectives have taken the same optimizer*)
(* steps; once they are done with the same step they have the same reference *)
(* model.                                                                    *)
SameModels ==
  \A r, q \in Live :
    /\ reduces[r] = reduces[q] => updates[r] = updates[q]
    /\ stage[r] = "idle" /\ stage[q] = "idle" /\ step[r] = step[q] => reference[r] = reference[q]

(* Training only fails for a reason outside of it: a rank never meets a     *)
(* missing or a doubled artifact, a gradient is never spoiled by a step that *)
(* could be masked, and only writing the expert itself may lose it.          *)
Spoils(e)  == Outputs(e) # <<>> /\ GoodSteps(Outputs(e)) = {}
Nesting(e) == {Outputs(e)[InputsOf(Outputs(e), i)] = "nested" : i \in DOMAIN Outputs(e)}
SaveCause  == (IF case.expert THEN "expert" ELSE "export") \in case.faults
FailuresHaveCauses ==
  \A r \in Ranks :
    /\ failure[r] \notin {"missing", "duplicate"}
    /\ failure[r] = "gradient" =>
         "diverge" \in case.faults \/ \E q \in Ranks : \E e \in Range(kept[q]) : Spoils(e)
    /\ failure[r] = "refused" => \E e \in Range(kept[r]) : Refused(Outputs(e))
    /\ failure[r] = "collate" => \E e, d \in Range(kept[r]) : Nesting(e) \cup Nesting(d) = {TRUE, FALSE}
    /\ failure[r] = "checkpoint" => SaveCause

(* A step that is over on the master left what was asked for: the expert    *)
(* weights, or the whole checkpoint.                                         *)
SavesAreKept ==
  \A s \in case.save :
    stage[1] = "idle" /\ step[1] >= s => saved \cap {<<"expert", s>>, <<"resume", s>>} # {}

(* The ranks stay together, step by step and failure by failure.            *)
RanksStayTogether == SameCollectives /\ SameModels /\ FailuresHaveCauses /\ SavesAreKept

(* When an optimization iteration is over, every valid output of the kept   *)
(* rollouts was in exactly one minibatch, with its own rollout's advantage,  *)
(* and nothing else carried one.  A rollout is trained on as it was recorded,*)
(* whichever transport brought it.                                           *)
Carries(r, i, e, o) ==
  samples[r][i].episode = e /\ samples[r][i].output = o /\ ~ samples[r][i].padding
  /\ advantages[r][i] = Advantage(e)

RowsAreTrainedOnce ==
  \A r \in Ranks : stage[r] = "reduced" /\ minibatch[r] = NumMiniBatches(r) =>
    /\ \A e \in Range(kept[r]) : \A o \in GoodSteps(Outputs(e)) :
         \E i \in Rows(r) :
           /\ Carries(r, i, e, o) /\ trained[r][i] = 1
           /\ \A j \in Rows(r) \ {i} : ~ (Carries(r, j, e, o) /\ trained[r][j] # 0)
    /\ \A i \in Rows(r) : samples[r][i].padding => advantages[r][i] = 0
    /\ \A e \in Range(kept[r]) : Arrival(case, e) = Original(case, e)

(* A process that tore its perf store down left an artifact with which the  *)
(* report counts every timed call that had returned and every sample of the   *)
(* monitors, together with the other workers'; the times of the table add up  *)
(* to its total; the mean of readings that are never None is the true mean.   *)
Directory == {published} \cup case.others

CountsByName(timing, name) ==
  MapThenSumSet(LAMBDA p : timing.rows[p].count, {p \in DOMAIN timing.rows : Last(p) = name})

ReportIsComplete ==
  (store = "gone" /\ ~ spoiled) =>
    LET report == Report(Directory, {0}, AnyCapture)
        timing == report.timing
        others == TimingTable(MergeTiming(Selected(case.others, {0})))
        theirs == MapThenSumSet(LAMBDA a : a.resources["cpu"][SampleKey].mean[1],
                                Keyed(case.others, "cpu", SampleKey, 0))
        mine   == At(rows["cpu"], SampleKey, EmptyRow)
        sample == report.cpu[<<SampleKey, 0>>]
    IN
    /\ \A n \in Names : CountsByName(timing, n) - CountsByName(others, n) \in owed[n] .. calls[n]
    /\ (\A p \in DOMAIN timing.rows : timing.rows[p].own # NotApplicable) =>
         MapThenSumSet(LAMBDA p : timing.rows[p].own, DOMAIN timing.rows) = timing.total
    /\ \A f \in Families : SampleKey \in DOMAIN rows[f] =>
         published.resources[f][SampleKey] = JsonRow(rows[f][SampleKey])
    /\ mine.count > 0 => sample.mean[1] * sample.count = (mine.sum + theirs) * sample.mean[2]

(* The teardown only shuts NVML down when no monitor reads it any more.  An  *)
(* initialization that fails does not wait like that: it has no store.       *)
NvmlOutlivesMonitors == store # "none" /\ ~ nvml => monitor["gpu"] \in {"absent", "dead"}

(* No unit of CPU time up to a reader's last read is in the rows of that     *)
(* reader twice, and each one is there unless a read raised, whatever the     *)
(* other reader did (lifecycle.py: they never reset each other's window); the *)
(* GPU rows are of the rank's own device.                                     *)
Total(table, keys) == MapThenSumSet(LAMBDA k : table[k].sum, keys)
Tiles(total, at, faults) == IF "psutil" \in faults THEN total <= at ELSE total = at

ReadingsTile ==
  LET periodic == {SampleKey} \cap DOMAIN rows["cpu"] IN
  /\ Tiles(Total(rows["cpu"], periodic), window["monitor"], case.faults)
  /\ Tiles(Total(rows["cpu"], DOMAIN rows["cpu"] \ periodic), window["checkpoint"], case.faults)
  /\ \A k \in DOMAIN rows["gpu"] : rows["gpu"][k].max \in case.usage[TorchDevice] \cup {0}

(* What perf recorded is right, and none of it is lost at the exit.         *)
PerfSurvivesTeardown == ReportIsComplete /\ NvmlOutlivesMonitors /\ ReadingsTile
=============================================================================

--------------------------- MODULE TrainingInvariant ---------------------------
(***************************************************************************)
(* The inductive invariant of TrainingRun: what makes the properties of the *)
(* trainers hold at every step of every rank, whatever the run is.         *)
(***************************************************************************)
EXTENDS TrainingRun

(* The ranks without perf: every step of the composition is one of these, or*)
(* leaves the trainers and the artifacts alone.                             *)
RankSteps(r) ==
  \/ InitTrainer(r) \/ TrainerFails(r) \/ BeginStep(r) \/ LoadRollout(r)
  \/ BeginLoop(r) \/ TrainMinibatch(r) \/ AfterReduce(r) \/ FinishStep(r) \/ SaveFails(r)
TrainerNext == WriteEpisode \/ Reduce \/ \E r \in Ranks : RankSteps(r)
trainerVars == <<case, workerVars, rankVars>>

(* Types.                                                                   *)
Stages    == {"new", "idle", "load", "train", "reduce", "reduced", "finish", "raised"}
Reasons   == {"", "init", "missing", "duplicate", "refused", "empty", "collate", "gradient", "checkpoint"}
Gradient  == {"zero", "signal", "nonfinite"}
RowType   == [episode : Episodes, output : Nat, padding : BOOLEAN, inputs : OutputKinds]

TrainerTypes ==
  /\ case \in Cases /\ written \in 0 .. Len(case.episodes)
  /\ files \in [DOMAIN files -> Episodes]
  /\ stage \in [Ranks -> Stages] /\ failure \in [Ranks -> Reasons]
  /\ step \in [Ranks -> 0 .. Len(case.feed)]
  /\ kept \in [Ranks -> Seq(Episodes)]
  /\ samples \in [Ranks -> Seq(RowType)] /\ advantages \in [Ranks -> Seq(Int)]
  /\ iteration \in [Ranks -> Nat] /\ minibatch \in [Ranks -> Nat]
  /\ left \in [Ranks -> SUBSET Nat] /\ DOMAIN trained = Ranks /\ gradient \in [Ranks -> Gradient]
  /\ reduces \in [Ranks -> Nat] /\ updates \in [Ranks -> Nat] /\ reference \in [Ranks -> Nat]
  /\ saved \subseteq {"expert", "export", "resume"} \X case.save

(* An artifact is there from its egress until a rank drops its rollout.     *)
WasDropped(e) == \E r \in Ranks : \E s \in 1 .. step[r] : e \in Dropped(case.feed[s][r])
FilesAreKept ==
  /\ \A e \in 1 .. written : Ships(case, e)
  /\ \A p \in DOMAIN files : files[p] \in 1 .. written /\ p = Path(files[p])
  /\ \A e \in 1 .. written : Path(e) \in DOMAIN files \/ WasDropped(e)

(* In a step a rank has the rollouts it keeps of what it was sent, and the  *)
(* pool has the rows of those loaded so far, each once.                     *)
Looping == {"train", "reduce", "reduced"}
Stepping == {"load", "finish"} \cup Looping
KeptIsDispatched(r) ==
  stage[r] \in Stepping =>
    /\ step[r] \in Steps /\ kept[r] = Kept(case.feed[step[r]][r])
    /\ \A e \in Range(kept[r]) : e <= written

IsRow(r, i, k, j) ==
  /\ samples[r][i] = PolicyInput(kept[r][k], Kinds(kept[r][k]))[j]
  /\ advantages[r][i] = IF samples[r][i].padding THEN 0 ELSE Advantage(kept[r][k])

PoolIsPacked(r) ==
  stage[r] \in Stepping =>
    /\ Len(samples[r]) = Loaded(r) * case.expected /\ Loaded(r) <= Len(kept[r])
    /\ \A k \in 1 .. Loaded(r) : ~ Refused(Kinds(kept[r][k]))
    /\ \A i \in Rows(r) : \E k \in 1 .. Loaded(r), j \in 1 .. case.expected : IsRow(r, i, k, j)
    /\ \A k \in 1 .. Loaded(r), j \in 1 .. case.expected : \E i \in Rows(r) : IsRow(r, i, k, j)
    /\ \A i, j \in Rows(r) :
         /\ ~ samples[r][i].padding /\ ~ samples[r][j].padding
         /\ samples[r][i].episode = samples[r][j].episode /\ samples[r][i].output = samples[r][j].output
         => i = j

(* The loops: how many rows were sliced, and those were trained on once.    *)
SlicesSoFar(r) == IF stage[r] = "train" THEN minibatch[r] - 1 ELSE minibatch[r]
LoopIsCounted(r) ==
  IF stage[r] \in Looping
  THEN /\ Loaded(r) = case.batch /\ Loaded(r) = Len(kept[r])
       /\ iteration[r] \in 1 .. case.iterations /\ minibatch[r] \in 1 .. NumMiniBatches(r)
       /\ left[r] \subseteq Rows(r)
       /\ Cardinality(left[r]) = Len(samples[r]) - Min({SlicesSoFar(r) * MiniBatchSize(r), Len(samples[r])})
       /\ trained[r] = [i \in Rows(r) |-> IF i \in left[r] THEN 0 ELSE 1]
  ELSE stage[r] # "raised" => left[r] = {}

(* Where a rank is between two collectives: at the minibatch it waits for,  *)
(* or outside the loops.                                                     *)
Outside == <<0, 0>>
IsLast(r) == minibatch[r] = NumMiniBatches(r) /\ iteration[r] = case.iterations
Following(r) ==
  CASE IsLast(r) -> Outside
    [] minibatch[r] = NumMiniBatches(r) /\ iteration[r] # case.iterations -> <<iteration[r] + 1, 1>>
    [] minibatch[r] # NumMiniBatches(r) -> <<iteration[r], minibatch[r] + 1>>
Point(r) ==
  CASE stage[r] \in {"new", "idle", "finish", "raised"} -> Outside
    [] stage[r] = "load" -> <<1, 1>>
    [] stage[r] \in {"train", "reduce"} -> <<iteration[r], minibatch[r]>>
    [] stage[r] = "reduced" -> Following(r)

(* What it has passed, and its models once it is past the collective.       *)
One(b)       == IF b THEN 1 ELSE 0
Passed(r)    == reduces[r] + One(stage[r] = "reduced")
Updated(r)   == updates[r] + One(stage[r] = "reduced" /\ gradient[r] = "signal")
Reset(r)     == IF Resets(r) THEN Updated(r) ELSE reference[r]
Reference(r) ==
  CASE stage[r] = "load" -> EnsuredReference(r)
    [] stage[r] = "finish" \/ (stage[r] = "reduced" /\ IsLast(r)) -> Reset(r)
    [] OTHER -> reference[r]

Together(r, q) ==
  /\ step[r] <= step[q] + 1
  /\ Passed(r) = Passed(q) /\ Updated(r) = Updated(q)
  /\ stage[r] = "reduced" /\ stage[q] = "reduced" => gradient[r] = gradient[q]
  /\ step[r] = step[q] => Point(r) = Point(q) /\ Reference(r) = Reference(q)
  /\ step[r] = step[q] + 1 =>
       stage[q] = "idle" /\ Point(r) = <<1, 1>> /\ Reference(r) = EnsuredReference(q)
InLockstep == \A r, q \in Live : Together(r, q)

(* Why training fails.  Once a reduced gradient is not finite, every rank   *)
(* that is left is about to raise.                                          *)
SpoiledBy(r) == "diverge" \in case.faults \/ \E e \in Range(kept[r]) : Spoils(e)
Spoiled      == \E r \in Ranks : SpoiledBy(r)
IsDoomed(r) == failure[r] = "gradient" \/ (stage[r] = "reduced" /\ gradient[r] = "nonfinite")
Doom ==
  /\ \A r \in Ranks : stage[r] = "reduce" /\ gradient[r] = "nonfinite" => SpoiledBy(r)
  /\ \A r \in Ranks : IsDoomed(r) =>
       Spoiled /\ \A q \in Live : stage[q] = "reduced" /\ gradient[q] = "nonfinite"
Causes(r) ==
  /\ failure[r] # "" <=> stage[r] = "raised"
  /\ failure[r] \notin {"missing", "duplicate"}
  /\ failure[r] = "refused" => \E e \in Range(kept[r]) : Refused(Outputs(e))
  /\ failure[r] = "collate" => \E e, d \in Range(kept[r]) : Nesting(e) \cup Nesting(d) = {TRUE, FALSE}
  /\ failure[r] = "checkpoint" => SaveCause

SavesStand ==
  \A s \in case.save : s < step[1] \/ (s = step[1] /\ stage[1] = "idle") =>
    saved \cap {<<"expert", s>>, <<"resume", s>>} # {}

(* TypeOK's part on the loops.                                              *)
Bounds(r) ==
  /\ Len(advantages[r]) = Len(samples[r]) /\ left[r] \subseteq Rows(r) /\ updates[r] <= reduces[r]
  /\ stage[r] = "new" => step[r] = 0

RankInv(r) == KeptIsDispatched(r) /\ PoolIsPacked(r) /\ LoopIsCounted(r) /\ Bounds(r) /\ Causes(r)
RanksInv == \A r \in Ranks : RankInv(r)

TrainerInv == TrainerTypes /\ FilesAreKept /\ RanksInv /\ InLockstep /\ Doom /\ SavesStand

(* The performance store: its part of TypeOK.                               *)
PerfTypes ==
  /\ DOMAIN rows = Families /\ store \in {"none", "bound", "gone"} /\ nvml \in BOOLEAN
  /\ flusher \in {"absent", "waiting", "rendered", "dead"}
  /\ monitor \in [Families -> {"absent", "running", "told", "dead"}]
  /\ teardown \in {"no", "flush", "monitors", "write", "leave", "over"}

(* Its scopes: every thread times one path at a time, and rank 1 is inside   *)
(* its step exactly while it works on it.                                    *)
StepPath   == <<"trainer/step">>
LoadPath   == <<"trainer/step", "trainer/artifact_load">>
ReadPath   == <<"trainer/step", "trainer/artifact_load", "trainer/artifact_load/disk_read">>
DrivePath  == <<"driver/drive">>
TimedPaths == {StepPath, LoadPath, ReadPath, DrivePath}
PathOf(n)  ==
  CASE n = "trainer/step"                    -> StepPath
    [] n = "trainer/artifact_load"           -> LoadPath
    [] n = "trainer/artifact_load/disk_read" -> ReadPath
    [] n = "driver/drive"                    -> DrivePath

NestsAt(t, name) == scopes[t] \in Seq([name : {name}, spent : Nat]) /\ Len(scopes[t]) <= 1
ScopesNest ==
  /\ DOMAIN scopes = Threads
  /\ NestsAt("main", "trainer/step") /\ NestsAt("driver", "driver/drive")
  /\ case.perf /\ stage[1] \in Stepping => InStep
  /\ stage[1] \in {"new", "idle"} => ~ InStep

(* Where shutdown_perf is, and what has ended then.                          *)
NothingYet ==
  /\ rows = [f \in Families |-> <<>>] /\ timer = <<>> /\ scopes = [t \in Threads |-> <<>>]
  /\ calls = [n \in Names |-> 0] /\ window = [reader \in Readers |-> 0] /\ flusher = "absent"
LifeIsOrdered ==
  /\ store = "none" => NothingYet /\ teardown = "no"
  /\ store = "none" /\ stage[1] # "raised" => monitor = [f \in Families |-> "absent"]
  /\ store # "none" => case.perf /\ case.devices[handle] = TorchDevice
  /\ case.perf /\ stage[1] \notin {"new", "raised"} => store # "none"
  /\ store = "bound" => nvml
  /\ teardown # "no" => WorkIsOver(1)
  /\ teardown \in {"flush", "monitors", "write", "leave"} => store = "bound"
  /\ teardown \in {"monitors", "write", "leave"} \/ store = "gone" => flusher = "dead"
  /\ teardown = "write" \/ store = "gone" => MonitorsJoined
  /\ store = "gone" => teardown = "over"

(* Every call that returned is in the table of times, under its path.        *)
Closed(timing) ==
  /\ DOMAIN timing \subseteq TimedPaths
  /\ \A p \in DOMAIN timing : timing[p].count \in Nat /\ timing[p].total \in Nat
  /\ ReadPath \in DOMAIN timing => LoadPath \in DOMAIN timing
Counted(timing, n) == IF PathOf(n) \in DOMAIN timing THEN timing[PathOf(n)].count ELSE 0
CallsAreTimed ==
  /\ calls \in [Names -> Nat] /\ owed \in [Names -> Nat]
  /\ \A n \in Names : owed[n] <= calls[n] /\ calls[n] = Counted(timer, n)
  /\ Closed(timer)
  /\ LoadPath \in DOMAIN timer => InStep \/ StepPath \in DOMAIN timer

(* The rows of the two families, and how far each reader of the CPU has read.*)
RowTypes(table) ==
  /\ IsFiniteSet(DOMAIN table)
  /\ \A k \in DOMAIN table :
       /\ table[k].count \in Nat \ {0} /\ table[k].seen \in Nat
       /\ table[k].sum \in Nat /\ table[k].max \in Nat
CpuRows(table, w, faults) ==
  LET periodic == {SampleKey} \cap DOMAIN table IN
  /\ RowTypes(table) /\ \A k \in DOMAIN table : table[k].seen = table[k].count
  /\ Tiles(Total(table, periodic), w["monitor"], faults)
  /\ Tiles(Total(table, DOMAIN table \ periodic), w["checkpoint"], faults)
GpuRows(table, readings) ==
  RowTypes(table) /\ \A k \in DOMAIN table : table[k].max \in readings \cup {0}
RowsTile ==
  /\ DOMAIN rows = Families
  /\ CpuRows(rows["cpu"], window, case.faults) /\ GpuRows(rows["gpu"], case.usage[TorchDevice])
  /\ window \in [Readers -> Nat] /\ \A reader \in Readers : window[reader] <= CpuTime

(* The artifact of a teardown that was not cut short, with all samples and   *)
(* every call that returned before it.                                       *)
IsFinal(payload, table, low, high) ==
  /\ payload.rank = 0 /\ payload.pid = 1
  /\ Closed(payload.timing)
  /\ LoadPath \in DOMAIN payload.timing => StepPath \in DOMAIN payload.timing
  /\ \A n \in Names : Counted(payload.timing, n) \in low[n] .. high[n]
  /\ \A f \in Families :
       /\ SampleKey \in DOMAIN payload.resources[f] <=> SampleKey \in DOMAIN table[f]
       /\ SampleKey \in DOMAIN table[f] =>
            payload.resources[f][SampleKey] = JsonRow(table[f][SampleKey])
FinalIsKept ==
  /\ teardown = "write" => IsFinal(draft, rows, owed, calls)
  /\ store = "gone" /\ ~ spoiled => IsFinal(published, rows, owed, calls)

PerfInv == ScopesNest /\ LifeIsOrdered /\ CallsAreTimed /\ RowsTile /\ FinalIsKept
=============================================================================

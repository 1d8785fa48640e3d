----------------------------- MODULE PerfStore -----------------------------
(***************************************************************************)
(* perf/instrument in the process of rank 1, which in colocated mode runs    *)
(* the trainer and the driver's server: timed scopes and resource snapshots  *)
(* are recorded by both threads and by the monitors, and a flush thread and   *)
(* the teardown publish them as one JSON artifact.                            *)
(***************************************************************************)
EXTENDS PerfReaders

EmptyTiming == [count |-> 0, total |-> 0, max |-> 0]
EmptyRow    == [count |-> 0, seen |-> 0, sum |-> 0, max |-> 0]

At(f, key, empty) == IF key \in DOMAIN f THEN f[key] ELSE empty
Put(f, key, value) == [k \in DOMAIN f \cup {key} |-> IF k = key THEN value ELSE f[k]]

(* TimingStore.record.                                                      *)
Timed(t, path, duration) ==
  LET entry == At(t, path, EmptyTiming)
  IN  Put(t, path, [count |-> entry.count + 1, total |-> entry.total + duration,
                    max |-> Max({entry.max, duration})])

(* record_snapshot: a reading is a number, or None where the driver does    *)
(* not tell; it counts all the same.                                          *)
Folded(row, reading) ==
  LET new == reading # None
  IN  [count |-> row.count + 1, seen |-> row.seen + (IF new THEN 1 ELSE 0),
       sum |-> row.sum + (IF new THEN reading ELSE 0),
       max |-> IF new THEN Max({row.max, reading}) ELSE row.max]

Sampled(table, key, reading) == Put(table, key, Folded(At(table, key, EmptyRow), reading))

SampleKey           == [capture |-> "periodic", path |-> <<>>, phase |-> "instant"]
Boundary(path, at)  == [capture |-> "checkpoint", path |-> path, phase |-> at]
Marker(path)        == [capture |-> "checkpoint", path |-> path, phase |-> "instant"]

(* read_snapshot and record_snapshot at CPU time now.  Where the read raises *)
(* there is no record, and the window of a CPU reader may have moved already.*)
CpuReads(read, key, now) ==
  {[table |-> Sampled(read.table, key, CpuReading(read, now)), at |-> now]}
  \cup IF "psutil" \in case.faults THEN {[read EXCEPT !.at = t] : t \in {read.at, now}} ELSE {}

GpuReads(table, key, index) ==
  {Sampled(table, key, reading) : reading \in GpuReadings(index)}
  \cup IF "nvml" \in case.faults THEN {table} ELSE {}

Tables(cpu, gpu) == [f \in Families |-> IF f = "cpu" THEN cpu ELSE gpu]

(* Both, of a checkpoint.                                                   *)
Snapshot(families, key, now) ==
  LET last == LastRead("checkpoint") IN
  \E cpu \in IF "cpu" \in families THEN CpuReads(last, key, now) ELSE {last},
     gpu \in IF "gpu" \in families THEN GpuReads(rows["gpu"], key, handle) ELSE {rows["gpu"]} :
    rows' = Tables(cpu.table, gpu) /\ window' = Windows("checkpoint", cpu)

SnapshotsOf(name) ==
  CASE name = "trainer/step"          -> Families
    [] name = "trainer/artifact_load" -> {"cpu"}
    [] OTHER                          -> {}

(* try_get_perf_store waits for the lifecycle lock, which the teardown holds.*)
LockHeld == teardown \notin {"no", "over"}
Current  == store = "bound"

(* The stack is a context's own.                                            *)
Parent(t) == scopes[t]
PathTo(t, name) == Append([i \in DOMAIN Parent(t) |-> Parent(t)[i].name], name)

(* _enter_scope of thread t.                                                *)
EnterScope(t, name) ==
  /\ ~ LockHeld
  /\ IF Current
     THEN /\ scopes' = [scopes EXCEPT ![t] = Append(Parent(t), [name |-> name, spent |-> 0])]
          /\ Snapshot(SnapshotsOf(name), Boundary(PathTo(t, name), "start"), CpuTime)
     ELSE UNCHANGED <<scopes, rows, window>>
  /\ UNCHANGED <<timer, calls, threadVars, lifeVars>>

(* Its finally block, on whichever store the scope was entered.  A scope    *)
(* takes one unit of its own and what its children took.                     *)
ExitScope(t) ==
  LET stack == scopes[t]
      path  == [i \in DOMAIN stack |-> stack[i].name]
      took  == Last(stack).spent + 1
      outer == Front(stack) IN
  /\ timer' = Timed(timer, path, took)
  /\ scopes' = [scopes EXCEPT ![t] = IF outer = <<>> THEN <<>>
       ELSE [outer EXCEPT ![Len(outer)].spent = @ + took]]
  /\ Snapshot(SnapshotsOf(Last(path)), Boundary(path, "end"), CpuTime + 1)
  /\ calls' = [calls EXCEPT ![Last(path)] = @ + 1]
  /\ UNCHANGED <<threadVars, lifeVars>>

(* Two scopes entered and left at once: artifact_load around disk_read.     *)
LoadScopes(t) ==
  LET load == PathTo(t, "trainer/artifact_load")
      read == Append(load, "trainer/artifact_load/disk_read") IN
  /\ ~ LockHeld
  /\ IF Current
     THEN /\ timer' = Timed(Timed(timer, read, 1), load, 2)
          /\ scopes' = [scopes EXCEPT ![t][Len(Parent(t))].spent = @ + 2]
          /\ \E start \in CpuReads(LastRead("checkpoint"), Boundary(load, "start"), CpuTime) :
             \E end \in CpuReads(start, Boundary(load, "end"), CpuTime + 2) :
               rows' = Tables(end.table, rows["gpu"]) /\ window' = Windows("checkpoint", end)
          /\ calls' = [calls EXCEPT ![Last(load)] = @ + 1, ![Last(read)] = @ + 1]
     ELSE UNCHANGED recordVars
  /\ UNCHANGED <<threadVars, lifeVars>>

(* _build_cpu_runtime, _build_gpu_runtime: no monitor without an interval.  *)
MonitorAtStart == IF case.samples = 0 THEN "absent" ELSE "running"

(* initialize_perf, by whichever role comes first.                          *)
InitPerf(marker) ==
  /\ ~ LockHeld
  /\ IF case.perf /\ store = "none"
     THEN /\ store' = "bound" /\ nvml' = TRUE /\ window' = NewWindows
          /\ handle' \in NvmlHandles
          /\ flusher' = "waiting" /\ monitor' = [f \in Families |-> MonitorAtStart]
          /\ LET ready == Marker(<<"worker/perf_ready">>)
                 fresh == [table |-> rows["cpu"], at |-> CpuTime] IN
             \E c \in CpuReads(fresh, ready, CpuTime), g \in GpuReads(rows["gpu"], ready, handle') :
             \E cpu \in CpuReads(c, marker, CpuTime), gpu \in GpuReads(g, marker, handle') :
               rows' = Tables(cpu.table, gpu)
     ELSE /\ IF Current THEN Snapshot(Families, marker, CpuTime) ELSE UNCHANGED <<rows, window>>
          /\ UNCHANGED <<store, nvml, handle, flusher, monitor>>
  /\ UNCHANGED <<timer, scopes, calls, draft, published, spoiled, teardown, owed>>

(* It raises, and no store stays bound: there is no such device, a reader    *)
(* cannot be built, or a thread does not start.  set_perf_store tells the    *)
(* monitors that run already, and awaits them, but NVML is shut down whether *)
(* they have exited or not.                                                  *)
InitPerfFails ==
  /\ ~ LockHeld /\ case.perf /\ store = "none"
  /\ \/ /\ NvmlHandles = {} \/ {"psutil", "nvml"} \cap case.faults # {}
        /\ UNCHANGED monitor
     \/ /\ NvmlHandles # {} /\ "thread" \in case.faults
        /\ \E started \in IF case.samples = 0 THEN {{}} ELSE {{}, {"cpu"}, Families} :
           \E slow \in IF "slow" \in case.faults THEN SUBSET started ELSE {{}} :
             monitor' = [f \in Families |-> IF f \in slow THEN "told"
                                            ELSE IF f \in started THEN "dead" ELSE "absent"]
  /\ UNCHANGED <<recordVars, flusher, draft, published, spoiled, lifeVars>>

(* ResourceMonitor.run.  What a monitor reads that outlived a failed start   *)
(* goes into a store that nobody sees.                                       *)
MonitorSamples(f) ==
  /\ monitor[f] \in {"running", "told"} /\ store # "none"
  /\ At(rows[f], SampleKey, EmptyRow).count < case.samples
  /\ \/ /\ f = "cpu"
        /\ \E cpu \in CpuReads(LastRead("monitor"), SampleKey, CpuTime) :
             rows' = Tables(cpu.table, rows["gpu"]) /\ window' = Windows("monitor", cpu)
     \/ /\ f = "gpu"
        /\ \E gpu \in GpuReads(rows["gpu"], SampleKey, handle) : rows' = Tables(rows["cpu"], gpu)
        /\ UNCHANGED window
  /\ UNCHANGED <<timer, scopes, calls, threadVars, lifeVars>>

MonitorExits(f) ==
  /\ monitor[f] = "told"
  /\ monitor' = [monitor EXCEPT ![f] = "dead"]
  /\ UNCHANGED <<recordVars, flusher, draft, published, spoiled, lifeVars>>

(* to_json, rendered store by store: a row's mean is sum / seen.             *)
JsonRow(row)     == [count |-> row.count, mean |-> <<row.sum, row.seen>>, max |-> row.max]
ResourceBlock(f) == [key \in DOMAIN rows[f] |-> JsonRow(rows[f][key])]
TimingBlock      == timer
Identity         == [rank |-> 0, pid |-> 1]   \* _resolve_worker_identity
Payload == [rank |-> Identity.rank, pid |-> Identity.pid, timing |-> TimingBlock,
            resources |-> [f \in Families |-> ResourceBlock(f)]]

(* _FlushThread.run: enough updates or time, then write_atomic.             *)
FlushRenders ==
  /\ flusher = "waiting"
  /\ flusher' = "rendered" /\ draft' = Payload
  /\ UNCHANGED <<recordVars, monitor, published, spoiled, lifeVars>>

FlushWrites ==
  /\ flusher = "rendered"
  /\ \/ published' = draft
     \/ "disk" \in case.faults /\ UNCHANGED published
  /\ flusher' = IF teardown = "no" THEN "waiting" ELSE "dead"
  /\ draft' = NoArtifact
  /\ UNCHANGED <<recordVars, monitor, spoiled, lifeVars>>

FlushExits ==
  /\ flusher = "waiting" /\ teardown # "no"
  /\ flusher' = "dead"
  /\ UNCHANGED <<recordVars, monitor, draft, published, spoiled, lifeVars>>

(* shutdown_perf and teardown_perf_store, at exit, under the lifecycle lock:*)
(* stop and join the flush thread, then the monitors, then write, then clear.*)
Teardown(from, to) == teardown = from /\ teardown' = to

StopFlushThread ==
  /\ Current /\ Teardown("no", "flush")
  /\ owed' = calls
  /\ UNCHANGED <<recordVars, threadVars, store, nvml, handle>>

TellMonitors == monitor' = [f \in Families |-> IF monitor[f] = "running" THEN "told" ELSE monitor[f]]

JoinFlushThread ==
  /\ Teardown("flush", "monitors") /\ flusher = "dead"
  /\ TellMonitors
  /\ UNCHANGED <<recordVars, flusher, draft, published, spoiled, store, nvml, handle, owed>>

(* The store stays bound and the final artifact is skipped.                 *)
FlushThreadWedged ==
  /\ Teardown("flush", "over") /\ flusher # "dead" /\ "wedge" \in case.faults
  /\ TellMonitors /\ spoiled' = TRUE
  /\ UNCHANGED <<recordVars, flusher, draft, published, store, nvml, handle, owed>>

(* Mutant: the final artifact does not wait for the monitors.               *)
NotAwaited == TRUE

MonitorsJoined == \A f \in Families : monitor[f] \in {"absent", "dead"}

RenderFinal ==
  /\ teardown = "monitors"
  /\ MonitorsJoined \/ "slow" \in case.faults
  /\ teardown' = IF MonitorsJoined THEN "write" ELSE "leave"
  /\ draft' = Payload
  /\ UNCHANGED <<recordVars, flusher, monitor, published, spoiled, store, nvml, handle, owed>>

WriteFinal ==
  /\ teardown \in {"write", "leave"} /\ teardown' = "over"
  /\ \/ published' = draft /\ UNCHANGED spoiled
     \/ "disk" \in case.faults /\ spoiled' = TRUE /\ UNCHANGED published
  /\ draft' = NoArtifact
  /\ store' = IF teardown = "write" THEN "gone" ELSE store
  /\ nvml' = IF teardown = "write" THEN FALSE ELSE nvml
  /\ UNCHANGED <<recordVars, flusher, monitor, handle, owed>>

(* The process ends without a store to tear down.                           *)
NoPerf == ~ Current /\ teardown = "no"
=============================================================================

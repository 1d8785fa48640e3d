---------------------------- MODULE PerfReaders ----------------------------
(***************************************************************************)
(* What a resource snapshot reads.  CPU utilization is the CPU time since   *)
(* the same reader's previous read, so the CPU monitor and the checkpoints   *)
(* of the scopes have a reader each; GPU state is that of the NVML device     *)
(* with the UUID of the rank's torch device.  A read of either may raise.     *)
(* Wall time is left out.                                                     *)
(***************************************************************************)
EXTENDS TrainingState

None == -1   \* the driver does not tell; no reading is negative

(* The CPU time of the process, in what its timed calls took.               *)
CpuTime == MapThenSumSet(LAMBDA n : calls[n], Names)

(* What a reader has read into its table: [table, at], at its last read.    *)
LastRead(reader)      == [table |-> rows["cpu"], at |-> window[reader]]
CpuReading(read, now) == now - read.at

Windows(reader, read) == [window EXCEPT ![reader] = read.at]
NewWindows == [reader \in Readers |-> CpuTime]

(* _nvml_handle_for_torch_device: NVML enumerates every physical GPU, torch *)
(* the visible ones.                                                         *)
LocalRank   == 1
TorchDevice == case.visible[LocalRank]
NvmlHandles == {i \in DOMAIN case.devices : case.devices[i] = TorchDevice}

GpuReadings(index) == case.usage[case.devices[index]]
=============================================================================

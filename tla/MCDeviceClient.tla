---------------------------- MODULE MCDeviceClient ----------------------------
(***************************************************************************)
(* DeviceCallBudget for TLC, with several threads: they differ only in     *)
(* their name, and of its two counters it only matters here whether any    *)
(* login was refused.  Neither counter has a part in any step, so states   *)
(* with the same view have the same futures; the run with this module      *)
(* checks safety only, and nothing that reads more of the counters.        *)
(***************************************************************************)
EXTENDS DeviceCallBudget, TLC

ThreadSymmetry == Permutations(Threads)

Blame == <<vars, disturbed, [t \in Threads |-> denied[t] > 0]>>
=============================================================================

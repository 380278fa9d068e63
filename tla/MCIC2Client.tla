----------------------------- MODULE MCIC2Client -----------------------------
(***************************************************************************)
(* IC2CallBlame for TLC: threads that differ only in their name.  The run  *)
(* with this symmetry checks safety only.                                  *)
(***************************************************************************)
EXTENDS IC2CallBlame, TLC

ThreadSymmetry == Permutations(Threads)
=============================================================================

------------------------------- MODULE MCHost -------------------------------
(* Instances of HostRuntime for TLC: processes are model values. *)
EXTENDS HostRuntime, TLC

Interchangeable == Permutations(Processes)

=============================================================================

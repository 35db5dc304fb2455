------------------------------ MODULE MCDriver ------------------------------
(* Instances of Driver for TLC: sessions and messages are model values. *)
EXTENDS Driver, TLC

Interchangeable == Permutations(Sessions) \cup Permutations(Messages)

=============================================================================

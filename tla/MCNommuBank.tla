---------------------------- MODULE MCNommuBank ----------------------------
(* NommuBank on small instances. *)
EXTENDS NommuBank, TLC

\* Processes are interchangeable; used where no liveness is checked.
Symmetry == Permutations(MM)
=============================================================================

------------------------------- MODULE MCReducers ------------------------------
(* Emission, and with it Reducers, on a small instance given by MCReducers.cfg. *)
EXTENDS Emission, TLC

\* No id is treated otherwise than another.
Symmetry == Permutations(Ids)
================================================================================

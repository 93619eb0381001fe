---------------------------- MODULE MCDispatcher ----------------------------
(* Instances of Dispatcher for TLC, and the mutants of its definitions.    *)
EXTENDS Dispatcher, TLC

Symmetry == Permutations(Callers) \cup Permutations(Chans) \cup Permutations(Keys)
=============================================================================

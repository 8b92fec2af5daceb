---------------------------- MODULE MCWriterLease ----------------------------
(* Hubs and references are interchangeable: the safety runs use symmetry.  *)
EXTENDS WriterLease, TLC

Symmetry == Permutations(Hub) \cup Permutations(Reference)
=============================================================================

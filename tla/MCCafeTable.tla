---------------------------- MODULE MCCafeTable ----------------------------
EXTENDS CafeTable, TLC

(* Sessions, orders and requests are interchangeable.                      *)
MCSymmetry == Permutations(Session) \cup Permutations(Order)
                \cup Permutations(Request)
=============================================================================

---------------------------- MODULE MCInfiniswap ----------------------------
(* Instances of Infiniswap for TLC.  The clients are interchangeable, and  *)
(* the safety runs with two of them use that.                              *)
EXTENDS Infiniswap, TLC

Symmetry == Permutations(Client)
=============================================================================

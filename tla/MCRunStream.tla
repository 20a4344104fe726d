---------------------------- MODULE MCRunStream ----------------------------
(***************************************************************************)
(* Instances of RunStream for TLC.  Connections are interchangeable in the *)
(* runs that check no liveness.                                            *)
(***************************************************************************)
EXTENDS RunStream, TLC

ClientSymmetry == Permutations(Clients)
=============================================================================

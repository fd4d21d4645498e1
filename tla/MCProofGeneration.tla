-------------------------- MODULE MCProofGeneration --------------------------
(***************************************************************************)
(* An instance of ProofGeneration: circuit 1 needs two node aggregations,  *)
(* circuit 2 has a single basic circuit.                                   *)
(***************************************************************************)
EXTENDS ProofGeneration

Circuits == <<5, 1>>
=============================================================================

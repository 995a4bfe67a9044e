----------------------------- MODULE MCPipeline ------------------------------
(* Small instances of the asynchronous pipeline for TLC. *)
EXTENDS PipelineProps, TLC

CONSTANTS l1, l2, c1, c2, u1, u2

(* Batch counts per buffer state. *)
OneState    == <<3>>
TwoStates   == <<2, 2>>
ShortSwap   == <<2, 1>>

Symmetry == Permutations(Loaders) \cup Permutations(Computers)
                \cup Permutations(Updaters)
=============================================================================

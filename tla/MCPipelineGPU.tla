---------------------------- MODULE MCPipelineGPU ----------------------------
(* Small instances of the GPU pipeline for TLC. *)
EXTENDS PipelineGPUProps

TwoStates == <<3, 1>>

Kind(mode, gpus, embeddings, epochs, settled) ==
    [mode |-> mode, gpus |-> gpus, embeddings |-> embeddings, epochs |-> epochs,
     settled |-> settled]

AllKinds ==
    { Kind("train", 2, TRUE, 2, TRUE), Kind("train", 2, FALSE, 2, TRUE),
      Kind("evaluate", 1, TRUE, 2, TRUE),
      Kind("train", 2, TRUE, 1, FALSE), Kind("train", 1, FALSE, 2, FALSE) }
=============================================================================

-------------------------- MODULE MCPipelineExecutor --------------------------
(* PipelineExecutor for TLC: the consumers are interchangeable. *)
EXTENDS PipelineExecutor, TLC

ConsumerSymmetry == Permutations(Workers)

===============================================================================

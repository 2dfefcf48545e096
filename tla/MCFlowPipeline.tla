--------------------------- MODULE MCFlowPipeline ---------------------------
(* Two workers, batches of two, two OpenSearch nodes. *)
EXTENDS FlowPipeline

CONSTANTS w1, w2

MCWorkers == {w1, w2}
=============================================================================

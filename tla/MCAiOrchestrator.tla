--------------------------- MODULE MCAiOrchestrator ---------------------------
(* The TLC instance of AiOrchestrator. *)
EXTENDS AiOrchestrator
==============================================================================

--------------------------- MODULE MCTriggerPipeline ---------------------------
(* Instances of TriggerPipeline for TLC. *)
EXTENDS TriggerPipeline

CONSTANTS pods, alert, hook
================================================================================

------------------------------ MODULE MCThrottledLLM ------------------------------
(* Four calls at a time for two slots, urgent and default ones. *)
EXTENDS ThrottledLLM
===============================================================================

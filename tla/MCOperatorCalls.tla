------------------------------ MODULE MCOperatorCalls ------------------------------
(* Three calls at a time, two retries each, a circuit that opens at the fourth failure. *)
EXTENDS OperatorCalls
===============================================================================

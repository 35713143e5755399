------------------------------ MODULE MCEasySdk ------------------------------
(* Model of EasySdk for TLC: two clients of one server handle.               *)
EXTENDS EasySdk

CONSTANTS c1, c2
=============================================================================

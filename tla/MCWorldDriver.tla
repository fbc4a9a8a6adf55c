--------------------------- MODULE MCWorldDriver ---------------------------
(* Model-checking instance of WorldDriver, with the delays of the code.     *)
EXTENDS WorldDriver
=============================================================================

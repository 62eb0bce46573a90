------------------------------- MODULE MCPatFpga -------------------------------
(* Instance of PatFpga for TLC. *)
EXTENDS PatFpga

ZeroOnly == {0}
===============================================================================

------------------------------ MODULE MCReport ------------------------------
(* A negative amount (a reversal), zero, an amount of less than half a     *)
(* cent, two of which make one, and any two rows of them.                  *)
EXTENDS Report

MCNumbers == {-5, 0, 4}

=============================================================================

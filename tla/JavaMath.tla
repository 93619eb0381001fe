-------------------------------- MODULE JavaMath --------------------------------
(* Math.max and Math.min, which the seed provider and the bootstrapper use. *)
EXTENDS Integers

Larger(a, b) == IF a > b THEN a ELSE b
Smaller(a, b) == IF a < b THEN a ELSE b
=============================================================================

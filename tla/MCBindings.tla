----------------------------- MODULE MCBindings -----------------------------
(* Values for the constants of Bindings: a long beyond SafeMax, a double   *)
(* that is an int, and an object of a class toJSValue does not know.       *)
EXTENDS Bindings, TLC

MCValue == {Number("Long", 14), Number("Double", 2), NoNumber("Unsupported")}

Symmetry == Permutations(Thread) \cup Permutations(Name)
=============================================================================

--------------------------- MODULE MCCallFunctions ---------------------------
(* Small instances of CallFunctions for TLC.                               *)
EXTENDS CallFunctions, TLC

(* Callbacks, ids, JS functions and threads are interchangeable.           *)
Symmetry == Permutations(Callback) \cup Permutations(Id) \cup Permutations(Fn)
            \cup Permutations(Thread)
=============================================================================

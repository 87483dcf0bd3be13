-------------------------- MODULE MCQuickJSWrapper --------------------------
(* Small instances of QuickJSWrapper for TLC.                              *)
EXTENDS QuickJSWrapper, TLC

(* Addresses of ordinary objects, handles and invocations are              *)
(* interchangeable.                                                        *)
Symmetry == Permutations(Ptr \ {Ctx, Global}) \cup Permutations(Handle)
            \cup Permutations(Invocation)
=============================================================================

------------------------------ MODULE MCModules ------------------------------
(* Small instances of Modules for TLC.                                     *)
EXTENDS Modules, TLC

CONSTANTS a, b, c

(* Every graph of up to three requirements over three names, in either     *)
(* order, where one file perhaps cannot be loaded or linked: it has chains,*)
(* circles of two and of three, and modules required twice.  The names are *)
(* interchangeable: the file is that of c, a requires no less than b, and  *)
(* if no more, c does not require b first.  A file that cannot be loaded   *)
(* requires nothing.                                                       *)
MaxRequirements == 3

Requires(n) == {<<>>} \cup {<<x>> : x \in Name \ {n}}
               \cup {s \in {<<x, y>> : x, y \in Name \ {n}} : s[1] # s[2]}

AllSources ==
    {[n \in Name |-> [requires |-> CASE n = a -> ra [] n = b -> rb [] n = c -> rc,
                      fault |-> IF n = c THEN f ELSE "none"]] :
        ra \in Requires(a), rb \in Requires(b), rc \in Requires(c), f \in Fault}

MCSources ==
    {s \in AllSources :
        /\ Len(s[a].requires) + Len(s[b].requires) + Len(s[c].requires) <= MaxRequirements
        /\ \/ Len(s[a].requires) > Len(s[b].requires)
           \/ Len(s[a].requires) = Len(s[b].requires) /\ s[c].requires \notin {<<b>>, <<b, a>>}
        /\ s[c].fault = "load" => s[c].requires = <<>>}
=============================================================================

----------------------------- MODULE MCSkpScopes -----------------------------
(* Values for checking SkpScopes on small programs.                        *)
EXTENDS SkpScopes, TLC

Symmetry == Permutations(Names)

(* Of the last name used, the next step and the invariants of the tables   *)
(* see no more than whether the compiler still runs.                       *)
View == <<ctxs, nest, rejected, Compiling>>
=============================================================================

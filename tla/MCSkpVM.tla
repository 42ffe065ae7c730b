------------------------------- MODULE MCSkpVM -------------------------------
(* Values for checking SkpVM on a short stack.                             *)
EXTENDS SkpVM, TLC

Symmetry == Permutations(Closures) \cup Permutations(Upvalues)

(* What a popped slot still holds is never read again, unless an upvalue   *)
(* points to it: states that differ in nothing else are one state.         *)
View == <<[s \in Slots |-> IF s < top \/ \E u \in Upvalues : location[u] = s
                            THEN stack[s] ELSE Nil],
          top, frames, open, location, closed, captures, made, captured, status>>
=============================================================================

----------------------------- MODULE MCSamogon -----------------------------
(* What the converters may measure in the runs of Samogon. *)
EXTENDS Samogon

Quiet   == {[s \in {1, 2} |-> Zero]}
OneMoves == {[s \in {1, 2} |-> IF s = 1 THEN r ELSE CHOOSE w \in Readings : w # Zero] :
                r \in Readings \cup {Fault}}
============================================================================

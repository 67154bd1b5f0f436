------------------------------ MODULE MCTraces ------------------------------
(* Variables are interchangeable, and so are commands.                       *)
EXTENDS Traces

MCSymmetry == Permutations(Variables) \cup Permutations(Commands)
=============================================================================

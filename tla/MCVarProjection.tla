-------------------------- MODULE MCVarProjection --------------------------
(* Small mixes of what scripts do with variables, for TLC.                    *)
EXTENDS VarProjectionRefinement

CONSTANTS g1, g2

(* Names no chunk wrote, interned and linked to by upvar, and a procedure of  *)
(* another chunk that changes what they name.                                 *)
Interned == [uses |-> {"call", "upvar", "overflow"}, names |-> {g1, g2},
             runs |-> 2, frames |-> 1, known |-> 0]

(* Three evaluations inside one another: scripts in the frame of a body, their*)
(* own bodies and scripts, and procedures of other chunks.                    *)
Nested == [uses |-> {"call", "frame", "apply", "eval"}, names |-> {g1},
           runs |-> 3, frames |-> 1, known |-> 1]

(* Two activations of one VM, links between them and scripts in the frame of  *)
(* either, and scripts at global level.                                       *)
Frames == [uses |-> {"call", "frame", "upvar", "uplevel"}, names |-> {g1},
           runs |-> 2, frames |-> 2, known |-> 1]

MCMixes == {Interned, Nested, Frames}
=============================================================================

------------------------------ MODULE MCPackages ------------------------------
(* Versions 1, 1.0 (the same) and the beta 2b1, and requirements that         *)
(* tell them apart; the packages are interchangeable.                         *)
EXTENDS Packages

One       == <<1>>
OneZero   == <<1, 0, 0>>
BetaOfTwo == <<2, -1, 1>>

MCNumbers      == {One, OneZero, BetaOfTwo}
MCRequirements == {{}, {Plain(OneZero)}, {From(BetaOfTwo)}}
MCSymmetry     == Permutations(Names)
=============================================================================

-------------------------- MODULE MCTfsRefinement --------------------------
(* A small instance of TfsRefinement, with two bytes told apart. *)
EXTENDS TfsRefinement, TLC

CONSTANTS a, b, x, y

MCNames     == {a, b}
MCLongNames == {"long"}
MCBadPaths  == {"bad"}
MCBytes     == {x, y}
MCBuffers   == {<<>>, <<y, x>>}
MCReadLens  == {1, 2}

NameSymmetry == Permutations(MCNames)

=============================================================================

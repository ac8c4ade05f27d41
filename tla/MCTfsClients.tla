--------------------------- MODULE MCTfsClients ---------------------------
(* Small instances of TfsClients: which names, buffers and sizes TLC uses. *)
EXTENDS TfsClients, TLC

CONSTANTS a, b, x

MCNames     == {a, b}
MCLongNames == {"long"}
MCBadPaths  == {"bad"}
MCOneByte   == {x}
MCOneByteBuffers == {<<>>, <<x>>}
MCReadLens  == {2}

\* Names are used alike everywhere.
NameSymmetry == Permutations(MCNames)

=============================================================================

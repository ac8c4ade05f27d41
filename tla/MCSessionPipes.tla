--------------------------- MODULE MCSessionPipes ---------------------------
(* Small instances of SessionPipes: which clients come. *)
EXTENDS SessionPipes

CONSTANTS p, s, m, n, l, reg

OnlyP  == {p}
OnlyS  == {s}
OnlyM  == {m}
OnlyN  == {n}
SPAndM == {s, p, m}
OnlyL  == {l}
MNLAndP == {m, n, l, p}

=============================================================================

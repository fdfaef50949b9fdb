--------------------------- MODULE MCPlayerIndex ---------------------------
(* TLC instances of PlayerIndex: cells of 4 by 4 blocks, radius 3.           *)
EXTENDS PlayerIndex

CONSTANTS p1, p2

\* Two cells, and positions whose coordinates do not mix.
TwoCells == {<<0, 0>>, <<5, 5>>}
\* Neighbouring cells on both sides of the origin, within and out of reach.
InARow == {<<-1, 0>>, <<2, 0>>, <<4, 0>>}
=============================================================================

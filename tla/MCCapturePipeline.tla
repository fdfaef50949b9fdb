------------------------- MODULE MCCapturePipeline -------------------------
(* TLC instances of CapturePipeline: up to two players and two sessions.     *)
EXTENDS CapturePipeline

CONSTANTS p1, p2
=============================================================================

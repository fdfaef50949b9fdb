---------------------------- MODULE MCEventRing ----------------------------
(* TLC instances of EventRing: a ring of two slots and two threads.          *)
EXTENDS EventRing

CONSTANTS t1, t2
=============================================================================

----------------------------- MODULE MCFeatures -----------------------------
(* Features with two threads.                                              *)
EXTENDS Features

CONSTANTS t1, t2

=============================================================================

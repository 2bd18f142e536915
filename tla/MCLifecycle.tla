---------------------------- MODULE MCLifecycle ----------------------------
(* Instances of Lifecycle for TLC.                                          *)
EXTENDS Lifecycle

CONSTANTS o1, o2, w1, w2, w3
=============================================================================

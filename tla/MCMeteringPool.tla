---------------------------- MODULE MCMeteringPool ----------------------------
(* Two tasks on a queue of one with one worker, so that one overflows while the *)
(* other is queued; one spare worker name, so that a replacement can start      *)
(* while the worker it replaces is still busy.                                  *)
EXTENDS MeteringPool, TLC
=============================================================================

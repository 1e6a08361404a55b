------------------------------ MODULE MCGSClient ------------------------------
(* GSClient on a small instance, for TLC.  The requests are not declared  *)
(* symmetric: the runs check liveness.                                    *)
EXTENDS Composition
=============================================================================

-------------------------- MODULE MCRayWorkerPool --------------------------
(* TLC instances of RayWorkerPool. *)
EXTENDS RayWorkerPool
=============================================================================

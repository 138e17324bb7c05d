--------------------------- MODULE MCOrphanSweep ---------------------------
(* Two workers, one of them with an unreliable event loop.                 *)
EXTENDS OrphanSweep
=============================================================================

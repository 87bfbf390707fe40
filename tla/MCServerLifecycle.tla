------------------------- MODULE MCServerLifecycle -------------------------
(* ServerLifecycle for TLC: three requests.                                 *)
EXTENDS ServerLifecycle

CONSTANTS r1, r2, r3

MCRequests == {r1, r2, r3}
=============================================================================

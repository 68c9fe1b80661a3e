--------------------------- MODULE MC_IdAllocator ---------------------------
(* Two concurrent callers, a step of 2 so that both the fast path and the  *)
(* persist path run several times, one restart.                            *)
EXTENDS IdAllocator

MCCallers == {"c1", "c2"}
=============================================================================

------------------------------- MODULE MCMmu -------------------------------
(* An instance of Mmu for TLC: an address in the middle of the i-cache's   *)
(* first line, the first one of its second, the first one of the d-cache's *)
(* line, and an address out of range that aliases this one.                *)
EXTENDS Mmu

MCFetched == {Page + 1, Page + W}
MCAccessed == {Page + ILines * W, ILines * W}
=============================================================================

-------------------------- MODULE MCModelResidency --------------------------
(* Regions of sizes 1, 1, 2 and 3: RAM holds the first three, or the last   *)
(* and a small one; the accelerator holds r3, or r1 and r2.                 *)
EXTENDS ModelResidency, FiniteSetsExt

CONSTANTS r1, r2, r3, r4

MCRegions == {r1, r2, r3, r4}
MCSize(r) == CASE r = r4 -> 3 [] r = r3 -> 2 [] OTHER -> 1
MCBytes   == [S \in SUBSET MCRegions |-> MapThenSumSet(MCSize, S)]
=============================================================================

----------------------------- MODULE MCDataCache -----------------------------
(* Two resources, the gas schedule's module and another, and two blobs: a
   resource can be read, written, moved and put back with a different blob
   while the other one shows that nothing else changes. *)
EXTENDS DataCache, TLC

CONSTANTS r1, r2, m1, gs, b1, b2

MCSymmetry == Permutations({r1, r2}) \cup Permutations({b1, b2})
=============================================================================

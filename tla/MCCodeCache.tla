----------------------------- MODULE MCCodeCache -----------------------------
(* Two resources, the gas schedule's module and another, and two blobs: a
   resource can be read, written, moved and put back with a different blob
   while the other one shows that nothing else changes.  A script that imports
   the other module, and one that imports both. *)
EXTENDS CodeCache, TLC

CONSTANTS r1, r2, m1, gs, b1, b2, s1, s2

MCImports == s1 :> {m1} @@ s2 :> {m1, gs}

MCSymmetry == Permutations({r1, r2}) \cup Permutations({b1, b2})
=============================================================================

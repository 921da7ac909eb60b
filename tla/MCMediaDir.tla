----------------------------- MODULE MCMediaDir -----------------------------
(***************************************************************************)
(* MediaDir for TLC: nothing in it tells one name, or one upload, from     *)
(* another, and what is checked is safety, so both may be permuted.        *)
(***************************************************************************)
EXTENDS MediaDir, TLC

Symmetry == Permutations(Names) \cup Permutations(Uploads)
=============================================================================

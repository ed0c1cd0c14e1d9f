----------------------------- MODULE MCBrowser -----------------------------
(* Browser with a few tabs and calls; no handler tells one tab from another. *)
EXTENDS Browser, TLC

TabSymmetry == Permutations(Tabs)
=============================================================================

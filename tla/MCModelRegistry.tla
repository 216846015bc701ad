--------------------------- MODULE MCModelRegistry ---------------------------
(* Checks ModelRegistry with a few writers of one name, which are alike.   *)
EXTENDS ModelRegistry, TLC

WritersAreAlike == Permutations(Writers)
=============================================================================

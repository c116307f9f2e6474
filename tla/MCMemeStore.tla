---------------------------- MODULE MCMemeStore ----------------------------
(***************************************************************************)
(* Instances of module MemeStore for TLC.                                  *)
(***************************************************************************)
EXTENDS MemeStore, TLC

CONSTANTS t1, t2, i1, i2, c1, c2

TwoThreads  == {t1, t2}
OneId       == {i1}
TwoIds      == {i1, i2}
TwoContents == {c1, c2}

Symmetry == Permutations(TwoThreads) \cup Permutations(TwoIds)
              \cup Permutations(TwoContents)

=============================================================================

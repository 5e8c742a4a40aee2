-------------------------- MODULE MCOrderbookWatch --------------------------
(* Small instances of OrderbookWatch: interchangeable directories.         *)
EXTENDS OrderbookWatch, TLC

DirSymmetry == Permutations(Dirs)
=============================================================================

--------------------------- MODULE MCWalletCoins ---------------------------
(* A wallet with one branch of keys, a bond address and one SNICKER key.   *)
EXTENDS WalletCoins, TLC

TxSymmetry == Permutations(Txs)
=============================================================================

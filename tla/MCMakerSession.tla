--------------------------- MODULE MCMakerSession ---------------------------
EXTENDS MakerSession, TLC
(* Two mixdepths.  A wallet with two good coins in mixdepth 0, and one     *)
(* that has a coin below the dust threshold in mixdepth 1.                 *)
TwoCoins == {<<0, -1>>, <<0, -2>>}
Value == [c \in Coins |-> CASE c = <<0, -1>> -> 12 [] c = <<0, -2>> -> 9
                           [] OTHER -> 2]
MCCjFee == [a \in Amounts |-> 2]
Symm == Permutations(Takers) \cup Permutations(Commits)
=============================================================================

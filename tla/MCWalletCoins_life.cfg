SPECIFICATION Spec
CONSTANTS
  Txs = {t1, t2}
  NoTx = NoTx
  None = None
  Branches = {internal}
  Bond = Bond
  Tweaks = {k1}
  MaxIndex = 2
  GapLimit = 1
SYMMETRY TxSymmetry
INVARIANTS HeldBackIsNotSpent IndexPastUsed TweakedKeyIsStored 

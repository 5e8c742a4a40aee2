SPECIFICATION Spec
CONSTANTS
  Nicks = {n1}
  Oids = {o1}
  Dirs = {d1, d2}
  Texts = {good, bad}
  BadTexts = {bad}
  PrivateTexts = {good}
  Grace = 1
  Retention = 2
  Ttl = 1
  MaxHooks = 2
  MaxVerifying = 2
SYMMETRY DirSymmetry
INVARIANTS   VouchingIsCurrent

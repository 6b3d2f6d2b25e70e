\* Small widths, so that balance and count wrap around.
SPECIFICATION Spec
CONSTANTS
  BalanceMod = 4
  CountMod = 3
  Amounts = {1, 2}
INVARIANT PurseInv
PROPERTY ImplementsAtomicPurse

SPECIFICATION Spec
CONSTANTS
  MaxGenerations = 2
INVARIANTS
  UpgradeComplete
  OpensUnlessCut
  CachedIsCurrent
  PairInForce
  PolicyServed

CONSTANTS
  live = live
  batch = batch
  third = third
  Injectors = {live, batch, third}
  Live = {live}
  Ceiling <- ThrottlingCeilings
  StaleAfter = 6
  MaxWait = 1
  NoOne = noOne
  KillBound = 1
SPECIFICATION FairSpec
INVARIANTS LockInv ExclusionWithinMargin
PROPERTIES OnlyStaleLocksAreTaken DeadHolderNeverWedges

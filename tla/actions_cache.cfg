SPECIFICATION ActionsSpec
CONSTANTS
  Guests = {g1, g2}
  Repos = {g1, g2}
  RepoOf <- MCRepoOf
  Keys = {k1}
  Uploads = {u1, u2}
  Blocks <- MCBlocks
  MaxBytes = 1
  Nothing = Nothing
  MaxFaults = 1
SYMMETRY CacheSymmetry
INVARIANTS ActionsTypeOK TotalIsIndexed ReadyIndexed
PROPERTIES SavedWithinQuota 

SPECIFICATION OCISpec
CONSTANTS
  v1 = v1
  v2 = v2
  r1 = r1
  r2 = r2
  pub = pub
  priv = priv
  tag = tag
  Guests = {v1, v2}
  Repos = {r1, r2}
  RepoOf <- MCRepoOf
  AddrOf <- MCAddrOf
  Blobs = {pub, priv}
  Refs = {tag}
  DigestOf <- MCDigestOf
  PublicItems = {pub, tag}
  Has <- MCHas
  Public = Public
  MaxBytes = 1
  Nothing = Nothing
  Bad = Bad
  MaxFaults = 1
  MaxTotal = 3
INVARIANTS OCITypeOK TotalCoversIndex BlobsIndexed
  

SPECIFICATION Spec
SYMMETRY MCSymmetry
CONSTANTS
  ferza = ferza
  acme = acme
  a1 = a1
  b1 = b1
  j1 = j1
  j2 = j2
  k1 = k1
  Tenants = {ferza, acme}
  Assets = {a1, b1}
  Jobs = {j1, j2, k1}
  AssetOf <- MCAssetOf
  Workers = {w1, w2}
  Owner <- MCOwner
  Readable <- MCReadable
  Digest <- MCDigest
  NumChunks = 1
  MaxRetries = 2
  MaxFaults = 1
  MaxDrops = 2
  NoJob = NoJob
  NoTenant = NoTenant
INVARIANTS
  TypeOK
  MarkedMeansStored
  RaceIsSurvived
PROPERTIES
  ImplementsPort
CHECK_DEADLOCK FALSE

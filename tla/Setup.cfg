SPECIFICATION Spec
CONSTANTS
  Params <- MCParams
  Writes <- MCWrites
  Regions <- MCRegions
  OpenFails = TRUE
INVARIANTS
  TypeOK
  IdentityKept
  BarFound
  StatusTold
  CapabilitiesFound
  InsideReserved
  MinorsFit
  DisksPutBack

  
CHECK_DEADLOCK FALSE

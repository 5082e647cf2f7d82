SPECIFICATION Spec
CONSTANTS
  Builds = {b1, b2}
  Runs = {r1, r2}
  Lookups = {g1}
  Parts = {memfile, rootfs}
  NoBuild = NoBuild
  NoRun = NoRun
  MaxMishaps = 1
SYMMETRY Symmetry
CHECK_DEADLOCK FALSE
INVARIANTS
  TypeOK
  OneBuildAtATime
  CounterSettles
  UploadedIsWhole
  CacheFollowsBuilds
  BuildingIsSettled

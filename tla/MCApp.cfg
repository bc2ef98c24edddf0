SPECIFICATION MCSpec
CONSTANTS
  Versions = {1, 2}
  NoFile = NoFile
  Shipped = 1
  MayFail = TRUE
  Mine = Mine
  Profiles = {alt}
  NoProfile = NoProfile
  Process = {p, a, b}
  Admin = {a, b}
  Values = {Default, Changed}
  Default = Default
  Missing = Missing
  Bad = Bad
  Half = Half
  Nobody = Nobody
INVARIANTS
  AppTypeOK
  ListKept
  ListRestored
  CatalogTrue
  StrategiesFresh
  BootTaskFollows
  OneInstance
  FileWhole
PROPERTIES
  OverwriteKept
  CardConverges
CHECK_DEADLOCK FALSE

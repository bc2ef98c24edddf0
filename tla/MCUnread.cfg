SPECIFICATION StartupSpec
CONSTANTS
  Process = {p}
  Admin = {p}
  Values = {Default, Changed}
  Default = Default
  Missing = Missing
  Bad = Bad
  Half = Half
  Nobody = Nobody
PROPERTY UnreadStateKept
CHECK_DEADLOCK FALSE

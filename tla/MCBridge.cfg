SPECIFICATION BridgeSpec
CONSTANTS
  Conn = {x, y, z}
  MaxConn = 2
  Router = {r}
  Setups <- MCSetups
  CfKey = {k, l}
  CfClient = {c, d}
  CfTask = {t, u}
  CfPoolMax = 1
  CfPoolSize = 2
  NoKey = NoKey
  Domain = {one, two}
  MaxDomains = 2
  Proto = {"abridged", "intermediate"}
  MaxPackets = 2
  Lengths = {4, 6}
  MaxTail = 2
INVARIANTS
  BridgeTypeOK
  SlotBudget
  LadderComplete
  AskedOnce
  DialComplete
  PacketsWhole
PROPERTIES
  ServerStops
  SlotsReturn
  CfLeaseSpec
CHECK_DEADLOCK FALSE

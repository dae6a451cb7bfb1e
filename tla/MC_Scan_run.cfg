SPECIFICATION ScanRunSpec
CONSTANTS
  R1 = R1
  R10 = R10
  R2 = R2
  B1 = B1
  B2 = B2
  B3 = B3
  Q1 = Q1
  Q2 = Q2
  None = None
  Demo = Demo
  Wrong = Wrong
  ScanRacks = {R1, R10, R2}
  Bins = {B1, B2, B3}
  Labels = {Q1, Q2}
  FirstRack = R1
  Topology <- MCTopology
  Inventory <- MCInventory
  QrCode <- MCQrCode
  Scopes <- MCScopes
  Within <- MCWithin
  MaxCallFaults = 2
INVARIANTS ScanRunInv StoredOnce
PROPERTY Ends
CHECK_DEADLOCK FALSE

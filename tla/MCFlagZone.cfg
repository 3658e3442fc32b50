SPECIFICATION FairSpec
CONSTANTS
  u1 = u1
  u2 = u2
  Unit <- WestUnits
  SideOf <- WestOnly
  Field = {a}
  ReadyTime = 2
  CaptureTime = 1
  MaxRequests = 1
  None = None
INVARIANTS CarrierKept OneGain
PROPERTIES WaitsOut PinnedStays BodiesGo

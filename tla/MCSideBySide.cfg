SPECIFICATION OneOfThem
CONSTANTS
  o1 = o1
  o2 = o2
  e1 = e1
  Order = {o1, o2}
  Qty <- SmallQty
  Edit = {e1}
  MaxActual = 3
  Nothing = Nothing
  Agent = {"musa"}
  Document = {"HARVEST_ESTIMATE"}
  Requestable = {"HARVEST_ESTIMATE"}
  Check = {"FARMER_ID"}
  Identity = {"FARMER_ID"}
  Choice = {"AWAITING_DOCS"}
  MaxTurns = 1
  Item = {"harvested", "packaged"}
  MaxRow = 3
  MaxKey = 3
  MaxChange = 2
  MaxSize = 2
  MaxReported = 2
  Request = {"r1", "r2"}
  State = {"lagos", "oyo"}
  Lga = {"ikeja", "kosofe"}
  StateOf <- SmallStateOf
  Field = {"legalName", "contactName"}
  MaxAddresses = 2
  MaxId = 3
  None = None
INVARIANTS
  StockAccounted
  PagesComplete
  FiguresAgree
  ProfilesWhole
PROPERTIES
  StatusStrays
  ApprovedWhole
  EvidenceKept
  ReadyAsTicked
  LgaHeld

CONSTANTS
  CAN_BUS_PDU_NUM = 2
  p1 = p1
  p2 = p2
  p3 = p3
  i1 = i1
  i2 = i2
  ANY = ANY
  NULL = NULL
  Cells <- ThreeCells
  Ids <- Both
  ReadIds <- ReadBothOrAny
SPECIFICATION HistorySpec
CHECK_DEADLOCK FALSE
INVARIANTS TypeOK InStep OneOwner
PROPERTY FirstReceivedFirst
SYMMETRY CellSymmetry

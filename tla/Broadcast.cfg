CONSTANTS
  ClientsMax = 3
  CAN_BUS_NODE_MAX = 2
  RoomMax = 1
  PartsMax = 4
SPECIFICATION BroadcastSpec
INVARIANTS TypeOK WalkSound OneBus FramesWhole
PROPERTY Served

CONSTANTS
  N_DATA_MAX = 34
  FC_BS = 2
  SN_MOD = 3
  TIMER_B_S = 2
  TIMER_B_R = 2
  TIMER_C_R = 2
  TIMER_FC_STMIN = 4
  Ids <- MCIds
  Msgs <- MCMsgs
  DataBytes <- NoBytes
  Messages <- MCMessages
  Frames <- BothFrames
  RcvIds <- Tester
  FFIds <- Ecu
SPECIFICATION PeersSpec
INVARIANTS TypeOK WireIsSegmentation BlockSizeHonoured SendAccounting RcvAccounting OKMeansWhole
PROPERTIES SeparationHonoured TimeoutBsEarned SendTerminates TimeoutCrEarned RcvTerminates

CONSTANTS
  N_DATA_MAX = 13
  FC_BS = 2
  SN_MOD = 3
  TIMER_B_S = 1
  TIMER_B_R = 1
  TIMER_C_R = 1
  TIMER_FC_STMIN = 4
  Ids <- MCIds
  Msgs <- MCMsgs
  DataBytes <- NoBytes
  Messages <- Nothing
  Frames <- MCFrames
  RcvIds <- Tester
  FFIds <- Nothing
SPECIFICATION StoresSpec
INVARIANT TakenWhole

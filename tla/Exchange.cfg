CONSTANTS
  N_DATA_MAX = 34
  FC_BS = 3
  SN_MOD = 16
  TIMER_B_S = 1
  TIMER_B_R = 1
  TIMER_C_R = 1
  TIMER_FC_STMIN = 4
  Ids <- MCIds
  Msgs <- MCMsgs
  DataBytes <- NoBytes
  Messages <- MCMessages
  Frames <- Nothing
  RcvIds <- FromTester
  FFIds <- Nothing
  cBS = 2
  cSTmin = 2
  CAN_BUS_PDU_NUM = 2
  TxId = "tester"
  Positive <- MCPositive
  Quiet <- MCQuiet
  MaxAsked = 2
  Script <- MCScript
  Answers <- MCAnswers
SPECIFICATION ExchangeSpec
INVARIANTS TesterTypeOK FailureHasCause PositiveIsWhole
PROPERTIES RequestsDelivered AnswersDelivered

--------------------------- MODULE ExchangeProofs ---------------------------
(* Proofs about the tester and the node on one bus, for every value of the   *)
(* constants.  In this order:                                                *)
(*   types of both (ExchangeIInv), without any order between their threads;  *)
(*   putting frames together: a gap is never closed (PartsGrow, PartsWhole); *)
(*   the sender and the last answer (SenderInv);                             *)
(*   the phases of a request: coming, judged, taken, held or dead (Phase);   *)
(*   the calls of a tester who is not hasty, and one answer at a time        *)
(*   (TesterInv, OneAnswer, NotGotYet);                                      *)
(*   the way of an answer (Stream, Response);                                *)
(*   all of it in one invariant (PromiseIInv), and the promises;             *)
(*   an exchange that nothing disturbs (SmoothInv): the frames in flight, a  *)
(*   tick of the node's sender and of its receiver, the server's thread, the *)
(*   tester, and that a failure has a cause.                                 *)
EXTENDS ExchangeInvariant, CanTpProofs, SequenceTheorems

SegmentType == [type : FrameTypes, data : Data]

UserStates == {"none", "send_data", "send_length", "send_result",
               "rcv_data", "rcv_length", "rcv_clear", "rcv_result"}

UserTypes ==
    /\ user \in [at : UserStates, n : Nat, m : TxBuffer,
                 got : [length : 0 .. N_DATA_MAX, segs : Seq(SegmentType)]]
    /\ poll = None \/ \E m \in Msgs : poll = <<m>>

(* The server never looks into a request of which nothing was copied: until  *)
(* its first call has cleared Rx_buf.length, N_OK comes with a length.       *)
Filled == Receiving \/ rcv.N_result = "N_OK" => rxbuf.length > 0

GotInv ==
    user.got.segs = <<>> =>
        /\ Filled
        /\ user.at = "rcv_data" => user.n = 0 /\ rxbuf.length > 0
        /\ user.at \notin {"rcv_length", "rcv_clear", "rcv_result"}

(* An answer that crosses another may leave a message under way in Tx_buf    *)
(* that is not the one whose first frame went out.  LongMessage and          *)
(* SendAccounting are lost then, the room in the buffer is not.              *)
ExchangeIInv ==
    /\ SendTypeOK /\ Room /\ RcvTypeOK /\ pc \in {"tx", "fc", "rx", "timer"}
    /\ TesterTypeOK /\ UserTypes /\ GotInv

-----------------------------------------------------------------------------
LEMMA NoneType == NoId \in Ids /\ NoData.msg \in Msgs /\ 0 \in 0 .. N_DATA_MAX
BY Zeros, Defaults DEF Data

LEMMA ExchangeInitially == ExchangeInit => ExchangeIInv
<1> SUFFICES ASSUME ExchangeInit
             PROVE  ExchangeIInv
  OBVIOUS
<1>1. SendTypeOK /\ Room /\ RcvTypeOK /\ pc \in {"tx", "fc", "rx", "timer"}
  BY SendInitially, RcvInitially, RoomLeft DEF ExchangeInit, Init, SendIInv
<1>2. TesterTypeOK
  <2>1. (CHOOSE m \in Msgs : TRUE) \in Msgs
    BY DataAssumption
  <2>2. /\ 0 \in 0 .. SN_MOD - 1 /\ 0 \in 0 .. 4095 /\ 0 \in 0 .. 255 /\ 1 \in 1 .. 4095
        /\ 0 <= CAN_BUS_PDU_NUM
    BY Zeros, TesterAssumption
  <2>3. tp \in [state : TpStates, SN : 0 .. SN_MOD - 1, t_size : 0 .. 4095, BS : 0 .. 255]
    BY <2>2 DEF ExchangeInit, TesterInit, TpStates
  <2>4. request \in Requests
    BY <2>1, <2>2 DEF ExchangeInit, TesterInit, Requests
  <2> QED
    BY <2>2, <2>3, <2>4 DEF ExchangeInit, TesterInit, TesterTypeOK, Calls, None
<1>3. UserTypes /\ user.at = "none"
  <2>1. [length |-> 0, id |-> NoId, msg |-> NoData.msg] \in TxBuffer
    BY NoneType DEF TxBuffer
  <2> QED
    BY <2>1, NoneType DEF ExchangeInit, UserInit, UserTypes, UserStates
<1>4. GotInv
  BY <1>3 DEF GotInv, Filled, Receiving, ExchangeInit, Init, RcvInit
<1> QED
  BY <1>1, <1>2, <1>3, <1>4 DEF ExchangeIInv

-----------------------------------------------------------------------------
(* The node's ticks.  Whatever a part of a tick receives keeps Rx_buf        *)
(* filled.                                                                   *)
LEMMA RxFills ==
  ASSUME RcvTypeOK, RxPart
  PROVE  /\ Filled => Filled'
         /\ rxbuf.length > 0 => rxbuf'.length > 0
<1> DEFINE Goal == (Filled => Filled') /\ (rxbuf.length > 0 => rxbuf'.length > 0)
<1>0. rxbuf \in RxBuffer /\ rcv \in RxRuntime /\ rcvFC \in FCParam
  BY DEF RcvTypeOK
<1>1. ASSUME rxbuf'.length = rxbuf.length, rcv'.N_result = "N_OK" => rcv.N_result = "N_OK",
             Receiving' => Receiving
      PROVE  Goal
  BY <1>1 DEF Filled
<1>2. ASSUME rxbuf'.length > 0
      PROVE  Goal
  BY <1>2 DEF Filled
<1>3. CASE RcvSingleFrame
  <2>1. rxbuf'.length = Pdu.f.lo /\ Pdu.f.lo \in 1 .. CF_DATA
    BY <1>3 DEF RcvSingleFrame
  <2> QED
    BY <1>2, <2>1, Sizes
<1>4. CASE FirstFrame
  <2>1. rxbuf'.length = FF_DL(Pdu.f) /\ FF_DL(Pdu.f) \in FF_DATA + 1 .. N_DATA_MAX
    BY <1>4 DEF FirstFrame
  <2> QED
    BY <1>2, <2>1, Sizes
<1>5. CASE ConsecutiveFrame
  <2>1. rxbuf'.length = rxbuf.length /\ Receiving
    BY <1>0, <1>5 DEF ConsecutiveFrame, RxBuffer, Receiving, InFlow
  <2> QED
    BY <2>1 DEF Filled
<1>6. CASE RcvUnknown \/ RcvSingleFrameError \/ IdleFirstFrame
  BY <1>0, <1>1, <1>6
  DEF RcvUnknown, RcvSingleFrameError, IdleFirstFrame, InFlow, Receiving, RxBuffer, RxRuntime
<1>7. CASE FirstFrameTooLong
  <2>1. /\ rxbuf'.length = rxbuf.length /\ rcv'.N_result = "N_INVALID"
        /\ rcv'.status = "SEND_FC" /\ rcvFC'.FS = OVFLW
    BY <1>0, <1>7
    DEF FirstFrameTooLong, RxBuffer, RxRuntime, ResultCleared, FlowControl
  <2> QED
    BY <1>1, <2>1 DEF Receiving, CTS, OVFLW
<1>11. CASE FirstFrameTooShort
  <2>1. /\ rxbuf'.length = rxbuf.length /\ rcv'.N_result = "N_INVALID"
        /\ rcv'.status = "RCV_FF"
    BY <1>0, <1>11 DEF FirstFrameTooShort, InFlow, RxBuffer, RxRuntime, ResultCleared
  <2> QED
    BY <1>1, <2>1 DEF Receiving
<1>8. CASE FlowControlSent \/ FlowControlLate \/ FlowControlUnsent
  BY <1>0, <1>1, <1>8
  DEF FlowControlSent, FlowControlLate, FlowControlUnsent, InFlow, Receiving, RxRuntime,
      RcvOK
<1>9. CASE WrongSequenceNumber \/ ConsecutiveFrameTimeout \/ ConsecutiveFramePending
  BY <1>0, <1>1, <1>9
  DEF WrongSequenceNumber, ConsecutiveFrameTimeout, ConsecutiveFramePending, InFlow,
      Receiving, RxRuntime, RcvOK
<1>10. CASE FinishReceive
  BY <1>0, <1>1, <1>10 DEF FinishReceive, InFlow, Receiving, RxRuntime
<1> QED
  BY <1>3, <1>4, <1>5, <1>6, <1>7, <1>8, <1>9, <1>10, <1>11 DEF RxPart, RcvMultipleFrame

LEMMA TickFills ==
  ASSUME RcvTypeOK, MainNetworkLayer
  PROVE  /\ Filled => Filled'
         /\ rxbuf.length > 0 => rxbuf'.length > 0
<1>1. CASE UNCHANGED <<rxbuf, rcv>> /\ rcvFC'.FS = rcvFC.FS
  BY <1>1 DEF Filled, Receiving
<1>2. CASE Rx
  BY <1>1, <1>2, RxFills DEF Rx, TakeFlowCtrlFrame
<1>3. CASE SendFlowCtrlFrame
  BY <1>1, <1>3 DEF SendFlowCtrlFrame, RcvTypeOK, FCParam
<1> QED
  BY <1>1, <1>2, <1>3
  DEF MainNetworkLayer, Tx, Fc, NoFlowCtrlFrame, TimerCtrl, RcvTimerCtrl, rcvVars

LEMMA GotKept ==
  ASSUME GotInv, UNCHANGED user, Filled => Filled', rxbuf.length > 0 => rxbuf'.length > 0
  PROVE  GotInv'
BY DEF GotInv

LEMMA NodeTickStep == ASSUME ExchangeIInv, NodeTick PROVE ExchangeIInv'
<1>0. SendTypeOK /\ Room /\ RcvTypeOK /\ TesterTypeOK /\ UserTypes /\ GotInv
  BY DEF ExchangeIInv
<1>1. Next /\ MainNetworkLayer
  BY DEF NodeTick, Next
<1>2. SendTypeOK' /\ Room'
  <2>1. CASE Tx
    BY <1>0, <2>1, TxTypes DEF Tx
  <2>2. CASE ~Tx
    BY <1>0, <1>1, <2>2, OthersTypes
  <2> QED
    BY <2>1, <2>2
<1>3. RcvTypeOK'
  <2>1. CASE RxPart /\ Rx
    BY <1>0, <2>1, RxTypes
  <2>2. CASE ~(RxPart /\ Rx)
    BY <1>0, <1>1, <2>2, RcvOthers
  <2> QED
    BY <2>1, <2>2
<1>4. pc' \in {"tx", "fc", "rx", "timer"}
  BY <1>1 DEF MainNetworkLayer, Tx, Fc, SendFlowCtrlFrame, NoFlowCtrlFrame, Rx, TimerCtrl, Step
<1>5. inbox' \in Seq(Frame) /\ Len(inbox') <= CAN_BUS_PDU_NUM
  <2>1. inbox \in Seq(Frame) /\ Len(inbox) <= CAN_BUS_PDU_NUM
    BY <1>0 DEF TesterTypeOK
  <2>2. CASE inbox' = inbox
    BY <2>1, <2>2
  <2>3. CASE out' # <<>> /\ inbox' = Append(inbox, out'[1]) /\ Len(inbox) # CAN_BUS_PDU_NUM
    <3>1. out'[1] \in Frame
      BY <1>2, <2>3 DEF SendTypeOK
    <3>2. Len(inbox) + 1 <= CAN_BUS_PDU_NUM
      BY <2>1, <2>3, TesterAssumption
    <3> QED
      BY <2>1, <2>3, <3>1, <3>2
  <2> QED
    BY <2>2, <2>3 DEF NodeTick, Queued
<1>6. TesterTypeOK' /\ UserTypes'
  BY <1>0, <1>5 DEF NodeTick, TesterTypeOK, UserTypes
<1>7. GotInv'
  BY <1>0, <1>1, TickFills, GotKept DEF NodeTick
<1> QED
  BY <1>2, <1>3, <1>4, <1>6, <1>7 DEF ExchangeIInv

(* The callback.                                                             *)
LEMMA RxNotificationStep == ASSUME ExchangeIInv, RxNotification PROVE ExchangeIInv'
<1>0. SendTypeOK /\ Room /\ RcvTypeOK /\ TesterTypeOK /\ UserTypes /\ GotInv
  BY DEF ExchangeIInv
<1>1. bus # <<>> /\ bus \in Seq(Frame) /\ bus' = Tail(bus)
  BY <1>0 DEF RxNotification, TesterTypeOK
<1>2. Head(bus) \in Frame /\ bus' \in Seq(Frame)
  BY <1>1
<1>3. UNCHANGED <<tp, call, request, response, outcome, inbox, poll>>
  BY DEF RxNotification
<1>4. TesterTypeOK'
  BY <1>0, <1>2, <1>3 DEF TesterTypeOK
<1>5. CASE UNCHANGED nodeVars
  <2>1. /\ UNCHANGED <<txbuf, send, sendFC, sendTimer, out, pc, user>>
        /\ UNCHANGED <<rxbuf, rcv, rcvFC, rcvTimer, pdu, frame_type, mailbox>>
    BY <1>5 DEF nodeVars, vars
  <2> QED
    BY <1>3, <1>4, <2>1
    DEF ExchangeIInv, SendTypeOK, Room, Sending, RcvTypeOK, UserTypes, GotInv, Filled, Receiving
<1>6. CASE Deliver(Head(bus)) /\ UNCHANGED user
  <2>1. /\ UNCHANGED <<rxbuf, rcv, rcvFC, rcvTimer, pdu, frame_type>>
        /\ mailbox' = <<Head(bus)>> /\ out' = <<>> /\ UNCHANGED <<sendVars, pc>>
    BY <1>6 DEF Deliver, RxFrameData
  <2>2. mailbox' \in Seq(Frame) /\ Len(mailbox') <= 1
    <3> DEFINE f == Head(bus)
    <3>1. f \in Frame /\ mailbox' = <<f>>
      BY <1>2, <2>1
    <3> HIDE DEF f
    <3> QED
      BY <3>1
  <2>3. SendTypeOK' /\ Room'
    BY <1>0, <2>1 DEF SendTypeOK, Room, Sending, sendVars
  <2>4. RcvTypeOK'
    BY <1>0, <2>1, <2>2 DEF RcvTypeOK
  <2>5. UserTypes' /\ GotInv'
    BY <1>0, <1>3, <1>6, <2>1 DEF UserTypes, GotInv, Filled, Receiving
  <2> QED
    BY <1>4, <2>1, <2>3, <2>4, <2>5 DEF ExchangeIInv
<1> QED
  BY <1>5, <1>6 DEF RxNotification

-----------------------------------------------------------------------------
(* The server's thread.                                                      *)
LEMMA SegmentsType ==
  ASSUME NEW l \in 0 .. N_DATA_MAX, l > 0, NEW t
  PROVE  SegmentsIn(l, t) \in Nat \ {0}
<1>1. CASE t = "SF"
  BY <1>1 DEF SegmentsIn
<1>2. CASE t # "SF"
  <2>1. l + 0 >= 1 /\ l \in Int
    OBVIOUS
  <2>2. Consecutives(l) = l \div 7
    BY <2>1, Sizes DEF Consecutives
  <2>3. l \div 7 \in Nat
    BY <2>1
  <2> QED
    BY <1>2, <2>2, <2>3 DEF SegmentsIn
<1> QED
  BY <1>1, <1>2

LEMMA UserKeeps ==
  ASSUME ExchangeIInv, UserStep, UNCHANGED testerVars,
         txbuf' \in TxBuffer, UNCHANGED send \/ send' = [send EXCEPT !.N_result = "N_INVALID"],
         rxbuf' \in RxBuffer, UNCHANGED rcv \/ rcv' = [rcv EXCEPT !.N_result = "N_INVALID"]
  PROVE  /\ SendTypeOK' /\ Room' /\ RcvTypeOK' /\ TesterTypeOK'
         /\ pc' \in {"tx", "fc", "rx", "timer"}
         /\ rxbuf'.length = rxbuf.length => (Filled => Filled')
<1>0. /\ SendTypeOK /\ Room /\ RcvTypeOK /\ TesterTypeOK /\ pc \in {"tx", "fc", "rx", "timer"}
      /\ send \in TxRuntime /\ rcv \in RxRuntime
  BY DEF ExchangeIInv, SendTypeOK, RcvTypeOK
<1>1. send' \in TxRuntime /\ UNCHANGED <<send.status, send.length, send.pos>>
  BY <1>0 DEF TxRuntime, SendResults
<1>2. rcv' \in RxRuntime /\ rcv'.status = rcv.status
      /\ (rcv'.N_result = "N_OK" => rcv.N_result = "N_OK")
  BY <1>0 DEF RxRuntime, RcvResults
<1>3. SendTypeOK'
  <2>1. out' \in Seq(Frame)
    BY DEF UserStep
  <2> QED
    BY <1>0, <1>1, <2>1 DEF SendTypeOK, UserStep
<1>4. Room'
  BY <1>0, <1>1 DEF Room, Sending
<1>5. RcvTypeOK'
  BY <1>0, <1>2 DEF RcvTypeOK, UserStep
<1>6. TesterTypeOK'
  BY <1>0 DEF TesterTypeOK, testerVars
<1>7. rxbuf'.length = rxbuf.length => (Filled => Filled')
  BY <1>2 DEF Filled, Receiving, UserStep
<1> QED
  BY <1>0, <1>3, <1>4, <1>5, <1>6, <1>7 DEF UserStep

LEMMA PollStep == ASSUME ExchangeIInv, Poll PROVE ExchangeIInv'
<1>0. SendTypeOK /\ RcvTypeOK /\ UserTypes /\ GotInv
  BY DEF ExchangeIInv
<1>1. PICK id \in RcvIds : BeginReceive(id)
  BY DEF Poll
<1>2. UserStep /\ UNCHANGED <<testerVars, txbuf, send, rxbuf, rcv, poll>> /\ rcv.N_result = "N_OK"
      /\ user' = [user EXCEPT !.at = "rcv_data", !.n = 0]
  BY <1>1 DEF BeginReceive, Poll
<1>3. /\ SendTypeOK' /\ Room' /\ RcvTypeOK' /\ TesterTypeOK'
      /\ pc' \in {"tx", "fc", "rx", "timer"} /\ (Filled => Filled')
  BY <1>0, <1>2, UserKeeps DEF SendTypeOK, RcvTypeOK
<1>4. UserTypes'
  BY <1>0, <1>2 DEF UserTypes, UserStates
<1>5. user'.got = user.got /\ user'.n = 0 /\ user'.at = "rcv_data"
  BY <1>0, <1>2 DEF UserTypes
<1>6. GotInv'
  BY <1>0, <1>2, <1>3, <1>5 DEF GotInv, Filled
<1> QED
  BY <1>3, <1>4, <1>6 DEF ExchangeIInv

LEMMA SendStoresStep ==
  ASSUME ExchangeIInv, SendStores, UNCHANGED <<testerVars, poll>>
  PROVE  ExchangeIInv'
<1>0. SendTypeOK /\ RcvTypeOK /\ UserTypes /\ GotInv /\ txbuf \in TxBuffer
      /\ user.m \in TxBuffer
  BY DEF ExchangeIInv, SendTypeOK, UserTypes
<1>1. UserStep /\ UNCHANGED <<rxbuf, rcv>>
  BY DEF SendStores, SendData, SendLength, SendResult
<1>2. UNCHANGED send \/ send' = [send EXCEPT !.N_result = "N_INVALID"]
  BY DEF SendStores, SendData, SendLength, SendResult
<1>3. txbuf' \in TxBuffer
  <2>1. txbuf.length \in 0 .. N_DATA_MAX /\ user.m.length \in 0 .. N_DATA_MAX
    BY <1>0 DEF TxBuffer
  <2> QED
    BY <1>0, <2>1 DEF SendStores, SendData, SendLength, SendResult, TxBuffer
<1>4. /\ SendTypeOK' /\ Room' /\ RcvTypeOK' /\ TesterTypeOK'
      /\ pc' \in {"tx", "fc", "rx", "timer"} /\ (Filled => Filled')
  BY <1>0, <1>1, <1>2, <1>3, UserKeeps DEF RcvTypeOK
<1>5. \E to \in {"send_length", "send_result", "none"} : user' = [user EXCEPT !.at = to]
  BY DEF SendStores, SendData, SendLength, SendResult, Go
<1>6. UserTypes'
  BY <1>0, <1>5 DEF UserTypes, UserStates
<1>7. user'.got = user.got /\ user'.at \in {"send_length", "send_result", "none"}
  BY <1>0, <1>5 DEF UserTypes
<1>8. GotInv'
  BY <1>0, <1>4, <1>7 DEF GotInv
<1> QED
  BY <1>4, <1>6, <1>8 DEF ExchangeIInv

(* The first segment is copied before the end of the copy is noticed.        *)
LEMMA ReceiveLoadsStep ==
  ASSUME ExchangeIInv, ReceiveLoads, UNCHANGED <<testerVars, poll>>
  PROVE  ExchangeIInv'
<1>0. SendTypeOK /\ RcvTypeOK /\ UserTypes /\ GotInv /\ txbuf \in TxBuffer
      /\ rxbuf \in RxBuffer
  BY DEF ExchangeIInv, SendTypeOK, RcvTypeOK
<1> DEFINE Kept == UNCHANGED rxbuf => (Filled => Filled')
<1>1. /\ SendTypeOK' /\ Room' /\ RcvTypeOK' /\ TesterTypeOK'
      /\ pc' \in {"tx", "fc", "rx", "timer"} /\ Kept
  <2>1. UserStep /\ UNCHANGED <<txbuf, send, rcv>>
    BY DEF ReceiveLoads, ReceiveData, ReceiveLength, ReceiveClear
  <2>2. rxbuf' \in RxBuffer
    BY <1>0, Zeros DEF ReceiveLoads, ReceiveData, ReceiveLength, ReceiveClear, RxBuffer
  <2> QED
    BY <1>0, <2>1, <2>2, UserKeeps
<1> HIDE DEF Kept
<1>2. ASSUME UserTypes', GotInv' PROVE ExchangeIInv'
  BY <1>1, <1>2 DEF ExchangeIInv
<1>3. CASE ReceiveData
  <2>1. user.at = "rcv_data" /\ user.n \in Nat /\ user.got.segs \in Seq(SegmentType)
    BY <1>0, <1>3 DEF ReceiveData, UserTypes
  <2>2. user.got.segs = <<>> =>
          /\ user.n = 0
          /\ user.n < SegmentsIn(rxbuf.length, rxbuf.segs[1].type)
    <3> SUFFICES ASSUME user.got.segs = <<>>
                 PROVE  user.n = 0 /\ user.n < SegmentsIn(rxbuf.length, rxbuf.segs[1].type)
      OBVIOUS
    <3>1. user.n = 0 /\ rxbuf.length > 0 /\ rxbuf.length \in 0 .. N_DATA_MAX
      BY <1>0, <2>1 DEF GotInv, RxBuffer
    <3>2. SegmentsIn(rxbuf.length, rxbuf.segs[1].type) \in Nat \ {0}
      BY <3>1, SegmentsType
    <3> HIDE DEF SegmentsIn
    <3> QED
      BY <3>1, <3>2
  <2>3. CASE user.n < SegmentsIn(rxbuf.length, rxbuf.segs[1].type)
    <3> DEFINE s == IF user.n < Len(rxbuf.segs) THEN rxbuf.segs[user.n + 1] ELSE LeftOver
               segs == IF user.n = 0 THEN <<s>> ELSE Append(user.got.segs, s)
    <3>1. s \in SegmentType
      <4>1. CASE user.n < Len(rxbuf.segs)
        <5>1. rxbuf.segs \in Seq(SegmentType)
          BY <1>0 DEF RxBuffer, Segments, SegmentType
        <5>2. user.n + 1 \in 1 .. Len(rxbuf.segs)
          BY <2>1, <4>1, <5>1
        <5> QED
          BY <4>1, <5>1, <5>2
      <4>2. CASE ~(user.n < Len(rxbuf.segs))
        BY <4>2, Defaults DEF LeftOver, SegmentType, FrameTypes
      <4> QED
        BY <4>1, <4>2
    <3>2. user' = [user EXCEPT !.n = user.n + 1, !.got.segs = segs]
      BY <1>3, <2>3 DEF ReceiveData
    <3> HIDE DEF s
    <3>3. segs \in Seq(SegmentType) /\ segs # <<>> /\ user.n + 1 \in Nat
      <4>1. <<s>> \in Seq(SegmentType) /\ <<s>> # <<>>
        BY <3>1
      <4>2. Append(user.got.segs, s) \in Seq(SegmentType) /\ Append(user.got.segs, s) # <<>>
        BY <2>1, <3>1
      <4> QED
        BY <2>1, <4>1, <4>2
    <3> HIDE DEF segs
    <3>4. UserTypes'
      BY <1>0, <3>2, <3>3 DEF UserTypes
    <3>5. user'.got.segs # <<>>
      BY <1>0, <3>2, <3>3 DEF UserTypes
    <3> QED
      BY <1>2, <3>4, <3>5 DEF GotInv
  <2>4. CASE ~(user.n < SegmentsIn(rxbuf.length, rxbuf.segs[1].type))
    <3>1. user' = [user EXCEPT !.at = "rcv_length"]
      BY <1>3, <2>4 DEF ReceiveData
    <3>2. UserTypes'
      BY <1>0, <3>1 DEF UserTypes, UserStates
    <3>3. user'.got.segs # <<>>
      BY <1>0, <2>2, <2>4, <3>1 DEF UserTypes
    <3> QED
      BY <1>2, <3>2, <3>3 DEF GotInv
  <2> QED
    BY <2>3, <2>4
<1>4. CASE ReceiveLength
  <2>1. rxbuf.length \in 0 .. N_DATA_MAX /\ user.at = "rcv_length"
        /\ user' = [user EXCEPT !.at = "rcv_clear", !.got.length = rxbuf.length]
    BY <1>0, <1>4 DEF RxBuffer, ReceiveLength
  <2>2. UserTypes'
    BY <1>0, <2>1 DEF UserTypes, UserStates
  <2>3. user'.got.segs = user.got.segs
    BY <1>0, <2>1 DEF UserTypes
  <2> QED
    BY <1>0, <1>2, <2>1, <2>2, <2>3 DEF GotInv
<1>5. CASE ReceiveClear
  <2>1. user.at = "rcv_clear" /\ user' = [user EXCEPT !.at = "rcv_result"]
    BY <1>5 DEF ReceiveClear, Go
  <2>2. UserTypes'
    BY <1>0, <2>1 DEF UserTypes, UserStates
  <2>3. user'.got.segs = user.got.segs
    BY <1>0, <2>1 DEF UserTypes
  <2> QED
    BY <1>0, <1>2, <2>1, <2>2, <2>3 DEF GotInv
<1> QED
  BY <1>3, <1>4, <1>5 DEF ReceiveLoads

(* What the server takes is a request: the place of the first segment names  *)
(* its message.                                                              *)
LEMMA TakeStep == ASSUME ExchangeIInv, TakeRequest \/ TakeNothing PROVE ExchangeIInv'
<1>0. SendTypeOK /\ RcvTypeOK /\ UserTypes /\ GotInv
  BY DEF ExchangeIInv
<1>1. ReceiveResult /\ UNCHANGED testerVars
  BY DEF TakeRequest, TakeNothing
<1>2. /\ user.at = "rcv_result" /\ user' = [user EXCEPT !.at = "none"]
      /\ UserStep /\ UNCHANGED <<txbuf, send, rxbuf>>
      /\ rcv' = [rcv EXCEPT !.N_result = "N_INVALID"]
  BY <1>1 DEF ReceiveResult, Go
<1>3. /\ SendTypeOK' /\ Room' /\ RcvTypeOK' /\ TesterTypeOK'
      /\ pc' \in {"tx", "fc", "rx", "timer"}
  BY <1>0, <1>1, <1>2, UserKeeps DEF SendTypeOK, RcvTypeOK
<1>4. user.got.segs # <<>> /\ user.got.segs \in Seq(SegmentType)
  BY <1>0, <1>2 DEF GotInv, UserTypes
<1>5. poll' = None \/ \E m \in Msgs : poll' = <<m>>
  <2>1. user.got.segs[1] \in SegmentType
    BY <1>4
  <2>2. \A d \in Data : d.msg \in Msgs
    BY DEF Data
  <2>3. \A g \in SegmentType : g.data \in Data
    BY DEF SegmentType
  <2>4. user.got.segs[1].data.msg \in Msgs
    BY <2>1, <2>2, <2>3
  <2> QED
    BY <1>0, <2>4 DEF TakeRequest, TakeNothing, UserTypes
<1>6. UserTypes' /\ user'.got = user.got
  BY <1>0, <1>2, <1>5 DEF UserTypes, UserStates
<1>7. GotInv'
  BY <1>4, <1>6 DEF GotInv
<1> QED
  BY <1>3, <1>6, <1>7 DEF ExchangeIInv

LEMMA AnswerStep == ASSUME ExchangeIInv, AnswerRequest PROVE ExchangeIInv'
<1>0. /\ SendTypeOK /\ Room /\ RcvTypeOK /\ TesterTypeOK /\ UserTypes /\ GotInv
      /\ pc \in {"tx", "fc", "rx", "timer"}
  BY DEF ExchangeIInv
<1>1. poll # None /\ poll' = None /\ UNCHANGED testerVars
  BY DEF AnswerRequest
<1>2. PICK m \in Msgs : poll = <<m>>
  BY <1>0, <1>1 DEF UserTypes
<1>3. Answers[poll[1]] \subseteq Messages
  BY <1>2, ScriptAssumption, SMTT(30)
<1>4. CASE UNCHANGED nodeVars
  <2>1. /\ UNCHANGED <<txbuf, send, sendFC, sendTimer, out, pc, user>>
        /\ UNCHANGED <<rxbuf, rcv, rcvFC, rcvTimer, pdu, frame_type, mailbox>>
        /\ UNCHANGED <<tp, call, request, response, outcome, inbox, bus>>
    BY <1>1, <1>4 DEF nodeVars, vars, testerVars
  <2> QED
    BY <1>0, <1>1, <2>1
    DEF ExchangeIInv, SendTypeOK, Room, Sending, RcvTypeOK, TesterTypeOK, UserTypes,
        GotInv, Filled, Receiving
<1>5. CASE \E a \in Answers[poll[1]] : BeginSend(a)
  <2>1. PICK a \in Messages : BeginSend(a)
    BY <1>3, <1>5
  <2>2. /\ UserStep /\ UNCHANGED <<txbuf, send, rxbuf, rcv>>
        /\ user' = [user EXCEPT !.at = "send_data", !.m = a]
    BY <2>1 DEF BeginSend
  <2>3. /\ SendTypeOK' /\ Room' /\ RcvTypeOK' /\ TesterTypeOK'
        /\ pc' \in {"tx", "fc", "rx", "timer"} /\ (Filled => Filled')
    BY <1>0, <1>1, <2>2, UserKeeps DEF SendTypeOK, RcvTypeOK
  <2>4. a \in TxBuffer
    BY MessageType
  <2>5. UserTypes'
    BY <1>0, <1>1, <2>2, <2>4 DEF UserTypes, UserStates
  <2>6. user'.got = user.got /\ user'.at = "send_data"
    BY <1>0, <2>2 DEF UserTypes
  <2>7. GotInv'
    BY <1>0, <2>3, <2>6 DEF GotInv
  <2> QED
    BY <2>3, <2>5, <2>7 DEF ExchangeIInv
<1> QED
  BY <1>4, <1>5 DEF AnswerRequest

-----------------------------------------------------------------------------
(* The tester.                                                               *)
Outcomes == [ercd : BOOLEAN, res : Seq(SegmentType)]
Numbers == 0 .. SN_MOD - 1
Offsets == 0 .. 4095
Bytes == 0 .. 255
TpType == [state : TpStates, SN : Numbers, t_size : Offsets, BS : Bytes]

LEMMA TesterTypes ==
  TesterTypeOK <=>
    /\ tp \in TpType /\ call \in Calls /\ request \in Requests
    /\ response \in Seq(SegmentType) /\ outcome \in Outcomes
    /\ inbox \in Seq(Frame) /\ Len(inbox) <= CAN_BUS_PDU_NUM
    /\ bus \in Seq(Frame)
BY DEF TesterTypeOK, TpType, Numbers, Offsets, Bytes, Outcomes, SegmentType

LEMMA ReturnType ==
  ASSUME NEW ercd \in BOOLEAN, NEW res \in Seq(SegmentType), Return(ercd, res)
  PROVE  outcome' \in Outcomes /\ call' \in Calls
BY DEF Return, Outcomes, Calls

LEMMA TypesKept ==
  ASSUME tp' \in TpType, call' \in Calls, request' \in Requests,
         response' \in Seq(SegmentType), outcome' \in Outcomes,
         inbox' \in Seq(Frame), Len(inbox') <= CAN_BUS_PDU_NUM, bus' \in Seq(Frame)
  PROVE  TesterTypeOK'
BY DEF TesterTypeOK, TpType, Numbers, Offsets, Bytes, Outcomes, SegmentType

LEMMA NoAnswer == None \in Seq(SegmentType)
BY DEF None

LEMMA GiveUpType == ASSUME GiveUp PROVE outcome' \in Outcomes /\ call' \in Calls
<1> DEFINE b == call = "schedule_tx" /\ request.msg \in Quiet
<1>1. b \in BOOLEAN
  OBVIOUS
<1>2. Return(b, None)
  BY DEF GiveUp
<1> HIDE DEF b
<1> QED
  BY <1>1, <1>2, NoAnswer, ReturnType

LEMMA ConcludeType ==
  ASSUME NEW res \in Seq(SegmentType), Conclude(res)
  PROVE  outcome' \in Outcomes /\ call' \in Calls
<1> DEFINE b == IsPositive(res)
<1>1. b \in BOOLEAN
  BY DEF IsPositive
<1>2. Return(b, res)
  BY DEF Conclude
<1> HIDE DEF b
<1> QED
  BY <1>1, <1>2, ReturnType

LEMMA AwaitType ==
  ASSUME NEW req, AwaitAnswer(req), outcome \in Outcomes
  PROVE  /\ response' \in Seq(SegmentType) /\ outcome' \in Outcomes /\ call' \in Calls
<1>1. response' \in Seq(SegmentType)
  BY DEF AwaitAnswer
<1>2. CASE req.msg \in Quiet
  BY <1>1, <1>2, NoAnswer, ReturnType DEF AwaitAnswer
<1>3. CASE req.msg \notin Quiet
  BY <1>1, <1>3 DEF AwaitAnswer, Calls
<1> QED
  BY <1>2, <1>3

LEMMA TakenType ==
  ASSUME inbox \in Seq(Frame), Len(inbox) <= CAN_BUS_PDU_NUM, inbox # <<>>, Taken
  PROVE  /\ Head(inbox) \in Frame
         /\ inbox' \in Seq(Frame) /\ Len(inbox') <= CAN_BUS_PDU_NUM
<1>1. Head(inbox) \in Frame /\ Tail(inbox) \in Seq(Frame) /\ Len(Tail(inbox)) = Len(inbox) - 1
  OBVIOUS
<1>2. Len(inbox) - 1 <= CAN_BUS_PDU_NUM
  BY TesterAssumption
<1> QED
  BY <1>1, <1>2 DEF Taken

LEMMA LengthType == \A n : n \in 1 .. 4095 => n \in Nat /\ 1 <= n /\ n <= 4095
OBVIOUS

(* dcm.transmit begins.                                                      *)
LEMMA TransmitTypes ==
  ASSUME TesterTypeOK, NEW m \in Requests, Transmit(m)
  PROVE  TesterTypeOK'
<1>0. /\ tp \in TpType /\ outcome \in Outcomes /\ response \in Seq(SegmentType)
      /\ inbox \in Seq(Frame) /\ Len(inbox) <= CAN_BUS_PDU_NUM /\ bus \in Seq(Frame)
  BY TesterTypes
<1>1. m.length \in 1 .. 4095 /\ m.msg \in Msgs
  BY DEF Requests
<1> DEFINE l == m.length
<1>2. l \in Nat /\ 1 <= l /\ l <= 4095
  BY <1>1, LengthType
<1>6. l = m.length
  OBVIOUS
<1> HIDE DEF l
<1> DEFINE d == [msg |-> m.msg, pos |-> 0]
<1>3. d \in Data
  BY <1>1 DEF Data
<1>4. CASE TransmitSingle(m)
  <2> DEFINE f == [type |-> "SF", lo |-> l, b1 |-> 0, b2 |-> 0, id |-> TxId, data |-> d]
  <2>1. l \in 0 .. 15
    <3>1. m.length < 7
      BY <1>4 DEF TransmitSingle, CF_DATA, CAN_FRAME_SIZE
    <3>2. l \in Nat /\ l < 7
      BY <1>2, <1>6, <3>1
    <3> QED
      BY <3>2
  <2>2. bus' = Append(bus, f)
    BY <1>6, <1>4 DEF TransmitSingle, Write
  <2> HIDE DEF d
  <2>3. f \in Frame
    BY <1>3, <2>1, TesterAssumption DEF Frame, FrameTypes
  <2> HIDE DEF f
  <2>4. bus' \in Seq(Frame)
    BY <1>0, <2>2, <2>3
  <2>5. response' \in Seq(SegmentType) /\ outcome' \in Outcomes /\ call' \in Calls
    BY <1>0, <1>4, AwaitType DEF TransmitSingle
  <2>6. UNCHANGED <<tp, inbox>> /\ request' = m
    BY <1>4 DEF TransmitSingle
  <2> QED
    BY <1>0, <2>4, <2>5, <2>6, TypesKept
<1>5. CASE TransmitFirst(m)
  <2> DEFINE hi == l \div 256
             low == l % 256
             f == [type |-> "FF", lo |-> hi, b1 |-> low, b2 |-> 0, id |-> TxId, data |-> d]
  <2>1. hi \in 0 .. 15
    BY <1>2
  <2>7. low \in 0 .. 255
    BY <1>2
  <2>2. bus' = Append(bus, f)
    BY <1>6, <1>5 DEF TransmitFirst, Write
  <2> HIDE DEF d, hi, low
  <2>3. f \in Frame
    BY <1>3, <2>1, <2>7, TesterAssumption DEF Frame, FrameTypes
  <2> HIDE DEF f
  <2>4. bus' \in Seq(Frame)
    BY <1>0, <2>2, <2>3
  <2>5. tp' \in TpType
    <3>1. tp' = [tp EXCEPT !.SN = 0, !.t_size = FF_DATA, !.state = "WAIT_FC"]
      BY <1>5 DEF TransmitFirst
    <3>2. 0 \in Numbers
      BY Zeros DEF Numbers
    <3>3. FF_DATA \in Offsets /\ "WAIT_FC" \in TpStates
      BY Sizes DEF Offsets, TpStates
    <3> QED
      BY <1>0, <3>1, <3>2, <3>3 DEF TpType
  <2>6. UNCHANGED <<response, outcome, inbox>> /\ request' = m /\ call' \in Calls
    BY <1>5 DEF TransmitFirst, Calls
  <2> QED
    BY <1>0, <2>4, <2>5, <2>6, TypesKept
<1> QED
  BY <1>4, <1>5 DEF Transmit

LEMMA NextNumber == ASSUME NEW sn \in Numbers PROVE NextSN(sn) \in Numbers /\ NextSN(sn) \in 0 .. 15
<1>1. NextSN(sn) \in 0 .. SN_MOD - 1
  BY NextSNType DEF Numbers
<1> QED
  BY <1>1, SequenceAssumption DEF Numbers

LEMMA NextBSType == ASSUME tp \in TpType PROVE NextBS \in Bytes
<1>1. tp.BS \in 0 .. 255
  BY DEF TpType, Bytes
<1>2. \A b : b \in 0 .. 255 => (IF b > 0 THEN b - 1 ELSE 0) \in 0 .. 255
  OBVIOUS
<1> QED
  BY <1>1, <1>2 DEF NextBS, Bytes

LEMMA OffsetType == ASSUME NEW n \in Offsets, NEW l, l \in 1 .. 4095, ~(l - n <= 7)
                    PROVE  n + 7 \in Offsets
<1>1. n \in Nat
  BY DEF Offsets
<1>2. l \in Nat /\ l <= 4095
  BY LengthType
<1>3. n + 7 <= 4095
  BY <1>1, <1>2
<1> QED
  BY <1>1, <1>3 DEF Offsets

(* The steps of the loops that take no frame.                                *)
LEMMA SendCFTypes == ASSUME TesterTypeOK, SendCF PROVE TesterTypeOK'
<1>0. /\ tp \in TpType /\ outcome \in Outcomes /\ response \in Seq(SegmentType)
      /\ call \in Calls /\ request \in Requests
      /\ inbox \in Seq(Frame) /\ Len(inbox) <= CAN_BUS_PDU_NUM /\ bus \in Seq(Frame)
  BY TesterTypes
<1> DEFINE sn == NextSN(tp.SN)
           d == [msg |-> request.msg, pos |-> tp.t_size]
           f == [type |-> "CF", lo |-> sn, b1 |-> 0, b2 |-> 0, id |-> TxId, data |-> d]
<1>1. tp.SN \in Numbers /\ tp.t_size \in Offsets
  BY <1>0 DEF TpType
<1>2. sn \in Numbers /\ sn \in 0 .. 15
  BY <1>1, NextNumber
<1>3. request.length \in 1 .. 4095 /\ request.msg \in Msgs
  BY <1>0 DEF Requests
<1>4. d \in Data
  BY <1>1, <1>3 DEF Data, Offsets
<1>5. /\ bus' = Append(bus, f) /\ UNCHANGED <<request, inbox>>
      /\ \/ /\ tp' = [tp EXCEPT !.SN = sn, !.t_size = request.length, !.state = "IDLE"]
            /\ AwaitAnswer(request)
         \/ /\ ~(request.length - tp.t_size <= CF_DATA)
            /\ tp' = [tp EXCEPT !.SN = sn, !.t_size = tp.t_size + CF_DATA, !.BS = NextBS,
                                !.state = NextBlockState("SEND_CF", "WAIT_FC")]
            /\ UNCHANGED <<call, response, outcome>>
  BY DEF SendCF, Write
<1> HIDE DEF d, sn
<1>6. f \in Frame
  BY <1>2, <1>4, TesterAssumption DEF Frame, FrameTypes
<1> HIDE DEF f
<1>7. bus' \in Seq(Frame)
  BY <1>0, <1>5, <1>6
<1>8. CASE /\ tp' = [tp EXCEPT !.SN = sn, !.t_size = request.length, !.state = "IDLE"]
           /\ AwaitAnswer(request)
  <2>1. request.length \in Offsets /\ "IDLE" \in TpStates
    <3>1. \A n : n \in 1 .. 4095 => n \in 0 .. 4095
      OBVIOUS
    <3> QED
      BY <1>3, <3>1 DEF Offsets, TpStates
  <2>2. tp' \in TpType
    BY <1>0, <1>2, <1>8, <2>1 DEF TpType
  <2>3. response' \in Seq(SegmentType) /\ outcome' \in Outcomes /\ call' \in Calls
    BY <1>0, <1>8, AwaitType
  <2> QED
    BY <1>0, <1>5, <1>7, <2>2, <2>3, TypesKept
<1>9. CASE /\ ~(request.length - tp.t_size <= CF_DATA)
           /\ tp' = [tp EXCEPT !.SN = sn, !.t_size = tp.t_size + CF_DATA, !.BS = NextBS,
                               !.state = NextBlockState("SEND_CF", "WAIT_FC")]
           /\ UNCHANGED <<call, response, outcome>>
  <2>1. tp.t_size + CF_DATA \in Offsets
    BY <1>1, <1>3, <1>9, OffsetType, Sizes
  <2>2. NextBS \in Bytes /\ NextBlockState("SEND_CF", "WAIT_FC") \in TpStates
    BY <1>0, NextBSType DEF NextBlockState, TpStates
  <2>3. tp' \in TpType
    BY <1>0, <1>2, <1>9, <2>1, <2>2 DEF TpType
  <2> QED
    BY <1>0, <1>5, <1>7, <1>9, <2>3, TypesKept
<1> QED
  BY <1>5, <1>8, <1>9

LEMMA SendFCTypes == ASSUME TesterTypeOK, SendFC PROVE TesterTypeOK'
<1>0. /\ tp \in TpType /\ outcome \in Outcomes /\ response \in Seq(SegmentType)
      /\ call \in Calls /\ request \in Requests
      /\ inbox \in Seq(Frame) /\ Len(inbox) <= CAN_BUS_PDU_NUM /\ bus \in Seq(Frame)
  BY TesterTypes
<1> DEFINE f == [type |-> "FC", lo |-> CTS, b1 |-> cBS, b2 |-> cSTmin, id |-> TxId,
                 data |-> NoPayload]
<1>1. NoPayload \in Data
  BY <1>0 DEF NoPayload, Data, Requests
<1>2. cBS \in 0 .. 255 /\ cBS \in Bytes /\ cSTmin \in 0 .. 255
  BY TesterAssumption DEF Bytes
<1>3. f \in Frame
  BY <1>1, <1>2, TesterAssumption DEF Frame, FrameTypes, CTS
<1>4. /\ bus' = Append(bus, f) /\ UNCHANGED <<call, request, response, outcome, inbox>>
      /\ tp' = [tp EXCEPT !.BS = cBS, !.state = "WAIT_CF"]
  BY DEF SendFC, Write
<1> HIDE DEF f
<1>5. bus' \in Seq(Frame)
  BY <1>0, <1>3, <1>4
<1>6. tp' \in TpType
  BY <1>0, <1>2, <1>4 DEF TpType, TpStates
<1> QED
  BY <1>0, <1>4, <1>5, <1>6, TypesKept

LEMMA GiveUpTypes ==
  ASSUME TesterTypeOK, ReceiveUnknownState \/ WaitTimeout
  PROVE  TesterTypeOK'
<1>1. GiveUp /\ UNCHANGED <<tp, request, response, inbox, bus>>
  BY DEF ReceiveUnknownState, WaitTimeout
<1> QED
  BY <1>1, GiveUpType, TesterTypes, TypesKept

LEMMA FirstLength == ASSUME NEW f \in Frame PROVE FF_DL(f) \in Offsets
<1>1. f.lo \in 0 .. 15 /\ f.b1 \in 0 .. 255
  BY DEF Frame
<1>2. \A a, b : a \in 0 .. 15 /\ b \in 0 .. 255 => a * 256 + b \in 0 .. 4095
  OBVIOUS
<1> QED
  BY <1>1, <1>2 DEF FF_DL, Offsets

(* A frame that the tester takes from the library.                           *)
LEMMA TakeFrameTypes ==
  ASSUME TesterTypeOK, inbox # <<>>, NEW f, f = Head(inbox), TakeFrame(f)
  PROVE  TesterTypeOK'
<1>0. /\ tp \in TpType /\ outcome \in Outcomes /\ response \in Seq(SegmentType)
      /\ call \in Calls /\ request \in Requests
      /\ inbox \in Seq(Frame) /\ Len(inbox) <= CAN_BUS_PDU_NUM /\ bus \in Seq(Frame)
  BY TesterTypes
<1>1. Taken /\ UNCHANGED <<request, bus>>
  BY DEF TakeFrame, HandleFC, WaitSingleFrame, WaitFirstFrame, WaitOtherFrame, WaitCF,
         WaitCFError
<1>2. f \in Frame /\ inbox' \in Seq(Frame) /\ Len(inbox') <= CAN_BUS_PDU_NUM
  BY <1>0, <1>1, TakenType
<1>3. ASSUME tp' \in TpType, response' \in Seq(SegmentType), outcome' \in Outcomes, call' \in Calls
      PROVE  TesterTypeOK'
  BY <1>0, <1>1, <1>2, <1>3, TypesKept
<1>4. Part(f) \in SegmentType
  BY <1>2 DEF Part, SegmentType, Frame
<1>5. NextSN(tp.SN) \in Numbers
  BY <1>0, NextNumber DEF TpType
<1>6. CASE HandleFC(f)
  <2>1. response' = response
    BY <1>6 DEF HandleFC
  <2>2. CASE f.type = "FC" /\ f.lo = CTS
    <3>1. tp' = [tp EXCEPT !.BS = f.b1, !.state = "SEND_CF"] /\ UNCHANGED <<call, outcome>>
      BY <1>6, <2>2 DEF HandleFC
    <3>2. f.b1 \in Bytes
      BY <1>2 DEF Frame, Bytes
    <3>3. tp' \in TpType
      BY <1>0, <3>1, <3>2 DEF TpType, TpStates
    <3> QED
      BY <1>0, <1>3, <2>1, <3>1, <3>3
  <2>3. CASE ~(f.type = "FC" /\ f.lo = CTS)
    <3>1. tp' = tp /\ (UNCHANGED <<call, outcome>> \/ GiveUp)
      BY <1>6, <2>3 DEF HandleFC
    <3>2. call' \in Calls /\ outcome' \in Outcomes
      BY <1>0, <3>1, GiveUpType
    <3> QED
      BY <1>0, <1>3, <2>1, <3>1, <3>2
  <2> QED
    BY <2>2, <2>3
<1>7. CASE WaitSingleFrame(f)
  <2>1. response' = <<Part(f)>> /\ Conclude(response') /\ tp' = tp
    BY <1>7 DEF WaitSingleFrame
  <2>2. response' \in Seq(SegmentType)
    BY <1>4, <2>1
  <2>3. outcome' \in Outcomes /\ call' \in Calls
    BY <2>1, <2>2, ConcludeType
  <2> QED
    BY <1>0, <1>3, <2>1, <2>2, <2>3
<1>8. CASE WaitFirstFrame(f)
  <2>1. /\ response' = <<Part(f)>> /\ call' \in Calls /\ outcome' = outcome
        /\ tp' = [tp EXCEPT !.t_size = FF_DL(f), !.state = "SEND_FC", !.SN = 0]
    BY <1>8 DEF WaitFirstFrame, Calls
  <2>2. response' \in Seq(SegmentType)
    BY <1>4, <2>1
  <2>3. FF_DL(f) \in Offsets /\ 0 \in Numbers
    BY <1>2, FirstLength, Zeros DEF Numbers
  <2>4. tp' \in TpType
    BY <1>0, <2>1, <2>3 DEF TpType, TpStates
  <2> QED
    BY <1>0, <1>3, <2>1, <2>2, <2>4
<1>9. CASE WaitOtherFrame(f)
  <2>1. UNCHANGED <<tp, response, outcome>> /\ call' \in Calls
    BY <1>9 DEF WaitOtherFrame, Calls
  <2> QED
    BY <1>0, <1>3, <2>1
<1>10. CASE WaitCF(f)
  <2>1. /\ response' = Append(response, Part(f))
        /\ \/ tp' = [tp EXCEPT !.SN = NextSN(tp.SN)] /\ Conclude(response')
           \/ /\ tp' = [tp EXCEPT !.SN = NextSN(tp.SN), !.BS = NextBS,
                                   !.state = NextBlockState("WAIT_CF", "SEND_FC")]
              /\ UNCHANGED <<call, outcome>>
    BY <1>10 DEF WaitCF
  <2>2. response' \in Seq(SegmentType)
    BY <1>0, <1>4, <2>1
  <2>3. NextBS \in Bytes /\ NextBlockState("WAIT_CF", "SEND_FC") \in TpStates
    BY <1>0, NextBSType DEF NextBlockState, TpStates
  <2>4. tp' \in TpType
    BY <1>0, <1>5, <2>1, <2>3 DEF TpType
  <2>5. outcome' \in Outcomes /\ call' \in Calls
    BY <1>0, <2>1, <2>2, ConcludeType
  <2> QED
    BY <1>3, <2>2, <2>4, <2>5
<1>11. CASE WaitCFError(f)
  <2>1. response' = response /\ GiveUp /\ (tp' = tp \/ tp' = [tp EXCEPT !.SN = NextSN(tp.SN)])
    BY <1>11 DEF WaitCFError
  <2>2. tp' \in TpType
    BY <1>0, <1>5, <2>1 DEF TpType
  <2> QED
    BY <1>0, <1>3, <2>1, <2>2, GiveUpType
<1> QED
  BY <1>6, <1>7, <1>8, <1>9, <1>10, <1>11 DEF TakeFrame

(* Nothing that the tester does touches the node.                            *)
LEMMA TesterStep ==
  ASSUME ExchangeIInv, Ask \/ TesterProceeds \/ TesterTimesOut
  PROVE  ExchangeIInv'
<1>0. TesterTypeOK
  BY DEF ExchangeIInv
<1>1. TesterTypeOK'
  <2>1. CASE Ask
    BY <1>0, <2>1, TransmitTypes, ScriptAssumption DEF Ask
  <2>2. CASE TesterTimesOut
    BY <1>0, <2>2, GiveUpTypes DEF TesterTimesOut
  <2>3. CASE TesterProceeds
    BY <1>0, <2>3, SendCFTypes, SendFCTypes, GiveUpTypes, TakeFrameTypes
    DEF TesterProceeds, Proceed
  <2> QED
    BY <2>1, <2>2, <2>3
<1>2. /\ UNCHANGED <<txbuf, send, sendFC, sendTimer, out, pc, user, poll>>
      /\ UNCHANGED <<rxbuf, rcv, rcvFC, rcvTimer, pdu, frame_type, mailbox>>
  BY DEF Ask, TesterProceeds, TesterTimesOut, nodeVars, vars
<1> QED
  BY <1>1, <1>2
  DEF ExchangeIInv, SendTypeOK, Room, Sending, RcvTypeOK, UserTypes, GotInv, Filled, Receiving

-----------------------------------------------------------------------------
LEMMA ExchangeStep == ExchangeIInv /\ [ExchangeNext]_exchange => ExchangeIInv'
<1> SUFFICES ASSUME ExchangeIInv, [ExchangeNext]_exchange
             PROVE  ExchangeIInv'
  OBVIOUS
<1>1. CASE NodeTick
  BY <1>1, NodeTickStep
<1>2. CASE RxNotification
  BY <1>2, RxNotificationStep
<1>3. CASE Poll
  BY <1>3, PollStep
<1>4. CASE InCall
  BY <1>4, SendStoresStep, ReceiveLoadsStep DEF InCall
<1>5. CASE TakeRequest \/ TakeNothing
  BY <1>5, TakeStep
<1>6. CASE AnswerRequest
  BY <1>6, AnswerStep
<1>7. CASE Ask \/ TesterProceeds \/ TesterTimesOut
  BY <1>7, TesterStep
<1>8. CASE UNCHANGED exchange
  <2>1. /\ UNCHANGED <<txbuf, send, sendFC, sendTimer, out, pc, user, poll>>
        /\ UNCHANGED <<rxbuf, rcv, rcvFC, rcvTimer, pdu, frame_type, mailbox>>
        /\ UNCHANGED <<tp, call, request, response, outcome, inbox, bus>>
    BY <1>8 DEF exchange, nodeVars, vars, testerVars
  <2> QED
    BY <2>1
    DEF ExchangeIInv, SendTypeOK, Room, Sending, RcvTypeOK, TesterTypeOK, UserTypes,
        GotInv, Filled, Receiving
<1> QED
  BY <1>1, <1>2, <1>3, <1>4, <1>5, <1>6, <1>7, <1>8 DEF ExchangeNext

(* The tester's state stays within its types, whatever the node and its user *)
(* send, lose or delay: no sequence number leaves its half-byte, no count of *)
(* a block wraps below zero, no position is beyond what twelve bits can name *)
(* and the library never keeps more than CAN_BUS_PDU_NUM frames              *)
(* (cantp.py:68-350).                                                        *)
THEOREM TesterTypeCorrect == ExchangeSpec => []TesterTypeOK
<1>1. ExchangeIInv => TesterTypeOK
  BY DEF ExchangeIInv
<1> QED
  BY ExchangeInitially, ExchangeStep, <1>1, PTL DEF ExchangeSpec

(* So does the node's, although its user does not wait for one answer to be  *)
(* sent before it gives the next, and stores it between the parts of a tick: *)
(* p_data never leads beyond Tx_buf.buf, the bytes to send never count below *)
(* zero and those missing of a request never do                              *)
(* (can_tp.c:269-292, 397-542, 594-672).                                     *)
THEOREM NodeTypeCorrect == ExchangeSpec => []TypeOK
<1>1. ExchangeIInv => TypeOK
  BY DEF ExchangeIInv, TypeOK
<1> QED
  BY ExchangeInitially, ExchangeStep, <1>1, PTL DEF ExchangeSpec

-----------------------------------------------------------------------------
(* Sequences of frames as sets.                                              *)
LEMMA RangeIn == ASSUME NEW S, NEW s \in Seq(S) PROVE Range(s) \subseteq S
BY DEF Range

LEMMA RangeEmpty == Range(<<>>) = {}
BY DEF Range

LEMMA RangeAppend ==
  ASSUME NEW S, NEW s \in Seq(S), NEW x \in S
  PROVE  Range(Append(s, x)) = Range(s) \cup {x}
<1> DEFINE t == Append(s, x)
<1>1. /\ Len(t) = Len(s) + 1 /\ t \in Seq(S) /\ t[Len(s) + 1] = x
      /\ \A i \in 1 .. Len(s) : t[i] = s[i]
      /\ DOMAIN t = 1 .. Len(t) /\ DOMAIN s = 1 .. Len(s) /\ Len(s) \in Nat
  OBVIOUS
<1>2. ASSUME NEW y \in Range(t) PROVE y \in Range(s) \cup {x}
  BY <1>1 DEF Range
<1>3. ASSUME NEW y \in Range(s) PROVE y \in Range(t)
  BY <1>1 DEF Range
<1>4. x \in Range(t)
  BY <1>1 DEF Range
<1> QED
  BY <1>2, <1>3, <1>4

LEMMA RangeTail ==
  ASSUME NEW S, NEW s \in Seq(S), s # <<>>
  PROVE  /\ Range(Tail(s)) \subseteq Range(s) /\ Head(s) \in Range(s)
         /\ s[1] = Head(s) /\ s[1] \in Range(s) /\ s[Len(s)] \in Range(s)
<1> DEFINE t == Tail(s)
<1>1. /\ Len(t) = Len(s) - 1 /\ t \in Seq(S) /\ Head(s) = s[1]
      /\ \A i \in 1 .. Len(t) : t[i] = s[i + 1]
      /\ DOMAIN t = 1 .. Len(t) /\ DOMAIN s = 1 .. Len(s) /\ Len(s) \in Nat /\ Len(s) > 0
  OBVIOUS
<1>2. ASSUME NEW y \in Range(t) PROVE y \in Range(s)
  BY <1>1 DEF Range
<1>3. s[1] \in Range(s) /\ s[Len(s)] \in Range(s)
  BY <1>1 DEF Range
<1> QED
  BY <1>1, <1>2, <1>3

LEMMA LastAppended ==
  ASSUME NEW S, NEW s \in Seq(S), NEW x \in S
  PROVE  /\ LastOf(Append(s, x)) = x /\ Append(s, x) # <<>>
         /\ Len(Append(s, x)) = Len(s) + 1 /\ Append(s, x)[Len(s) + 1] = x
         /\ \A i \in 1 .. Len(s) : Append(s, x)[i] = s[i]
BY DEF LastOf

(* A payload's place is a number.                                            *)
LEMMA PosType ==
  ASSUME NEW g, g.data \in Data
  PROVE  g.data.pos \in Nat /\ EndOf(g) \in Nat /\ EndOf(g) > g.data.pos
<1>1. g.data.pos \in 0 .. 4095
  BY DEF Data
<1>2. \A n : n \in 0 .. 4095 => n \in Nat
  OBVIOUS
<1>3. g.data.pos \in Nat
  BY <1>1, <1>2
<1> QED
  BY <1>3, Sizes, SMTT(30) DEF EndOf

LEMMA AscendingAppended ==
  ASSUME NEW s \in Seq(Frame), NEW x \in Frame, Ascending(s),
         \A f \in Range(s) : Skip(EndOf(f), x.data.pos)
  PROVE  Ascending(Append(s, x))
<1> DEFINE t == Append(s, x)
<1>1. /\ Len(t) = Len(s) + 1 /\ t[Len(s) + 1] = x /\ Len(s) \in Nat
      /\ \A i \in 1 .. Len(s) : t[i] = s[i] /\ s[i] \in Range(s)
  BY DEF Range
<1> HIDE DEF t
<1>2. ASSUME NEW i \in 1 .. Len(t), NEW j \in 1 .. Len(t), i < j
      PROVE  Skip(EndOf(t[i]), t[j].data.pos)
  <2>1. i \in 1 .. Len(s) /\ t[i] = s[i] /\ s[i] \in Range(s)
    BY <1>1, <1>2
  <2>2. CASE j = Len(s) + 1
    BY <1>1, <2>1, <2>2
  <2>3. CASE j \in 1 .. Len(s)
    BY <1>1, <1>2, <2>1, <2>3 DEF Ascending
  <2> QED
    BY <1>1, <2>2, <2>3
<1>3. Ascending(t)
  BY <1>2 DEF Ascending
<1> QED
  BY <1>3 DEF t

LEMMA AscendingTail ==
  ASSUME NEW s \in Seq(Frame), s # <<>>, Ascending(s)
  PROVE  Ascending(Tail(s)) /\ \A f \in Range(Tail(s)) : Skip(EndOf(Head(s)), f.data.pos)
<1> DEFINE t == Tail(s)
<1>1. /\ Len(t) = Len(s) - 1 /\ t \in Seq(Frame) /\ Head(s) = s[1] /\ Len(s) \in Nat
      /\ \A i \in 1 .. Len(t) : t[i] = s[i + 1] /\ i + 1 \in 1 .. Len(s)
      /\ 1 \in 1 .. Len(s) /\ DOMAIN t = 1 .. Len(t)
  OBVIOUS
<1> HIDE DEF t
<1>2. ASSUME NEW i \in 1 .. Len(t), NEW j \in 1 .. Len(t), i < j
      PROVE  Skip(EndOf(t[i]), t[j].data.pos)
  BY <1>1, <1>2 DEF Ascending
<1>3. ASSUME NEW f \in Range(t) PROVE Skip(EndOf(s[1]), f.data.pos)
  <2>1. PICK j \in 1 .. Len(t) : f = t[j]
    BY <1>1 DEF Range
  <2>2. 1 < j + 1
    BY <2>1
  <2> QED
    BY <1>1, <2>1, <2>2 DEF Ascending
<1>4. Ascending(t)
  BY <1>2 DEF Ascending
<1> QED
  BY <1>1, <1>3, <1>4 DEF t

-----------------------------------------------------------------------------
(* Putting frames together.  The last of them is never before its place.     *)
LEMMA SegmentPos ==
  ASSUME NEW g \in SegmentType
  PROVE  g.data.pos \in Nat /\ EndOf(g) \in Nat
         /\ EndOf(g) = IF g.type = "FF" THEN g.data.pos + 6 ELSE g.data.pos + 7
<1>1. g.data \in Data
  BY DEF SegmentType
<1> QED
  BY <1>1, PosType, Sizes DEF EndOf

LEMMA EndInPlace ==
  ASSUME NEW parts \in Seq(SegmentType), NEW m, PartsOf(parts, m)
  PROVE  /\ EndOf(LastOf(parts)) >= Expected(Len(parts)) /\ Len(parts) \in Nat \ {0}
         /\ EndOf(LastOf(parts)) \in Nat
         /\ InPlace(parts) => EndOf(LastOf(parts)) = Expected(Len(parts))
<1> DEFINE n == Len(parts)
           g == parts[n]
<1>1. n \in Nat /\ n >= 1 /\ n \in 1 .. n /\ g \in SegmentType
  BY DEF PartsOf
<1>2. g.data.pos \in Nat /\ EndOf(g) \in Nat
      /\ EndOf(g) = IF g.type = "FF" THEN g.data.pos + 6 ELSE g.data.pos + 7
  BY <1>1, SegmentPos
<1>3. /\ n = 1 => g.type = "FF"
      /\ n > 1 => g.type = "CF"
      /\ InPlace(parts) => g.data.pos = IF n = 1 THEN 0 ELSE 6 + 7 * (n - 2)
      /\ InPlace(parts) \/ EndOf(g) >= Expected(n) + 7
  BY <1>1, Sizes DEF PartsOf, InPlace, Behind, LastOf
<1> HIDE DEF g, n
<1>4. Expected(n) = 6 + 7 * (n - 1)
  BY Sizes DEF Expected
<1>5. InPlace(parts) => EndOf(g) = Expected(n)
  BY <1>1, <1>2, <1>3, <1>4
<1>6. EndOf(g) >= Expected(n)
  BY <1>1, <1>2, <1>3, <1>4, <1>5
<1> QED
  BY <1>1, <1>2, <1>5, <1>6 DEF LastOf, g, n

LEMMA PartsBegun ==
  ASSUME NEW g \in SegmentType, NEW m, g.type = "FF", g.data = Start(m)
  PROVE  PartsOf(<<g>>, m) /\ InPlace(<<g>>) /\ EndOf(LastOf(<<g>>)) = Expected(1)
         /\ Expected(1) = FF_DATA
<1> DEFINE parts == <<g>>
<1>1. parts # <<>> /\ Len(parts) = 1 /\ parts[1] = g
  OBVIOUS
<1>2. g.data.msg = m.msg /\ g.data.pos = 0
  BY DEF Start
<1>3. EndOf(g) = 6 /\ Expected(1) = 6
  BY <1>2, Sizes DEF EndOf, Expected
<1> HIDE DEF parts
<1>4. InPlace(parts)
  BY <1>1, <1>2 DEF InPlace
<1> QED
  BY <1>1, <1>2, <1>3, <1>4, Sizes DEF PartsOf, LastOf, parts

(* A frame that follows, near or far.                                        *)
LEMMA PartsGrow ==
  ASSUME NEW parts \in Seq(SegmentType), NEW m, PartsOf(parts, m),
         NEW g \in SegmentType, g.type = "CF", g.data.msg = m.msg,
         Skip(EndOf(LastOf(parts)), g.data.pos)
  PROVE  /\ PartsOf(Append(parts, g), m)
         /\ InPlace(parts) /\ g.data.pos = EndOf(LastOf(parts)) => InPlace(Append(parts, g))
<1> DEFINE more == Append(parts, g)
           n == Len(parts)
           p == EndOf(LastOf(parts))
<1>1. /\ LastOf(more) = g /\ more # <<>> /\ Len(more) = n + 1 /\ more[n + 1] = g
      /\ \A i \in 1 .. n : more[i] = parts[i]
  BY LastAppended
<1>2. /\ p >= Expected(n) /\ n \in Nat /\ n # 0 /\ p \in Nat
      /\ InPlace(parts) => p = Expected(n)
  BY EndInPlace
<1>3. g.data.pos \in Nat /\ EndOf(g) = g.data.pos + 7
  BY SegmentPos
<1>4. g.data.pos = p \/ g.data.pos >= p + 7
  BY Sizes DEF Skip
<1>5. Expected(n) = 6 + 7 * (n - 1) /\ Expected(n + 1) = 6 + 7 * n
  BY <1>2, Sizes DEF Expected
<1> HIDE DEF more, n, p
<1>6. InPlace(parts) \/ p >= Expected(n) + 7
  BY Sizes DEF PartsOf, Behind, n, p
<1>7. ASSUME InPlace(parts), g.data.pos = p
      PROVE  InPlace(more)
  <2>1. g.data.pos = 6 + 7 * ((n + 1) - 2)
    BY <1>2, <1>5, <1>7
  <2>2. ASSUME NEW i \in 1 .. n + 1
        PROVE  more[i].data.pos = IF i = 1 THEN 0 ELSE 6 + 7 * (i - 2)
    <3>1. CASE i = n + 1
      BY <1>1, <1>2, <2>1, <3>1
    <3>2. CASE i \in 1 .. n
      BY <1>1, <1>7, <3>2, Sizes DEF InPlace, n
    <3> QED
      BY <1>2, <3>1, <3>2
  <2> QED
    BY <1>1, <2>2, Sizes DEF InPlace
<1>8. ASSUME ~(InPlace(parts) /\ g.data.pos = p)
      PROVE  Behind(more)
  <2>1. g.data.pos >= Expected(n) + 7
    BY <1>2, <1>3, <1>4, <1>5, <1>6, <1>8
  <2>2. EndOf(g) >= Expected(n + 1) + 7
    BY <1>2, <1>3, <1>5, <2>1
  <2> QED
    BY <1>1, <2>2, Sizes DEF Behind
<1>9. more[1] = parts[1] /\ parts[1].type = "FF"
  BY <1>1, <1>2 DEF PartsOf
<1>10. ASSUME NEW i \in 1 .. n + 1
       PROVE  more[i].data.msg = m.msg /\ (i > 1 => more[i].type = "CF")
  <2>1. CASE i = n + 1
    BY <1>1, <2>1
  <2>2. CASE i \in 1 .. n
    BY <1>1, <2>2 DEF PartsOf, n
  <2> QED
    BY <1>2, <2>1, <2>2
<1>11. PartsOf(more, m)
  BY <1>1, <1>7, <1>8, <1>9, <1>10 DEF PartsOf
<1> QED
  BY <1>7, <1>11 DEF more, p

(* The frame with which the count is complete completes the message: if one  *)
(* was missing, its place would be behind the end.                           *)
LEMMA PartsWhole ==
  ASSUME NEW parts \in Seq(SegmentType), NEW m, PartsOf(parts, m),
         m.length \in 0 .. N_DATA_MAX,
         Expected(Len(parts)) < m.length, m.length - Expected(Len(parts)) <= CF_DATA,
         NEW g \in SegmentType, g.type = "CF", g.data.msg = m.msg,
         \/ InPlace(parts) /\ g.data.pos = EndOf(LastOf(parts))
         \/ Skip(EndOf(LastOf(parts)), g.data.pos) /\ g.data.pos < m.length
  PROVE  IsAllOf(Append(parts, g), m)
<1> DEFINE more == Append(parts, g)
           n == Len(parts)
           p == EndOf(LastOf(parts))
           l == m.length
<1>1. /\ LastOf(more) = g /\ more # <<>> /\ Len(more) = n + 1 /\ more[n + 1] = g
      /\ \A i \in 1 .. n : more[i] = parts[i]
  BY LastAppended
<1>2. /\ p >= Expected(n) /\ n \in Nat /\ n # 0 /\ p \in Nat
      /\ InPlace(parts) => p = Expected(n)
  BY EndInPlace
<1>3. g.data.pos \in Nat
  BY SegmentPos
<1>4. Expected(n) = 6 + 7 * (n - 1)
  BY <1>2, Sizes DEF Expected
<1>5. l \in Nat
  BY BufferAssumption
<1>6. Skip(p, g.data.pos)
  BY DEF Skip
<1>7. PartsOf(more, m) /\ (InPlace(parts) /\ g.data.pos = p => InPlace(more))
  BY <1>6, PartsGrow
<1>8. InPlace(parts) \/ p >= Expected(n) + 7
  BY Sizes DEF PartsOf, Behind
<1>9. Consecutives(l) = n
  <2> DEFINE r == l - Expected(n)
             k == n - 1
  <2>1. r \in 1 .. N_DATA_MAX /\ k \in Nat /\ r <= CF_DATA
    BY <1>2, <1>4, <1>5, BufferAssumption
  <2>2. FF_DATA + CF_DATA * k + r = l
    BY <1>2, <1>4, <1>5, Sizes
  <2>3. l \in 0 .. N_DATA_MAX
    OBVIOUS
  <2> HIDE DEF r, l
  <2>4. Consecutives(l) = k + 1
    BY <2>1, <2>2, <2>3, MoreToCome
  <2> QED
    BY <1>2, <2>4
<1>10. l - Expected(n) <= 7 /\ ((g.data.pos = p /\ InPlace(parts)) \/ g.data.pos < l)
  BY Sizes
<1>11. g.data.pos = p \/ g.data.pos >= p + 7
  BY <1>6, Sizes DEF Skip
<1> HIDE DEF more, n, p, l
<1>12. g.data.pos = p /\ InPlace(parts)
  BY <1>2, <1>3, <1>4, <1>5, <1>8, <1>10, <1>11
<1>13. InPlace(more)
  BY <1>7, <1>12
<1>14. Len(more) = 1 + Consecutives(l) /\ more[1].type # "SF"
  BY <1>1, <1>2, <1>7, <1>9 DEF PartsOf
<1>15. DOMAIN more = 1 .. n + 1
  BY <1>1 DEF more
<1>16. more \in Seq(SegmentType)
  BY DEF more
<1>17. ASSUME NEW i \in DOMAIN more
       PROVE  more[i].data = [msg |-> m.msg,
                              pos |-> IF i = 1 THEN 0 ELSE FF_DATA + CF_DATA * (i - 2)]
  <2>1. i \in 1 .. Len(more)
    BY <1>1, <1>15, <1>17
  <2>2. /\ more[i].data.msg = m.msg
        /\ more[i].data.pos = IF i = 1 THEN 0 ELSE FF_DATA + CF_DATA * (i - 2)
    BY <1>7, <1>13, <2>1 DEF PartsOf, InPlace
  <2>3. more[i].data \in Data
    <3>1. more[i] \in SegmentType
      BY <1>16, <2>1
    <3> QED
      BY <3>1 DEF SegmentType
  <2> QED
    BY <2>2, <2>3 DEF Data
<1>18. IsAllOf(more, m)
  BY <1>14, <1>17 DEF IsAllOf, l
<1> QED
  BY <1>18 DEF more

(* Placing a message that was put together.                                  *)
LEMMA PlaceLast ==
  ASSUME NEW parts, NEW S, NEW messages \in Seq(S), messages # <<>>,
         IsAllOf(parts, LastOf(messages))
  PROVE  Place(parts, messages) = Len(messages)
<1> DEFINE n == Len(messages)
           places == {i \in DOMAIN messages : IsAllOf(parts, messages[i])}
<1>1. n \in Nat /\ DOMAIN messages = 1 .. n /\ n >= 1
  OBVIOUS
<1>2. n \in places /\ \A j \in places : j <= n
  BY <1>1 DEF LastOf
<1>3. Place(parts, messages) = CHOOSE i \in places : \A j \in places : j <= i
  BY <1>2 DEF Place
<1>4. places \subseteq Int
  BY <1>1
<1> HIDE DEF places, n
<1>5. \A i, k \in places : (\A j \in places : j <= i) /\ (\A j \in places : j <= k) => i = k
  BY <1>4
<1>6. (CHOOSE i \in places : \A j \in places : j <= i) = n
  BY <1>2, <1>5
<1> QED
  BY <1>3, <1>6 DEF n

-----------------------------------------------------------------------------
(* The sender keeps to the last answer.                                      *)
LEMMA SenderKept ==
  ASSUME SenderInv, UNCHANGED <<txbuf, replied>>,
         UNCHANGED <<send.status, send.pos, send.length, send.CF_SN>>,
         user' = user \/ user'.at \notin {"send_data", "send_length"}
  PROVE  SenderInv'
<1>1. LongMessage' /\ SendAccounting'
  BY DEF SenderInv, LongMessage, SendAccounting, Sending
<1> QED
  BY <1>1 DEF SenderInv

LEMMA TxSame ==
  ASSUME SendTypeOK, TxPart
  PROVE  /\ txbuf'.msg = txbuf.msg /\ txbuf'.length \in {txbuf.length, 0}
         /\ txbuf.length = 0 => UNCHANGED <<txbuf, send>>
<1>0. txbuf \in TxBuffer /\ txbuf.length \in 0 .. N_DATA_MAX
  BY DEF SendTypeOK, TxBuffer
<1>1. CASE TxNothing
  BY <1>0, <1>1 DEF TxNothing, sendVars
<1>2. CASE SendSingleFrame
  <2>1. txbuf.length # 0
    BY <1>0, <1>2 DEF SendSingleFrame
  <2> QED
    BY <1>0, <1>2, <2>1 DEF SendSingleFrame, TxBuffer
<1>3. CASE SendMultipleFrame
  <2>1. \E s \in TxStates : InState(s)
    BY <1>3
    DEF SendMultipleFrame, StartMultipleFrame, SendFirstFrame, FlowControlPending,
        FlowControlArrived, FlowControlTimeout, SendConsecutiveFrame, SeparationWait,
        FlowWait, FlowOverflow, FlowReserved, FinishSend, TxStates
  <2>2. txbuf.length # 0
    BY <1>0, <2>1, Sizes DEF InState
  <2>3. txbuf' = txbuf \/ txbuf' = [txbuf EXCEPT !.length = 0]
    BY <1>3
    DEF SendMultipleFrame, StartMultipleFrame, SendFirstFrame, FlowControlPending,
        FlowControlArrived, FlowControlTimeout, SendConsecutiveFrame, SeparationWait,
        FlowWait, FlowOverflow, FlowReserved, FinishSend, sendVars
  <2> QED
    BY <1>0, <2>2, <2>3 DEF TxBuffer
<1> QED
  BY <1>1, <1>2, <1>3 DEF TxPart

LEMMA SenderTx ==
  ASSUME ExchangeIInv, SenderInv, TxPart, UNCHANGED <<user, replied>>
  PROVE  SenderInv'
<1>1. SendIInv /\ SendTypeOK
  BY DEF ExchangeIInv, SendIInv, SenderInv
<1>2. LongMessage' /\ SendAccounting'
  BY <1>1, TxKeeps DEF SendIInv
<1>3. /\ txbuf'.msg = txbuf.msg /\ txbuf'.length \in {txbuf.length, 0}
      /\ txbuf.length = 0 => UNCHANGED <<txbuf, send>>
  BY <1>1, TxSame
<1> QED
  BY <1>2, <1>3 DEF SenderInv

(* The stores of send_network_layer put the answer together; nothing is sent *)
(* before its length is there.                                               *)
LEMMA SenderStores ==
  ASSUME ExchangeIInv, SenderInv, SendStores, UNCHANGED replied
  PROVE  SenderInv'
<1>0. txbuf \in TxBuffer /\ send \in TxRuntime /\ UserTypes /\ user.m \in TxBuffer
  BY DEF ExchangeIInv, SendTypeOK, UserTypes
<1>1. CASE SendResult
  <2>1. /\ txbuf' = txbuf /\ UNCHANGED <<send.status, send.pos, send.length, send.CF_SN>>
        /\ user'.at = "none"
    BY <1>0, <1>1 DEF SendResult, Go, TxRuntime, UserTypes
  <2> QED
    BY <2>1, SenderKept
<1>2. CASE SendData \/ SendLength
  <2>1. send.status = "TX_IDLE" /\ send' = send /\ txbuf.length = 0
        /\ replied # <<>> /\ user.m = LastOf(replied)
    BY <1>2 DEF SenderInv, SendData, SendLength, Go
  <2>2. LongMessage' /\ SendAccounting'
    BY <2>1 DEF LongMessage, SendAccounting, Sending
  <2>3. user'.m = user.m
    BY <1>0, <1>2 DEF SendData, SendLength, Go, UserTypes
  <2>4. CASE SendData
    <3>1. txbuf'.length = 0 /\ txbuf'.msg = user.m.msg /\ user'.at = "send_length"
      BY <1>0, <2>1, <2>4 DEF SendData, Go, UserTypes, TxBuffer
    <3> QED
      BY <2>1, <2>2, <2>3, <3>1 DEF SenderInv
  <2>5. CASE SendLength
    <3>1. /\ txbuf'.length = user.m.length /\ txbuf'.msg = txbuf.msg
          /\ user'.at = "send_result" /\ user.at = "send_length"
      BY <1>0, <2>1, <2>5 DEF SendLength, Go, UserTypes, TxBuffer
    <3>2. txbuf.msg = user.m.msg
      BY <3>1 DEF SenderInv
    <3> QED
      BY <2>1, <2>2, <2>3, <3>1, <3>2 DEF SenderInv
  <2> QED
    BY <1>2, <2>4, <2>5
<1> QED
  BY <1>1, <1>2 DEF SendStores

LEMMA RepliedType ==
  ASSUME NEW s, NEW a, s \in Seq(Messages), a \in Messages
  PROVE  Append(s, a) # <<>> /\ LastOf(Append(s, a)) = a /\ Append(s, a) \in Seq(Messages)
BY LastAppended

LEMMA SenderAnswers ==
  ASSUME ExchangeIInv, SenderInv, replied \in Seq(Messages), AnswerRequest, ~crossed'
  PROVE  SenderInv'
<1>0. UserTypes /\ poll # None
  BY DEF ExchangeIInv, AnswerRequest
<1>1. PICK a \in Answers[poll[1]] :
        IF send.status = "TX_IDLE"
        THEN /\ BeginSend(a)
             /\ replied' = Append(replied, a)
             /\ crossed' = (crossed \/ txbuf.length # 0)
        ELSE UNCHANGED <<nodeVars, replied, crossed>>
  BY DEF AnswerRequest
<1>2. CASE send.status = "TX_IDLE"
  <2>1. a \in Messages
    BY <1>0, ScriptAssumption DEF UserTypes
  <2>2. replied' # <<>> /\ LastOf(replied') = a
    BY <1>1, <1>2, <2>1, RepliedType
  <2>3. txbuf.length = 0 /\ UNCHANGED <<txbuf, send>>
    BY <1>1, <1>2 DEF BeginSend
  <2>4. user'.at = "send_data" /\ user'.m = a
    BY <1>0, <1>1, <1>2 DEF BeginSend, UserTypes
  <2>5. LongMessage' /\ SendAccounting'
    BY <1>2, <2>3 DEF LongMessage, SendAccounting, Sending
  <2> QED
    BY <1>2, <2>2, <2>3, <2>4, <2>5 DEF SenderInv
<1>3. CASE send.status # "TX_IDLE"
  <2>1. UNCHANGED <<txbuf, send, user, replied>>
    BY <1>1, <1>3 DEF nodeVars, vars
  <2> QED
    BY <2>1, SenderKept
<1> QED
  BY <1>2, <1>3

(* The histories are sequences of what their names say.                      *)
HistoryTypes == asked \in Seq(Script) /\ replied \in Seq(Messages)

LEMMA SenderStep ==
  ASSUME ExchangeIInv, HistoryTypes, ~crossed => SenderInv, ExchangeNext, ~crossed'
  PROVE  SenderInv'
<1>0. ASSUME ~crossed PROVE SenderInv
  BY <1>0
<1>1. CASE AnswerRequest
  <2>1. ~crossed
    BY <1>1 DEF AnswerRequest
  <2> QED
    BY <1>0, <1>1, <2>1, SenderAnswers DEF HistoryTypes
<1>2. ASSUME ~AnswerRequest
      PROVE  crossed' = crossed /\ replied' = replied
  BY <1>2
  DEF ExchangeNext, NodeTick, RxNotification, Poll, InCall, TakeRequest, TakeNothing,
      Ask, TesterProceeds, TesterTimesOut, historyVars
<1>3. CASE ~AnswerRequest
  <2>0. SenderInv /\ replied' = replied /\ send \in TxRuntime
    BY <1>0, <1>2, <1>3 DEF ExchangeIInv, SendTypeOK
  <2>1. CASE NodeTick
    <3>1. user' = user /\ MainNetworkLayer
      BY <2>1 DEF NodeTick
    <3>2. CASE Tx
      BY <2>0, <3>1, <3>2, SenderTx DEF Tx
    <3>3. CASE Fc \/ Rx \/ TimerCtrl
      <4>1. txbuf' = txbuf /\ UNCHANGED <<send.status, send.pos, send.length, send.CF_SN>>
        BY <2>0, <3>3
        DEF Fc, SendFlowCtrlFrame, NoFlowCtrlFrame, Rx, TimerCtrl, SendTimerCtrl,
            RcvFlowCtrlFrame, sendVars, TxRuntime
      <4> QED
        BY <2>0, <3>1, <4>1, SenderKept
    <3> QED
      BY <3>1, <3>2, <3>3 DEF MainNetworkLayer
  <2>2. CASE RxNotification \/ Ask \/ TesterProceeds \/ TesterTimesOut
    <3>1. UNCHANGED <<txbuf, send, user>>
      BY <2>2
      DEF RxNotification, Ask, TesterProceeds, TesterTimesOut, Deliver, sendVars, nodeVars, vars
    <3> QED
      BY <2>0, <3>1, SenderKept
  <2>3. CASE InCall /\ SendStores
    BY <2>0, <2>3, SenderStores
  <2>4. CASE Poll \/ TakeRequest \/ TakeNothing \/ (InCall /\ ReceiveLoads)
    <3>1. UserTypes
      BY DEF ExchangeIInv
    <3>2. user'.at \notin {"send_data", "send_length"} /\ UNCHANGED <<txbuf, send>>
      BY <2>4, <3>1
      DEF Poll, BeginReceive, TakeRequest, TakeNothing, ReceiveResult, Go, ReceiveLoads,
          ReceiveData, ReceiveLength, ReceiveClear, UserTypes
    <3> QED
      BY <2>0, <3>2, SenderKept
  <2> QED
    BY <1>3, <2>1, <2>2, <2>3, <2>4 DEF ExchangeNext, InCall
<1> QED
  BY <1>1, <1>3

-----------------------------------------------------------------------------
LEMMA HistoryStep ==
  ASSUME ExchangeIInv, HistoryTypes, ExchangeNext
  PROVE  HistoryTypes' /\ (~hasty' => ~hasty) /\ (~crossed' => ~crossed)
         /\ (~overrun' => ~overrun)
<1>1. CASE Ask
  <2>1. PICK m \in Script : asked' = Append(asked, m)
    BY <1>1 DEF Ask
  <2>2. HistoryTypes' /\ UNCHANGED <<crossed, overrun>>
    BY <1>1, <2>1 DEF Ask, HistoryTypes
  <2>3. ~hasty' => ~hasty
    BY <1>1 DEF Ask
  <2> QED
    BY <2>2, <2>3
<1>2. CASE AnswerRequest
  <2>1. PICK m \in Msgs : poll = <<m>>
    BY <1>2 DEF AnswerRequest, ExchangeIInv, UserTypes
  <2>2. PICK a \in Answers[poll[1]] :
         IF send.status = "TX_IDLE"
         THEN replied' = Append(replied, a) ELSE replied' = replied
    BY <1>2 DEF AnswerRequest
  <2>3. a \in Messages
    BY <2>1, ScriptAssumption
  <2>4. replied' \in Seq(Messages)
    BY <2>2, <2>3 DEF HistoryTypes
  <2> QED
    BY <1>2, <2>4 DEF AnswerRequest, HistoryTypes
<1>3. CASE NodeTick
  BY <1>3 DEF NodeTick, HistoryTypes
<1>4. CASE ~Ask /\ ~AnswerRequest /\ ~NodeTick
  <2>1. UNCHANGED <<asked, replied, hasty, crossed, overrun>>
    BY <1>4
    DEF ExchangeNext, RxNotification, Poll, InCall, TakeRequest, TakeNothing,
        TesterProceeds, TesterTimesOut, historyVars
  <2> QED
    BY <2>1 DEF HistoryTypes
<1> QED
  BY <1>1, <1>2, <1>3, <1>4

-----------------------------------------------------------------------------
(* The frame that the node looks at.                                         *)
LEMMA PduKept == ASSUME UNCHANGED <<pdu, mailbox>> PROVE Pdu' = Pdu
BY DEF Pdu

LEMMA PduTaken ==
  ASSUME RcvTypeOK, NEW v \in BOOLEAN, Take(v)
  PROVE  Pdu'.f = Pdu.f /\ Pdu'.is_valid = (Pdu.is_valid /\ v) /\ mailbox' = <<>>
<1>1. Pdu \in [is_valid : BOOLEAN, f : Frame]
  BY PduType
<1>2. Pdu' = pdu' /\ mailbox' = <<>>
  BY DEF Pdu, Take
<1>3. pdu' = [Pdu EXCEPT !.is_valid = Pdu.is_valid /\ v]
  BY DEF Take
<1> QED
  BY <1>1, <1>2, <1>3

LEMMA PduFilled ==
  ASSUME NEW f \in Frame, mailbox' = <<f>>
  PROVE  Pdu' = [is_valid |-> TRUE, f |-> f]
BY DEF Pdu

(* What a tick does with it: it is kept or consumed.                         *)
LEMMA PduRx ==
  ASSUME RcvTypeOK, Rx
  PROVE  Pdu'.f = Pdu.f /\ (Pdu'.is_valid => Pdu.is_valid) /\ mailbox' = <<>>
<1>1. Keep \/ Consume
  BY DEF Rx, RxPart, TakeFlowCtrlFrame, RcvUnknown, RcvSingleFrame, RcvSingleFrameError,
         RcvMultipleFrame, IdleFirstFrame, FirstFrame, FirstFrameTooLong, FirstFrameTooShort,
         FlowControlSent, FlowControlLate, FlowControlUnsent, ConsecutiveFrame,
         WrongSequenceNumber, ConsecutiveFrameTimeout, ConsecutiveFramePending, FinishReceive
<1> QED
  BY <1>1, PduTaken DEF Keep, Consume

LEMMA KindOfPdu ==
  ASSUME RcvTypeOK
  PROVE  /\ Pdu.is_valid =>
              \/ Kind = Pdu.f.type
              \/ Pdu.f.type = "SF" /\ rcv.status # "RX_IDLE" /\ Kind = Unknown
         /\ ~Pdu.is_valid => Kind = frame_type
         /\ Kind = "SF" => Pdu.is_valid /\ Pdu.f.type = "SF" /\ rcv.status = "RX_IDLE"
         /\ Kind = "FC" => Pdu.is_valid /\ Pdu.f.type = "FC"
         /\ Unknown \notin FrameTypes
<1>1. Pdu.is_valid \in BOOLEAN /\ Pdu.f.type \in FrameTypes
  BY PduType DEF Frame
<1>2. frame_type \in {"FF", "CF", Unknown} /\ Unknown \notin FrameTypes
  BY DEF RcvTypeOK, Unknown, FrameTypes
<1> QED
  BY <1>1, <1>2 DEF Kind, FrameTypes

LEMMA IdleTypeStep ==
  ASSUME RcvTypeOK, IdleType, ExchangeNext
  PROVE  IdleType'
<1>0. rcv \in RxRuntime
  BY DEF RcvTypeOK
<1>1. CASE NodeTick /\ Rx
  <2>1. CASE RxPart
    <3>1. (Kind \in {"SF", Unknown} => frame_type' = Unknown) /\
          (Kind \in {"FF", "CF"} => Continue)
      BY <2>1
      DEF RxPart, RcvUnknown, RcvSingleFrame, RcvSingleFrameError, RcvMultipleFrame,
          IdleFirstFrame, FirstFrame, FirstFrameTooLong, FirstFrameTooShort,
          FlowControlSent, FlowControlLate, FlowControlUnsent, ConsecutiveFrame,
          WrongSequenceNumber, ConsecutiveFrameTimeout, ConsecutiveFramePending,
          FinishReceive, InFlow, Unknown
    <3>2. Kind \in {"SF", Unknown, "FF", "CF"}
      BY <2>1
      DEF RxPart, RcvUnknown, RcvSingleFrame, RcvSingleFrameError, RcvMultipleFrame,
          IdleFirstFrame, FirstFrame, FirstFrameTooLong, FirstFrameTooShort,
          FlowControlSent, FlowControlLate, FlowControlUnsent, ConsecutiveFrame,
          WrongSequenceNumber, ConsecutiveFrameTimeout, ConsecutiveFramePending,
          FinishReceive, InFlow, Unknown
    <3> QED
      BY <3>1, <3>2 DEF IdleType, Continue
  <2>2. CASE TakeFlowCtrlFrame
    BY <2>2 DEF TakeFlowCtrlFrame, IdleType
  <2> QED
    BY <1>1, <2>1, <2>2 DEF Rx
<1>2. CASE NodeTick /\ ~Rx
  BY <1>2
  DEF NodeTick, MainNetworkLayer, Tx, Fc, SendFlowCtrlFrame, NoFlowCtrlFrame, TimerCtrl,
      RcvTimerCtrl, rcvVars, IdleType
<1>3. CASE ~NodeTick
  <2>1. frame_type' = frame_type /\ rcv'.status = rcv.status
    BY <1>0, <1>3
    DEF ExchangeNext, RxNotification, Poll, InCall, TakeRequest, TakeNothing, AnswerRequest,
        Ask, TesterProceeds, TesterTimesOut, Deliver, RxFrameData, nodeVars, vars,
        BeginReceive, SendStores, SendData, SendLength, SendResult, ReceiveLoads,
        ReceiveData, ReceiveLength, ReceiveClear, ReceiveResult, BeginSend, UserStep, RxRuntime
  <2> QED
    BY <2>1 DEF IdleType
<1> QED
  BY <1>1, <1>2, <1>3

-----------------------------------------------------------------------------
(* At rest, a tick takes no message in and makes none of what is there.      *)
LEMMA RestRx ==
  ASSUME RcvTypeOK, IdleType, AtRest, Rx
  PROVE  /\ AtRest' /\ rxbuf' = rxbuf /\ rcv'.N_result = rcv.N_result
         /\ rcvFC'.is_valid => rcvFC.is_valid
<1>0. rcv \in RxRuntime /\ rcvFC \in FCParam /\ rcv.status \in {"RX_IDLE", "RCV_OK"}
  BY DEF RcvTypeOK, AtRest
<1>1. Pdu'.f = Pdu.f /\ (Pdu'.is_valid => Pdu.is_valid)
  BY PduRx
<1>2. Pdu.is_valid => \/ Pdu.f.type \in {"CF", "FC"} /\ Kind = Pdu.f.type
                      \/ Pdu.f.type = "SF" /\ rcv.status = "RCV_OK" /\ Kind = Unknown
  BY KindOfPdu DEF AtRest, NoStart
<1>3. ~Pdu.is_valid /\ rcv.status = "RX_IDLE" => Kind = Unknown
  BY KindOfPdu DEF IdleType
<1>4. CASE UNCHANGED <<rxbuf, rcv, rcvFC>>
  BY <1>1, <1>4 DEF AtRest
<1>5. CASE IdleFirstFrame
  <2>1. Pdu.is_valid /\ Pdu.f.type = "CF"
    BY <1>2, <1>3, <1>5 DEF IdleFirstFrame, InFlow, Unknown
  <2> QED
    BY <1>4, <1>5, <2>1 DEF IdleFirstFrame
<1>6. CASE FinishReceive
  <2>1. /\ rcv'.status = "RX_IDLE" /\ rcv'.N_result = rcv.N_result /\ rxbuf' = rxbuf
        /\ ~rcvFC'.is_valid
    BY <1>0, <1>6 DEF FinishReceive, RxRuntime, FCParam
  <2>2. ~Pdu'.is_valid
    BY <1>6, PduTaken DEF FinishReceive, Consume
  <2> QED
    BY <2>1, <2>2 DEF AtRest
<1>7. CASE RcvUnknown \/ TakeFlowCtrlFrame
  BY <1>4, <1>7 DEF RcvUnknown, TakeFlowCtrlFrame
<1>8. Kind # "SF"
  BY <1>2, <1>3, KindOfPdu DEF Unknown
<1> QED
  BY <1>0, <1>5, <1>6, <1>7, <1>8
  DEF Rx, RxPart, RcvSingleFrame, RcvSingleFrameError, RcvMultipleFrame,
      FirstFrame, FirstFrameTooLong, FirstFrameTooShort,
      FlowControlSent, FlowControlLate, FlowControlUnsent, ConsecutiveFrame,
      WrongSequenceNumber, ConsecutiveFrameTimeout, ConsecutiveFramePending, InFlow

-----------------------------------------------------------------------------
(* The phases of a request, where the step is none of its own.               *)
LEMMA LiveKept ==
  ASSUME Live, UNCHANGED <<rcv, rxbuf, bus, mailbox, request, asked, served, poll, user>>,
         Pdu' = Pdu, rcvFC'.FS = rcvFC.FS, NotYetGranted => NotYetGranted',
         call' = "schedule_tx" => call = "schedule_tx" /\ tp'.t_size = tp.t_size,
         SenderQuiet', Blank'
  PROVE  Live'
<1>1. CASE Coming
  <2>1. Coming'
    BY <1>1 DEF Coming, NothingToRead, Reading, AtRest
  <2> QED
    BY <2>1 DEF Live, NotServed
<1>2. CASE Judged
  <2>1. Judged'
    BY <1>2 DEF Judged, NothingToRead, Reading
  <2> QED
    BY <2>1 DEF Live, NotServed
<1>3. CASE Taking
  <2>1. InOrder'
    BY <1>3 DEF Taking, InOrder, From
  <2>2. Taking'
    BY <1>3, <2>1 DEF Taking, NothingToRead, Reading, Receiving
  <2> QED
    BY <2>2 DEF Live, NotServed
<1>4. CASE Held
  <2>1. Held'
    BY <1>4 DEF Held, AtRest, NoStartOnBus
  <2> QED
    BY <2>1 DEF Live, NotServed
<1> QED
  BY <1>1, <1>2, <1>3, <1>4 DEF Live

LEMMA DeadKept ==
  ASSUME Dead, UNCHANGED <<rcv, bus, user, poll>>, Pdu' = Pdu, rcvFC'.FS = rcvFC.FS,
         poll # None => SenderQuiet' /\ Blank'
  PROVE  Dead'
BY DEF Dead, AtRest, NoStartOnBus, NothingToRead, Reading

(* A sender that has nothing to send sends nothing.                          *)
LEMMA QuietTx ==
  ASSUME SendTypeOK, LongMessage, SenderQuiet, TxPart, user' = user
  PROVE  out' = <<>> /\ SenderQuiet'
<1>0. txbuf \in TxBuffer /\ txbuf.length \in 0 .. N_DATA_MAX
  BY DEF SendTypeOK, TxBuffer
<1>1. CASE txbuf.length = 0
  <2>1. UNCHANGED <<txbuf, send>>
    BY <1>1, TxSame
  <2>2. TxNothing
    <3>1. ~(txbuf.length >= CAN_FRAME_SIZE) /\ txbuf.length \notin 1 .. CAN_FRAME_SIZE - 1
      BY <1>1, Sizes
    <3> QED
      BY <3>1
      DEF TxPart, SendSingleFrame, InState,
        SendMultipleFrame, StartMultipleFrame, SendFirstFrame, FlowControlPending,
        FlowControlArrived, FlowControlTimeout, SendConsecutiveFrame, SeparationWait,
        FlowWait, FlowOverflow, FlowReserved, FinishSend
  <2> QED
    BY <2>1, <2>2 DEF TxNothing, SenderQuiet
<1>2. CASE send.status = "SEND_OK"
  <2>1. txbuf.length >= 8 /\ txbuf.length # 0 /\ txbuf.length \notin 1 .. CAN_FRAME_SIZE - 1
    BY <1>0, <1>2, Sizes DEF LongMessage
  <2>2. FinishSend
    BY <1>2, <2>1
      DEF TxPart, SendSingleFrame, InState, TxNothing,
        SendMultipleFrame, StartMultipleFrame, SendFirstFrame, FlowControlPending,
        FlowControlArrived, FlowControlTimeout, SendConsecutiveFrame, SeparationWait,
        FlowWait, FlowOverflow, FlowReserved
  <2>3. txbuf'.length = 0 /\ out' = <<>>
    BY <1>0, <2>2 DEF FinishSend, TxBuffer
  <2> QED
    BY <2>3 DEF SenderQuiet
<1> QED
  BY <1>1, <1>2 DEF SenderQuiet

Phase == Live \/ Dead

LEMMA PhaseTx ==
  ASSUME ExchangeIInv, SenderInv, Phase, NodeTick, Tx
  PROVE  Phase'
<1>0. SendTypeOK /\ LongMessage
  BY DEF ExchangeIInv, SenderInv
<1>1. /\ UNCHANGED <<rcv, rcvFC, rxbuf, bus, mailbox, request, asked, served, poll, user>>
      /\ UNCHANGED <<call, tp, response>> /\ Pdu' = Pdu /\ TxPart
      /\ (out' = <<>> => inbox' = inbox)
  BY PduKept DEF NodeTick, Tx, rcvVars
<1>2. ASSUME SenderQuiet, Blank
      PROVE  SenderQuiet' /\ Blank' /\ inbox' = inbox
  <2>1. out' = <<>> /\ SenderQuiet'
    BY <1>0, <1>1, <1>2, QuietTx
  <2> QED
    BY <1>1, <1>2, <2>1 DEF Blank
<1>3. CASE Live
  <2>1. SenderQuiet' /\ Blank' /\ (NotYetGranted => NotYetGranted')
    BY <1>1, <1>2, <1>3 DEF Live, NotYetGranted
  <2>2. Live'
    BY <1>1, <1>3, <2>1, LiveKept
  <2> QED
    BY <2>2 DEF Phase
<1>4. CASE Dead
  <2>1. poll # None => SenderQuiet' /\ Blank'
    BY <1>2, <1>4 DEF Dead
  <2>2. Dead'
    BY <1>1, <1>4, <2>1, DeadKept
  <2> QED
    BY <2>2 DEF Phase
<1> QED
  BY <1>3, <1>4 DEF Phase

(* Flow control that is sent leaves the way as it is.                        *)
LEMMA BlankAppended ==
  ASSUME Blank, inbox \in Seq(Frame), NEW f \in Frame, f.type = "FC",
         UNCHANGED <<call, response>>, inbox' = inbox \/ inbox' = Append(inbox, f)
  PROVE  Blank'
<1>1. Range(inbox') \subseteq Range(inbox) \cup {f}
  BY RangeAppend, Zenon
<1> QED
  BY <1>1 DEF Blank

LEMMA FlowControlFrame ==
  ASSUME ExchangeIInv, ExchangeIInv', SendFlowCtrlFrame
  PROVE  out' # <<>> /\ out'[1] \in Frame /\ out'[1].type = "FC"
<1>1. out' \in Seq(Frame)
  BY DEF ExchangeIInv, SendTypeOK
<1> QED
  BY <1>1 DEF SendFlowCtrlFrame

LEMMA PhaseFc ==
  ASSUME ExchangeIInv, ExchangeIInv', Phase, NodeTick, Fc
  PROVE  Phase'
<1>0. inbox \in Seq(Frame) /\ rcvFC \in FCParam
  BY DEF ExchangeIInv, TesterTypeOK, RcvTypeOK
<1>1. /\ UNCHANGED <<rcv, rxbuf, bus, mailbox, request, asked, served, poll, user>>
      /\ UNCHANGED <<call, tp, response, txbuf, send>> /\ Pdu' = Pdu
      /\ rcvFC'.FS = rcvFC.FS /\ (rcvFC'.is_valid => rcvFC.is_valid)
  BY <1>0, PduKept
  DEF NodeTick, Fc, SendFlowCtrlFrame, NoFlowCtrlFrame, rcvVars, sendVars, FCParam
<1>2. SenderQuiet => SenderQuiet'
  BY <1>1 DEF SenderQuiet
<1>3. /\ ~rcvFC.is_valid => inbox' = inbox
      /\ Blank => Blank'
  <2>1. CASE NoFlowCtrlFrame
    BY <1>1, <2>1 DEF NoFlowCtrlFrame, NodeTick, Blank
  <2>2. CASE SendFlowCtrlFrame
    <3>1. out' # <<>> /\ out'[1] \in Frame /\ out'[1].type = "FC"
      BY <2>2, FlowControlFrame
    <3>2. inbox' = inbox \/ inbox' = Append(inbox, out'[1])
      BY <3>1 DEF NodeTick, Queued
    <3>3. Blank => Blank'
      BY <1>0, <1>1, <3>1, <3>2, BlankAppended
    <3> QED
      BY <2>2, <3>3 DEF SendFlowCtrlFrame
  <2> QED
    BY <2>1, <2>2 DEF Fc
<1>4. CASE Live
  <2>1. SenderQuiet' /\ Blank' /\ (NotYetGranted => NotYetGranted')
    BY <1>1, <1>2, <1>3, <1>4 DEF Live, NotYetGranted
  <2>2. Live'
    BY <1>1, <1>4, <2>1, LiveKept
  <2> QED
    BY <2>2 DEF Phase
<1>5. CASE Dead
  <2>1. Dead'
    BY <1>1, <1>2, <1>3, <1>5, DeadKept DEF Dead
  <2> QED
    BY <2>1 DEF Phase
<1> QED
  BY <1>4, <1>5 DEF Phase

LEMMA PhaseTimer ==
  ASSUME ExchangeIInv, Phase, NodeTick, TimerCtrl
  PROVE  Phase'
<1>1. /\ UNCHANGED <<rcv, rcvFC, rxbuf, bus, mailbox, request, asked, served, poll, user>>
      /\ UNCHANGED <<call, tp, response, txbuf, send, inbox>> /\ Pdu' = Pdu
  BY PduKept DEF NodeTick, TimerCtrl, SendTimerCtrl, RcvTimerCtrl
<1>2. (SenderQuiet => SenderQuiet') /\ (Blank => Blank') /\ (NotYetGranted => NotYetGranted')
  BY <1>1 DEF SenderQuiet, Blank, NotYetGranted
<1>3. CASE Live
  BY <1>1, <1>2, <1>3, LiveKept DEF Live, Phase
<1>4. CASE Dead
  BY <1>1, <1>2, <1>4, DeadKept DEF Dead, Phase
<1> QED
  BY <1>3, <1>4 DEF Phase

-----------------------------------------------------------------------------
(* The part of a tick that looks at a frame.  It leaves the tester alone.    *)
LEMMA RxLeaves ==
  ASSUME ExchangeIInv, NodeTick, Rx
  PROVE  /\ UNCHANGED <<bus, request, asked, served, poll, user, inbox, call, tp, response>>
         /\ UNCHANGED <<txbuf, send.status>>
         /\ SenderQuiet => SenderQuiet'
         /\ Blank => Blank'
         /\ Pdu'.f = Pdu.f /\ (Pdu'.is_valid => Pdu.is_valid) /\ mailbox' = <<>>
<1>0. send \in TxRuntime /\ RcvTypeOK
  BY DEF ExchangeIInv, SendTypeOK
<1>1. UNCHANGED <<bus, request, asked, served, poll, user, inbox, call, tp, response>>
  BY DEF NodeTick, Rx
<1>2. UNCHANGED <<txbuf, send.status>>
  BY <1>0 DEF Rx, RcvFlowCtrlFrame, sendVars, TxRuntime
<1> QED
  BY <1>0, <1>1, <1>2, PduRx DEF SenderQuiet, Blank

LEMMA RequestType ==
  ASSUME ExchangeIInv
  PROVE  /\ request \in Requests /\ request.msg \in Msgs
         /\ request.length \in Nat /\ request.length >= 1
<1>1. request \in Requests
  BY DEF ExchangeIInv, TesterTypeOK
<1>2. request.length \in 1 .. 4095
  BY <1>1 DEF Requests
<1> QED
  BY <1>1, <1>2, LengthType DEF Requests

LEMMA PduFrame ==
  ASSUME RcvTypeOK
  PROVE  /\ Pdu.f \in Frame /\ Pdu.f.data \in Data /\ Copied(Pdu.f) \in SegmentType
         /\ Copied(Pdu.f).type = Pdu.f.type /\ Copied(Pdu.f).data = Pdu.f.data
         /\ Pdu.is_valid \in BOOLEAN
         /\ EndOf(Copied(Pdu.f)) = EndOf(Pdu.f)
<1>1. Pdu.f \in Frame /\ Pdu.is_valid \in BOOLEAN
  BY PduType
<1>2. /\ Copied(Pdu.f) \in SegmentType
      /\ Copied(Pdu.f).type = Pdu.f.type /\ Copied(Pdu.f).data = Pdu.f.data
  BY <1>1 DEF Copied, SegmentType, Frame
<1> QED
  BY <1>1, <1>2 DEF Frame, EndOf

(* A request that consists of a single frame is whole.                       *)
LEMMA SingleWhole ==
  ASSUME NEW g \in SegmentType, NEW m, g.type = "SF", g.data = Start(m)
  PROVE  <<g>> # <<>> /\ IsAllOf(<<g>>, m)
BY DEF IsAllOf, Start

(* Shapes of what a tick does with frames that begin a message.              *)
LEMMA PhaseComing ==
  ASSUME ExchangeIInv, IdleType, Live, Coming, NodeTick, Rx
  PROVE  Phase'
<1>0. /\ RcvTypeOK /\ rcv \in RxRuntime /\ rxbuf \in RxBuffer /\ bus \in Seq(Frame)
      /\ mailbox \in Seq(Frame)
  BY DEF ExchangeIInv, RcvTypeOK, TesterTypeOK
<1>1. /\ UNCHANGED <<bus, request, asked, served, poll, user, inbox, call, tp, response>>
      /\ SenderQuiet' /\ Blank'
      /\ Pdu'.f = Pdu.f /\ (Pdu'.is_valid => Pdu.is_valid)
  BY RxLeaves DEF Live
<1>2. NothingToRead /\ NotYetGranted /\ ~Reading'
  BY <1>1 DEF Coming, NothingToRead, Reading
<1>3. ASSUME Coming' \/ Judged' \/ Held' PROVE Phase'
  BY <1>1, <1>3 DEF Phase, Live, NotServed
<1>4. ASSUME AtRest', rcv'.N_result = rcv.N_result, bus = <<>> PROVE Phase'
  <2>1. NoStartOnBus'
    BY <1>1, <1>4, RangeEmpty DEF NoStartOnBus
  <2>2. Dead'
    BY <1>1, <1>2, <1>4, <2>1 DEF Dead, NothingToRead, Live
  <2> QED
    BY <2>2 DEF Phase
<1>5. CASE Len(bus) = 1 /\ FirstOf(bus[1], request) /\ AtRest
  <2>1. /\ AtRest' /\ rcv'.N_result = rcv.N_result
        /\ rcvFC'.is_valid => rcvFC.is_valid
    BY <1>0, <1>5, RestRx
  <2>2. NotYetGranted' /\ NothingToRead'
    BY <1>1, <1>2, <2>1 DEF NotYetGranted, NothingToRead
  <2>3. Coming'
    BY <1>1, <1>5, <2>1, <2>2 DEF Coming
  <2> QED
    BY <1>3, <2>3
<1>6. CASE /\ bus = <<>> /\ mailbox # <<>> /\ FirstOf(Pdu.f, request)
           /\ rcv.status \in {"RX_IDLE", "RCV_OK"}
  <2>0. Pdu.is_valid
    BY <1>6 DEF Pdu
  <2>1. CASE request.length < CF_DATA /\ rcv.status = "RX_IDLE"
    <3>1. Pdu.f.type = "SF" /\ Pdu.f.lo = request.length /\ Pdu.f.data = Start(request)
          /\ Kind = "SF"
      BY <1>0, <1>6, <2>0, <2>1, KindOfPdu DEF FirstOf
    <3>2. Pdu.f.lo \in 1 .. CF_DATA
      BY <2>1, <3>1, RequestType, Sizes
    <3>3. RcvSingleFrame
      BY <3>1, <3>2
      DEF Rx, RxPart, RcvUnknown, RcvSingleFrame, RcvSingleFrameError, RcvMultipleFrame,
          IdleFirstFrame, FirstFrame, FirstFrameTooLong, FirstFrameTooShort,
          FlowControlSent, FlowControlLate, FlowControlUnsent, ConsecutiveFrame,
          WrongSequenceNumber, ConsecutiveFrameTimeout, ConsecutiveFramePending,
          FinishReceive, TakeFlowCtrlFrame, InFlow, Unknown
    <3>4. /\ rcv'.status = "RX_IDLE" /\ rcv'.N_result = "N_OK"
          /\ rxbuf'.length = request.length /\ rxbuf'.segs = <<Copied(Pdu.f)>>
      BY <1>0, <2>1, <3>1, <3>3 DEF RcvSingleFrame, RxRuntime
    <3>5. ~Pdu'.is_valid
      BY <1>0, <3>3, PduTaken DEF RcvSingleFrame, Consume
    <3>6. rxbuf'.segs # <<>> /\ IsAllOf(rxbuf'.segs, request)
      BY <1>0, <3>1, <3>4, PduFrame, SingleWhole
    <3>7. AtRest' /\ NoStartOnBus'
      BY <1>1, <1>6, <3>4, <3>5, RangeEmpty DEF AtRest, NoStartOnBus
    <3>8. Held'
      BY <1>1, <1>2, <3>4, <3>6, <3>7 DEF Held, Reading
    <3> QED
      BY <1>3, <3>8
  <2>2. CASE request.length < CF_DATA /\ rcv.status = "RCV_OK"
    <3>1. Pdu.f.type = "SF"
      BY <1>6, <2>2 DEF FirstOf
    <3>2. AtRest
      BY <2>2, <3>1 DEF AtRest
    <3> QED
      BY <1>0, <1>4, <1>6, <3>2, RestRx
  <2>3. CASE ~(request.length < CF_DATA) /\ rcv.status = "RX_IDLE"
    <3>1. Pdu.f.type = "FF" /\ Kind = "FF"
      BY <1>0, <1>6, <2>0, <2>3, KindOfPdu DEF FirstOf
    <3>2. IdleFirstFrame
      BY <2>3, <3>1
      DEF Rx, RxPart, RcvUnknown, RcvSingleFrame, RcvSingleFrameError, RcvMultipleFrame,
          IdleFirstFrame, FirstFrame, FirstFrameTooLong, FirstFrameTooShort,
          FlowControlSent, FlowControlLate, FlowControlUnsent, ConsecutiveFrame,
          WrongSequenceNumber, ConsecutiveFrameTimeout, ConsecutiveFramePending,
          FinishReceive, TakeFlowCtrlFrame, InFlow, Unknown
    <3>3. rcv'.status = "RCV_FF" /\ rcv'.N_result = rcv.N_result /\ rcvFC' = rcvFC
      BY <1>0, <3>1, <3>2 DEF IdleFirstFrame, RxRuntime
    <3>4. Pdu'.is_valid
      BY <1>0, <2>0, <3>2, PduTaken DEF IdleFirstFrame, Keep
    <3>5. NothingToRead' /\ NotYetGranted'
      BY <1>1, <1>2, <3>3 DEF NothingToRead, NotYetGranted
    <3>6. request.length >= CF_DATA
      BY <2>3, RequestType, Sizes
    <3>7. Judged'
      BY <1>1, <1>6, <3>3, <3>4, <3>5, <3>6 DEF Judged
    <3> QED
      BY <1>3, <3>7
  <2>4. CASE ~(request.length < CF_DATA) /\ rcv.status = "RCV_OK"
    <3>1. Pdu.f.type = "FF" /\ Kind = "FF"
      BY <1>0, <1>6, <2>0, <2>4, KindOfPdu DEF FirstOf
    <3>2. FinishReceive
      BY <2>4, <3>1
      DEF Rx, RxPart, RcvUnknown, RcvSingleFrame, RcvSingleFrameError, RcvMultipleFrame,
          IdleFirstFrame, FirstFrame, FirstFrameTooLong, FirstFrameTooShort,
          FlowControlSent, FlowControlLate, FlowControlUnsent, ConsecutiveFrame,
          WrongSequenceNumber, ConsecutiveFrameTimeout, ConsecutiveFramePending,
          FinishReceive, TakeFlowCtrlFrame, InFlow, Unknown
    <3>3. rcv'.status = "RX_IDLE" /\ rcv'.N_result = rcv.N_result
      BY <1>0, <3>2 DEF FinishReceive, RxRuntime
    <3>4. ~Pdu'.is_valid
      BY <1>0, <3>2, PduTaken DEF FinishReceive, Consume
    <3>5. AtRest'
      BY <3>3, <3>4 DEF AtRest
    <3> QED
      BY <1>4, <1>6, <3>3, <3>5
  <2> QED
    BY <1>6, <2>1, <2>2, <2>3, <2>4
<1> QED
  BY <1>5, <1>6 DEF Coming

LEMMA PhaseJudged ==
  ASSUME ExchangeIInv, Live, Judged, NodeTick, Rx
  PROVE  Phase'
<1>0. RcvTypeOK /\ rcv \in RxRuntime /\ rxbuf \in RxBuffer /\ rcvFC \in FCParam
  BY DEF ExchangeIInv, RcvTypeOK
<1>1. /\ UNCHANGED <<bus, request, asked, served, poll, user, inbox, call, tp, response>>
      /\ SenderQuiet' /\ Blank'
      /\ Pdu'.f = Pdu.f /\ (Pdu'.is_valid => Pdu.is_valid)
  BY RxLeaves DEF Live
<1>2. /\ NothingToRead /\ NotYetGranted /\ bus = <<>> /\ Pdu.is_valid
      /\ rcv.status = "RCV_FF" /\ request.length >= CF_DATA
  BY DEF Judged
<1>3. /\ Pdu.f.type = "FF" /\ FF_DL(Pdu.f) = request.length /\ Pdu.f.data = Start(request)
      /\ Kind = "FF"
  <2>1. ~(request.length < CF_DATA)
    BY <1>2, RequestType, Sizes
  <2> QED
    BY <1>0, <1>2, <2>1, KindOfPdu DEF Judged, FirstOf
<1>4. FirstFrame \/ FirstFrameTooLong \/ FirstFrameTooShort
  BY <1>2, <1>3
  DEF Rx, RxPart, RcvUnknown, RcvSingleFrame, RcvSingleFrameError, RcvMultipleFrame,
      IdleFirstFrame, FlowControlSent, FlowControlLate, FlowControlUnsent, ConsecutiveFrame,
      WrongSequenceNumber, ConsecutiveFrameTimeout, ConsecutiveFramePending,
      FinishReceive, TakeFlowCtrlFrame, InFlow, Unknown
<1>5. ~Pdu'.is_valid
  <2>1. Consume
    BY <1>4 DEF FirstFrame, FirstFrameTooLong, FirstFrameTooShort
  <2> QED
    BY <1>0, <2>1, PduTaken DEF Consume
<1>6. CASE FirstFrame
  <2>1. /\ rcv'.status = "SEND_FC" /\ rcv'.N_result = "N_INVALID" /\ rcvFC'.FS = CTS
        /\ rxbuf'.length = request.length /\ rcv'.length = request.length - FF_DATA
        /\ rxbuf'.segs = <<Copied(Pdu.f)>>
    BY <1>0, <1>3, <1>6 DEF FirstFrame, ResultCleared, FlowControl, RxRuntime
  <2> DEFINE g == Copied(Pdu.f)
  <2>2. g \in SegmentType /\ g.type = "FF" /\ g.data = Start(request)
    BY <1>0, <1>3, PduFrame
  <2>3. /\ PartsOf(rxbuf'.segs, request) /\ EndOf(LastOf(rxbuf'.segs)) = FF_DATA
        /\ Expected(Len(rxbuf'.segs)) = FF_DATA
    <3>1. Len(<<g>>) = 1
      OBVIOUS
    <3> HIDE DEF g
    <3> QED
      BY <2>1, <2>2, <3>1, PartsBegun DEF g
  <2>4. rxbuf'.length - rcv'.length = FF_DATA /\ rcv'.length > 0
    BY <1>2, <2>1, RequestType, Sizes
  <2>5. From(EndOf(LastOf(rxbuf.segs)))' /\ InOrder'
    <3>1. Ascending(bus) /\ Range(bus) = {}
      BY <1>2, RangeEmpty DEF Ascending
    <3>2. call = "schedule_tx" => tp.t_size = FF_DATA
      BY <1>2 DEF NotYetGranted
    <3> QED
      BY <1>1, <1>5, <2>3, <3>1, <3>2 DEF From, InOrder, Skip
  <2>6. NothingToRead' /\ Receiving'
    BY <1>1, <1>2, <2>1 DEF NothingToRead, Reading, Receiving
  <2>7. Taking'
    BY <1>1, <1>2, <1>5, <2>1, <2>3, <2>4, <2>5, <2>6, RangeEmpty DEF Taking
  <2> QED
    BY <1>1, <2>7 DEF Phase, Live, NotServed
<1>7. CASE FirstFrameTooLong
  <2>1. rcv'.status = "SEND_FC" /\ rcv'.N_result = "N_INVALID" /\ rcvFC'.FS = OVFLW
    BY <1>0, <1>7 DEF FirstFrameTooLong, ResultCleared, FlowControl, RxRuntime
  <2>2. NoStartOnBus' /\ NothingToRead'
    BY <1>1, <1>2, <2>1, RangeEmpty DEF NoStartOnBus, NothingToRead, Reading
  <2>3. Dead'
    BY <1>1, <1>5, <2>1, <2>2 DEF Dead
  <2> QED
    BY <2>3 DEF Phase
<1>8. ~FirstFrameTooShort
  BY <1>2, <1>3, RequestType, Sizes DEF FirstFrameTooShort
<1> QED
  BY <1>4, <1>6, <1>7, <1>8

LEMMA PhaseTaking ==
  ASSUME ExchangeIInv, Live, Taking, NodeTick, Rx
  PROVE  Phase'
<1>0. RcvTypeOK /\ rcv \in RxRuntime /\ rxbuf \in RxBuffer /\ rcvFC \in FCParam
  BY DEF ExchangeIInv, RcvTypeOK
<1>1. /\ UNCHANGED <<bus, request, asked, served, poll, user, inbox, call, tp, response>>
      /\ SenderQuiet' /\ Blank'
      /\ Pdu'.f = Pdu.f /\ (Pdu'.is_valid => Pdu.is_valid)
  BY RxLeaves DEF Live
<1>2. /\ Receiving /\ NothingToRead
      /\ Pdu.is_valid => NextOf(Pdu.f, request)
      /\ \A f \in Range(bus) : NextOf(f, request)
  BY DEF Taking
<1>3. ASSUME Taking' \/ Held' PROVE Phase'
  BY <1>1, <1>3 DEF Phase, Live, NotServed
<1>4. ASSUME UNCHANGED rxbuf, UNCHANGED <<rcv.length, rcv.N_result>>, Receiving' PROVE Phase'
  <2>1. InOrder'
    BY <1>1, <1>4 DEF Taking, InOrder, From
  <2>2. Taking'
    BY <1>1, <1>4, <2>1 DEF Taking, NothingToRead, Reading
  <2> QED
    BY <1>3, <2>2
<1>5. ASSUME NEW r, r # "N_OK", rcv' = RcvOK(r) PROVE Phase'
  <2>1. rcv'.status = "RCV_OK" /\ rcv'.N_result # "N_OK"
    BY <1>0, <1>5 DEF RcvOK, RxRuntime
  <2>2. AtRest' /\ NoStartOnBus' /\ NothingToRead'
    BY <1>1, <1>2, <2>1 DEF AtRest, NoStartOnBus, NothingToRead, Reading, NoStart, NextOf
  <2>3. Dead'
    BY <1>1, <2>2 DEF Dead, Live
  <2> QED
    BY <2>3 DEF Phase
<1>6. /\ rcv.status \in {"SEND_FC", "RCV_CF"} /\ (rcv.status = "SEND_FC" => rcvFC.FS = CTS)
      /\ Kind \notin {"SF", "FC"}
  <2>1. Pdu.is_valid => Pdu.f.type = "CF"
    BY <1>2 DEF NextOf
  <2> QED
    BY <1>0, <1>2, <2>1, KindOfPdu DEF Receiving
<1>7. CASE RcvUnknown \/ FlowControlUnsent \/ ConsecutiveFramePending
  <2>1. UNCHANGED <<rxbuf, rcv, rcvFC>>
    BY <1>7 DEF RcvUnknown, FlowControlUnsent, ConsecutiveFramePending
  <2> QED
    BY <1>2, <1>4, <2>1 DEF Receiving
<1>8. CASE FlowControlSent
  <2>1. rcv' = [rcv EXCEPT !.status = "RCV_CF"] /\ rxbuf' = rxbuf
    BY <1>6, <1>8 DEF FlowControlSent, InFlow
  <2>2. UNCHANGED <<rcv.length, rcv.N_result>> /\ Receiving'
    BY <1>0, <2>1 DEF Receiving, RxRuntime
  <2> QED
    BY <1>4, <2>1, <2>2
<1>9. CASE FlowControlLate \/ WrongSequenceNumber \/ ConsecutiveFrameTimeout
  BY <1>5, <1>9 DEF FlowControlLate, WrongSequenceNumber, ConsecutiveFrameTimeout
<1>10. CASE ConsecutiveFrame
  <2> DEFINE segs == rxbuf.segs
             g == Copied(Pdu.f)
             n == Len(segs)
             l == request.length
  <2>1. /\ segs \in Seq(SegmentType) /\ PartsOf(segs, request)
        /\ rxbuf.length = l /\ l \in 0 .. N_DATA_MAX /\ l \in Nat
        /\ rxbuf.length - rcv.length = Expected(n) /\ rcv.length > 0
        /\ rcv.length \in 0 .. N_DATA_MAX
    BY <1>0, RequestType DEF Taking, RxBuffer, Segments, SegmentType, RxRuntime
  <2>2. Pdu.is_valid /\ NextOf(Pdu.f, request) /\ InOrder
    BY <1>2, <1>10 DEF ConsecutiveFrame, Taking
  <2>3. /\ g \in SegmentType /\ g.type = "CF" /\ g.data = Pdu.f.data
        /\ g.data.msg = request.msg /\ g.data.pos < l /\ Skip(EndOf(LastOf(segs)), g.data.pos)
        /\ EndOf(g) = EndOf(Pdu.f)
    BY <1>0, <2>2, PduFrame DEF NextOf, InOrder
  <2>4. /\ Expected(n) = 6 + 7 * (n - 1) /\ n \in Nat /\ n >= 1
        /\ rcv.length \in Nat /\ Expected(n + 1) = 6 + 7 * n
    <3>1. n \in Nat /\ n # 0
      BY <2>1, EndInPlace
    <3>2. rcv.length \in Nat
      BY <2>1, BufferAssumption
    <3> QED
      BY <3>1, <3>2, Sizes DEF Expected
  <2>5. /\ rxbuf' = [rxbuf EXCEPT !.segs = Append(segs, g)]
        /\ ~Pdu'.is_valid
    <3>1. rcv.length # 0
      BY <2>1, <2>4
    <3>2. Consume
      BY <1>10 DEF ConsecutiveFrame
    <3> QED
      BY <1>0, <1>10, <3>1, <3>2, PduTaken DEF ConsecutiveFrame, Consume
  <2>6. rxbuf'.segs = Append(segs, g) /\ rxbuf'.length = l /\ Len(rxbuf'.segs) = n + 1
        /\ LastOf(rxbuf'.segs) = g /\ rxbuf'.segs # <<>>
    BY <1>0, <2>1, <2>3, <2>5, LastAppended DEF RxBuffer
  <2> HIDE DEF segs, g, n, l
  <2>7. CASE rcv.length <= CF_DATA
    <3>1. rcv' = [RcvOK("N_OK") EXCEPT !.CF_SN = NextSN(rcv.CF_SN)]
      BY <1>0, <1>10, <2>7 DEF ConsecutiveFrame, LastMissing, RcvOK, RxRuntime
    <3>2. rcv'.status = "RCV_OK" /\ rcv'.N_result = "N_OK"
      BY <1>0, <3>1 DEF RcvOK, RxRuntime
    <3>3. Expected(n) < l /\ l - Expected(n) <= CF_DATA
      BY <2>1, <2>4, <2>7, Sizes
    <3>4. IsAllOf(Append(segs, g), request)
      BY <2>1, <2>3, <3>3, PartsWhole DEF n, l
    <3>5. AtRest' /\ NoStartOnBus'
      BY <1>1, <1>2, <2>5, <3>2 DEF AtRest, NoStartOnBus, NoStart, NextOf
    <3>6. Held'
      BY <1>1, <1>2, <2>6, <3>2, <3>4, <3>5 DEF Held, NothingToRead, Reading, l
    <3> QED
      BY <1>3, <3>6
  <2>8. CASE ~(rcv.length <= CF_DATA)
    <3>1. /\ rcv'.length = rcv.length - CF_DATA /\ rcv'.N_result = rcv.N_result
          /\ rcv'.status \in {"SEND_FC", "RCV_CF"} /\ (rcv'.status = "SEND_FC" => rcvFC'.FS = CTS)
      BY <1>0, <1>10, <2>8
      DEF ConsecutiveFrame, LastMissing, InFlow, FlowControl, RxRuntime, FCParam
    <3>2. Receiving'
      BY <3>1 DEF Receiving
    <3>3. rxbuf'.length - rcv'.length = Expected(n + 1) /\ rcv'.length > 0
      <4>1. /\ rcv.length \in Nat /\ l \in Nat /\ n \in Nat /\ rxbuf'.length = l
            /\ l - rcv.length = 6 + 7 * (n - 1) /\ ~(rcv.length <= 7)
            /\ rcv'.length = rcv.length - 7 /\ Expected(n + 1) = 6 + 7 * n
        BY <2>1, <2>4, <2>6, <2>8, <3>1, Sizes
      <4> QED
        BY <4>1
    <3>4. PartsOf(Append(segs, g), request)
      BY <2>1, <2>3, PartsGrow
    <3>5. InOrder'
      BY <1>1, <2>2, <2>3, <2>5, <2>6 DEF InOrder, From
    <3>6. NothingToRead'
      BY <1>1, <1>2, <3>1 DEF NothingToRead, Reading
    <3>7. Taking'
      BY <1>1, <1>2, <2>5, <2>6, <3>2, <3>3, <3>4, <3>5, <3>6 DEF Taking, l
    <3> QED
      BY <1>3, <3>7
  <2> QED
    BY <2>7, <2>8
<1> QED
  BY <1>6, <1>7, <1>8, <1>9, <1>10
  DEF Rx, RxPart, RcvSingleFrame, RcvSingleFrameError, RcvMultipleFrame,
      IdleFirstFrame, FirstFrame, FirstFrameTooLong, FirstFrameTooShort,
      FinishReceive, TakeFlowCtrlFrame, InFlow

LEMMA PhaseHeld ==
  ASSUME ExchangeIInv, IdleType, Live, Held, NodeTick, Rx
  PROVE  Phase'
<1>1. /\ UNCHANGED <<bus, request, asked, served, poll, user, inbox, call, tp, response>>
      /\ SenderQuiet' /\ Blank'
  BY RxLeaves DEF Live
<1>2. AtRest' /\ rxbuf' = rxbuf /\ rcv'.N_result = rcv.N_result
  BY RestRx DEF ExchangeIInv, Held
<1>3. Held'
  BY <1>1, <1>2 DEF Held, NoStartOnBus
<1> QED
  BY <1>1, <1>3 DEF Phase, Live, NotServed

LEMMA PhaseDead ==
  ASSUME ExchangeIInv, IdleType, Dead, NodeTick, Rx
  PROVE  Phase'
<1>0. RcvTypeOK /\ rcv \in RxRuntime
  BY DEF ExchangeIInv, RcvTypeOK
<1>1. /\ UNCHANGED <<bus, request, asked, served, poll, user, inbox, call, tp, response>>
      /\ (SenderQuiet => SenderQuiet') /\ (Blank => Blank')
      /\ Pdu'.f = Pdu.f /\ (Pdu'.is_valid => Pdu.is_valid)
  BY RxLeaves
<1>2. CASE AtRest
  <2>1. AtRest' /\ rcv'.N_result = rcv.N_result
    BY <1>0, <1>2, RestRx
  <2>2. Dead'
    BY <1>1, <2>1 DEF Dead, NoStartOnBus, NothingToRead, Reading
  <2> QED
    BY <2>2 DEF Phase
<1>3. CASE /\ rcv.status = "SEND_FC" /\ rcvFC.FS = OVFLW
           /\ Pdu.is_valid => NoStart(Pdu.f)
  <2>1. \/ UNCHANGED <<rcv, rcvFC>>
        \/ rcv' = RcvOK("N_ERROR")
    <3>1. Kind # "SF"
      BY <1>0, <1>3, KindOfPdu
    <3> QED
      BY <1>3, <3>1
      DEF Rx, RxPart, RcvUnknown, RcvSingleFrame, RcvSingleFrameError, RcvMultipleFrame,
          IdleFirstFrame, FirstFrame, FirstFrameTooLong, FirstFrameTooShort,
          FlowControlSent, FlowControlLate, FlowControlUnsent, ConsecutiveFrame,
          WrongSequenceNumber, ConsecutiveFrameTimeout, ConsecutiveFramePending,
          FinishReceive, TakeFlowCtrlFrame, InFlow, CTS, OVFLW
  <2>2. \/ UNCHANGED <<rcv, rcvFC>>
        \/ rcv'.status = "RCV_OK" /\ rcv'.N_result = "N_ERROR"
    BY <1>0, <2>1 DEF RcvOK, RxRuntime
  <2>3. Dead'
    BY <1>1, <1>3, <2>2 DEF Dead, AtRest, NoStartOnBus, NothingToRead, Reading
  <2> QED
    BY <2>3 DEF Phase
<1> QED
  BY <1>2, <1>3 DEF Dead

LEMMA PhaseRx ==
  ASSUME ExchangeIInv, IdleType, Phase, NodeTick, Rx
  PROVE  Phase'
BY PhaseComing, PhaseJudged, PhaseTaking, PhaseHeld, PhaseDead DEF Phase, Live

-----------------------------------------------------------------------------
(* The callback takes a frame from the bus, or drops it.                     *)
LEMMA Notified ==
  ASSUME ExchangeIInv, RxNotification
  PROVE  /\ UNCHANGED <<rcv, rcvFC, rxbuf, txbuf, send, user>>
         /\ UNCHANGED <<tp, call, request, response, inbox, poll, asked, served>>
         /\ bus # <<>> /\ bus' = Tail(bus) /\ bus \in Seq(Frame)
         /\ Range(bus') \subseteq Range(bus) /\ Head(bus) \in Range(bus) /\ Head(bus) = bus[1]
         /\ \/ mailbox = <<>> /\ mailbox' # <<>> /\ Pdu' = [is_valid |-> TRUE, f |-> Head(bus)]
            \/ mailbox' = mailbox /\ mailbox # <<>> /\ Pdu' = Pdu
         /\ (SenderQuiet => SenderQuiet') /\ (Blank => Blank')
<1>1. bus \in Seq(Frame) /\ bus # <<>> /\ bus' = Tail(bus)
  BY DEF ExchangeIInv, TesterTypeOK, RxNotification
<1>2. /\ Range(bus') \subseteq Range(bus) /\ Head(bus) \in Range(bus) /\ Head(bus) = bus[1]
  BY <1>1, RangeTail
<1>3. UNCHANGED <<tp, call, request, response, inbox, poll, asked, served>>
  BY DEF RxNotification
<1>4. CASE mailbox = <<>>
  <2>1. /\ UNCHANGED <<rcv, rcvFC, rxbuf, txbuf, send, user>>
        /\ mailbox' = <<Head(bus)>>
    BY <1>4 DEF RxNotification, Deliver, RxFrameData, sendVars
  <2>2. Pdu' = [is_valid |-> TRUE, f |-> Head(bus)] /\ mailbox' # <<>>
    <3> DEFINE f == Head(bus)
    <3>1. mailbox' = <<f>>
      BY <2>1
    <3> HIDE DEF f
    <3>2. Pdu' = [is_valid |-> TRUE, f |-> f] /\ mailbox' # <<>>
      BY <3>1 DEF Pdu
    <3> QED
      BY <3>2 DEF f
  <2> QED
    BY <1>1, <1>2, <1>3, <1>4, <2>1, <2>2 DEF SenderQuiet, Blank
<1>5. CASE mailbox # <<>>
  <2>1. /\ UNCHANGED <<rcv, rcvFC, rxbuf, txbuf, send, user, mailbox, pdu>>
    BY <1>5 DEF RxNotification, nodeVars, vars
  <2>2. Pdu' = Pdu
    BY <2>1, PduKept
  <2> QED
    BY <1>1, <1>2, <1>3, <1>5, <2>1, <2>2 DEF SenderQuiet, Blank
<1> QED
  BY <1>4, <1>5

LEMMA PhaseNotified ==
  ASSUME ExchangeIInv, Phase, RxNotification
  PROVE  Phase'
<1>1. /\ UNCHANGED <<rcv, rcvFC, rxbuf, user>>
      /\ UNCHANGED <<tp, call, request, inbox, poll, asked, served>>
      /\ bus # <<>> /\ bus' = Tail(bus) /\ bus \in Seq(Frame)
      /\ Range(bus') \subseteq Range(bus) /\ Head(bus) \in Range(bus) /\ Head(bus) = bus[1]
      /\ (SenderQuiet => SenderQuiet') /\ (Blank => Blank')
  BY Notified
<1>2. \/ mailbox = <<>> /\ mailbox' # <<>> /\ Pdu' = [is_valid |-> TRUE, f |-> Head(bus)]
      \/ mailbox' = mailbox /\ mailbox # <<>> /\ Pdu' = Pdu
  BY Notified
<1>3. (NotYetGranted => NotYetGranted') /\ (NothingToRead => NothingToRead')
  BY <1>1 DEF NotYetGranted, NothingToRead, Reading
<1>4. CASE Live /\ Coming
  <2>1. Len(bus) = 1 /\ FirstOf(bus[1], request) /\ AtRest
    BY <1>1, <1>4 DEF Coming
  <2>2. bus' = <<>>
    BY <1>1, <2>1
  <2>3. CASE Pdu' = Pdu
    <3>1. AtRest' /\ NoStartOnBus'
      BY <1>1, <2>1, <2>2, <2>3, RangeEmpty DEF AtRest, NoStartOnBus
    <3>2. Dead'
      BY <1>1, <1>3, <1>4, <3>1 DEF Dead, Live, Coming
    <3> QED
      BY <3>2 DEF Phase
  <2>4. CASE mailbox' # <<>> /\ Pdu' = [is_valid |-> TRUE, f |-> Head(bus)]
    <3>1. Coming'
      BY <1>1, <1>3, <1>4, <2>1, <2>2, <2>4 DEF Coming, AtRest
    <3> QED
      BY <1>1, <1>4, <3>1 DEF Phase, Live, NotServed
  <2> QED
    BY <1>2, <2>3, <2>4
<1>5. CASE Live /\ Judged
  BY <1>1, <1>5 DEF Judged
<1>6. CASE Live /\ Taking
  <2>1. Ascending(Tail(bus)) /\ \A f \in Range(bus') : Skip(EndOf(Head(bus)), f.data.pos)
    BY <1>1, <1>6, AscendingTail DEF Taking, InOrder
  <2>2. InOrder /\ Taking /\ NextOf(Head(bus), request)
    BY <1>1, <1>6 DEF Taking
  <2>3. /\ (Pdu'.is_valid => NextOf(Pdu'.f, request))
        /\ \A f \in Range(bus') : NextOf(f, request)
    BY <1>1, <1>2, <2>2 DEF Taking
  <2>4. From(EndOf(LastOf(rxbuf.segs)))'
    BY <1>1, <2>2 DEF InOrder, From
  <2>5. Pdu'.is_valid => /\ From(EndOf(Pdu.f))'
                         /\ Skip(EndOf(LastOf(rxbuf.segs)), Pdu'.f.data.pos)
    <3>1. CASE Pdu' = Pdu
      BY <1>1, <2>2, <3>1 DEF InOrder, From
    <3>2. CASE Pdu' = [is_valid |-> TRUE, f |-> Head(bus)]
      BY <1>1, <2>1, <2>2, <3>2 DEF InOrder, From
    <3> QED
      BY <1>2, <3>1, <3>2
  <2>6. InOrder'
    BY <1>1, <2>1, <2>2, <2>4, <2>5 DEF InOrder
  <2>7. Taking'
    BY <1>1, <1>3, <2>2, <2>3, <2>6 DEF Taking, Receiving
  <2> QED
    BY <1>1, <1>6, <2>7 DEF Phase, Live, NotServed
<1>7. ASSUME AtRest, NoStartOnBus PROVE AtRest' /\ NoStartOnBus'
  BY <1>1, <1>2, <1>7 DEF AtRest, NoStartOnBus
<1>8. CASE Live /\ Held
  <2>1. Held'
    BY <1>1, <1>7, <1>8 DEF Held
  <2> QED
    BY <1>1, <1>8, <2>1 DEF Phase, Live, NotServed
<1>9. CASE Dead
  <2>1. Dead'
    BY <1>1, <1>2, <1>3, <1>7, <1>9 DEF Dead, NoStartOnBus
  <2> QED
    BY <2>1 DEF Phase
<1> QED
  BY <1>4, <1>5, <1>6, <1>8, <1>9 DEF Phase, Live

-----------------------------------------------------------------------------
(* The server's thread.                                                      *)
Elsewhere == {"none", "send_data", "send_length", "send_result"}

LEMMA PhaseElsewhere ==
  ASSUME Phase, UNCHANGED <<rcv, rcvFC, rxbuf, pdu, mailbox>>, UNCHANGED testerVars,
         UNCHANGED <<asked, served>>,
         user.at \in Elsewhere, user'.at \in Elsewhere,
         Live => poll' = poll /\ SenderQuiet',
         poll' # None => poll' = poll /\ (SenderQuiet => SenderQuiet')
  PROVE  Phase'
<1>1. Pdu' = Pdu /\ UNCHANGED <<tp, call, request, response, outcome, inbox, bus>>
  BY PduKept DEF testerVars
<1>2. /\ (AtRest => AtRest') /\ (NoStartOnBus => NoStartOnBus') /\ (Blank => Blank')
      /\ (NotYetGranted => NotYetGranted') /\ ~Reading /\ ~Reading'
      /\ (NothingToRead => NothingToRead')
  BY <1>1 DEF AtRest, NoStartOnBus, Blank, NotYetGranted, NothingToRead, Reading, Elsewhere
<1>3. CASE Dead
  <2>1. Dead'
    BY <1>1, <1>2, <1>3 DEF Dead
  <2> QED
    BY <2>1 DEF Phase
<1>4. ASSUME Live, Coming' \/ Judged' \/ Taking' \/ Held' PROVE Phase'
  BY <1>1, <1>2, <1>4 DEF Phase, Live, NotServed
<1>5. CASE Live /\ Coming
  <2>1. Coming'
    BY <1>1, <1>2, <1>5 DEF Coming
  <2> QED
    BY <1>4, <1>5, <2>1
<1>6. CASE Live /\ Judged
  <2>1. Judged'
    BY <1>1, <1>2, <1>6 DEF Judged
  <2> QED
    BY <1>4, <1>6, <2>1
<1>7. CASE Live /\ Taking
  <2>1. InOrder'
    BY <1>1, <1>7 DEF Taking, InOrder, From
  <2>2. Taking'
    BY <1>1, <1>2, <1>7, <2>1 DEF Taking, Receiving
  <2> QED
    BY <1>4, <1>7, <2>2
<1>8. CASE Live /\ Held
  <2>1. Held'
    BY <1>1, <1>2, <1>8 DEF Held, Elsewhere
  <2> QED
    BY <1>4, <1>8, <2>1
<1> QED
  BY <1>3, <1>5, <1>6, <1>7, <1>8 DEF Phase, Live

LEMMA PhasePoll == ASSUME ExchangeIInv, Phase, Poll PROVE Phase'
<1>0. UserTypes
  BY DEF ExchangeIInv
<1>1. PICK id \in RcvIds : BeginReceive(id)
  BY DEF Poll
<1>2. /\ UNCHANGED <<txbuf, send, rxbuf, rcv, rcvFC, pdu, mailbox>> /\ rcv.N_result = "N_OK"
      /\ user' = [user EXCEPT !.at = "rcv_data", !.n = 0] /\ user.at = "none"
      /\ UNCHANGED <<tp, call, request, response, outcome, inbox, bus, poll, asked, served>>
  BY <1>1 DEF BeginReceive, UserStep, Poll, testerVars, historyVars
<1>3. user'.at = "rcv_data" /\ user'.n = 0
  BY <1>0, <1>2 DEF UserTypes
<1>4. Live /\ Held
  BY <1>2 DEF Phase, Live, Dead, Coming, Judged, Taking, NothingToRead
<1>5. Pdu' = Pdu
  BY <1>2, PduKept
<1>6. Held'
  BY <1>2, <1>3, <1>4, <1>5 DEF Held, AtRest, NoStartOnBus
<1>7. SenderQuiet' /\ Blank'
  BY <1>2, <1>3, <1>4 DEF Live, SenderQuiet, Blank
<1> QED
  BY <1>2, <1>4, <1>6, <1>7 DEF Phase, Live, NotServed

LEMMA PhaseSendStores ==
  ASSUME ExchangeIInv, Phase, SendStores, UNCHANGED <<testerVars, poll, asked, served>>
  PROVE  Phase'
<1>0. UserTypes /\ send \in TxRuntime
  BY DEF ExchangeIInv, SendTypeOK
<1>1. UNCHANGED <<rxbuf, rcv, rcvFC, pdu, mailbox>>
  BY DEF SendStores, SendData, SendLength, SendResult, UserStep
<1>2. user.at \in Elsewhere /\ user'.at \in Elsewhere
  BY <1>0 DEF SendStores, SendData, SendLength, SendResult, Go, UserTypes, Elsewhere
<1>3. SenderQuiet => SenderQuiet'
  <2> SUFFICES ASSUME SenderQuiet PROVE SenderQuiet'
    OBVIOUS
  <2>1. SendResult
    BY DEF SendStores, SendData, SendLength, Go, SenderQuiet
  <2>2. user'.at = "none" /\ txbuf' = txbuf /\ send'.status = send.status
    BY <1>0, <2>1 DEF SendResult, Go, UserTypes, TxRuntime
  <2> QED
    BY <2>2 DEF SenderQuiet
<1>4. Live => poll' = poll /\ SenderQuiet'
  BY <1>3 DEF Live
<1> QED
  BY <1>1, <1>2, <1>3, <1>4, PhaseElsewhere

LEMMA PhaseAnswer == ASSUME ExchangeIInv, Phase, AnswerRequest PROVE Phase'
<1>0. UserTypes /\ poll # None /\ poll' = None /\ user.at = "none" /\ ~Live
  BY DEF ExchangeIInv, AnswerRequest, Live
<1>1. /\ UNCHANGED testerVars /\ UNCHANGED <<asked, served>>
  BY DEF AnswerRequest
<1>2. PICK a : IF send.status = "TX_IDLE" THEN BeginSend(a) ELSE UNCHANGED nodeVars
  BY DEF AnswerRequest
<1>3. UNCHANGED <<rxbuf, rcv, rcvFC, pdu, mailbox>> /\ user'.at \in Elsewhere
  BY <1>0, <1>2 DEF BeginSend, UserStep, nodeVars, vars, UserTypes, Elsewhere
<1> QED
  BY <1>0, <1>1, <1>3, PhaseElsewhere DEF Elsewhere

-----------------------------------------------------------------------------
(* The copy of a request that waits for the server.                          *)
LEMMA PhaseLoads ==
  ASSUME ExchangeIInv, Phase, ReceiveLoads, UNCHANGED <<testerVars, poll, asked, served>>
  PROVE  Phase'
<1>0. /\ UserTypes /\ rxbuf \in RxBuffer /\ user.n \in Nat /\ user.got.segs \in Seq(SegmentType)
      /\ rxbuf.segs \in Seq(SegmentType)
  BY DEF ExchangeIInv, RcvTypeOK, UserTypes, RxBuffer, Segments, SegmentType
<1>1. Live /\ Held
  BY DEF Phase, Live, Dead, Coming, Judged, Taking, NothingToRead, Reading, ReceiveLoads,
         ReceiveData, ReceiveLength, ReceiveClear, Go
<1>2. /\ UNCHANGED <<txbuf, send, rcv, rcvFC, pdu, mailbox>> /\ Pdu' = Pdu
      /\ UNCHANGED <<tp, call, request, response, outcome, inbox, bus, poll, asked, served>>
  BY PduKept
  DEF ReceiveLoads, ReceiveData, ReceiveLength, ReceiveClear, UserStep, testerVars
<1>3. AtRest' /\ NoStartOnBus' /\ Blank' /\ rcv'.N_result = "N_OK"
  BY <1>1, <1>2 DEF Held, AtRest, NoStartOnBus, Live, Blank
<1>4. ASSUME Held', user'.at \notin {"send_data", "send_length"} PROVE Phase'
  BY <1>1, <1>2, <1>3, <1>4 DEF Phase, Live, NotServed, SenderQuiet
<1>5. CASE ReceiveData
  <2> DEFINE segs == rxbuf.segs
             n == user.n
             had == user.got.segs
             N == Len(rxbuf.segs)
  <2>1. /\ user.at = "rcv_data" /\ rxbuf' = rxbuf /\ rxbuf.length = request.length
        /\ segs # <<>> /\ IsAllOf(segs, request) /\ segs \in Seq(SegmentType)
        /\ n > 0 => n <= N /\ Len(had) = n /\ \A i \in 1 .. n : had[i] = segs[i]
    BY <1>0, <1>1, <1>5 DEF ReceiveData, Held
  <2>2. N \in Nat /\ N >= 1 /\ DOMAIN segs = 1 .. N
    BY <2>1
  <2>3. SegmentsIn(rxbuf.length, rxbuf.segs[1].type) = N
    BY <2>1, RequestType DEF SegmentsIn, IsAllOf
  <2>4. CASE n < N
    <3> DEFINE s == segs[n + 1]
               more == IF n = 0 THEN <<s>> ELSE Append(had, s)
    <3>1. user' = [user EXCEPT !.n = n + 1, !.got.segs = more]
      BY <1>5, <2>3, <2>4 DEF ReceiveData
    <3>2. s \in SegmentType /\ n + 1 \in 1 .. N
      BY <1>0, <2>1, <2>2, <2>4
    <3>3. Len(more) = n + 1 /\ \A i \in 1 .. n + 1 : more[i] = segs[i]
      <4> HIDE DEF segs, N, s
      <4>1. CASE n = 0
        <5>1. more = <<s>> /\ Len(<<s>>) = 1 /\ <<s>>[1] = s
          BY <4>1
        <5>2. \A i \in 1 .. n + 1 : i = 1
          BY <4>1
        <5> QED
          BY <4>1, <5>1, <5>2 DEF s
      <4>2. CASE n # 0
        <5>1. /\ Len(had) = n /\ \A i \in 1 .. n : had[i] = segs[i]
              /\ more = Append(had, s) /\ had \in Seq(SegmentType) /\ n \in Nat
          BY <1>0, <2>1, <4>2
        <5> HIDE DEF n, had, more
        <5>2. /\ Len(more) = n + 1 /\ more[n + 1] = s
              /\ \A i \in 1 .. n : more[i] = had[i]
          BY <3>2, <5>1, LastAppended
        <5>3. \A i \in 1 .. n + 1 : i \in 1 .. n \/ i = n + 1
          BY <5>1
        <5> QED
          BY <5>1, <5>2, <5>3 DEF s
      <4> QED
        BY <4>1, <4>2
    <3> HIDE DEF more
    <3>4. user'.at = "rcv_data" /\ user'.n = n + 1 /\ user'.got.segs = more
      BY <1>0, <2>1, <3>1 DEF UserTypes
    <3>5. n + 1 <= N
      BY <3>2, <2>2
    <3>6. Held'
      BY <1>1, <1>2, <1>3, <2>1, <3>3, <3>4, <3>5 DEF Held
    <3> QED
      BY <1>4, <3>4, <3>6
  <2>5. CASE ~(n < N)
    <3>1. user' = [user EXCEPT !.at = "rcv_length"]
      BY <1>5, <2>3, <2>5 DEF ReceiveData
    <3>2. user'.at = "rcv_length" /\ user'.got.segs = had
      BY <1>0, <3>1 DEF UserTypes
    <3>3. n = N /\ n > 0
      BY <1>0, <2>1, <2>2, <2>5
    <3>4. had # <<>> /\ IsAllOf(had, request)
      <4>1. Len(had) = N /\ DOMAIN had = 1 .. N /\ \A i \in 1 .. N : had[i] = segs[i]
        BY <1>0, <2>1, <3>3
      <4>2. had # <<>> /\ had[1] = segs[1]
        BY <2>2, <4>1
      <4> QED
        BY <2>1, <2>2, <4>1, <4>2 DEF IsAllOf
    <3>5. Held'
      BY <1>1, <1>2, <1>3, <2>1, <3>2, <3>4 DEF Held
    <3> QED
      BY <1>4, <3>2, <3>5
  <2> QED
    BY <2>4, <2>5
<1>6. CASE ReceiveLength
  <2>1. /\ user.at = "rcv_length" /\ user'.at = "rcv_clear"
        /\ user'.got.segs = user.got.segs /\ rxbuf' = rxbuf
    BY <1>0, <1>6 DEF ReceiveLength, UserTypes
  <2>2. Held'
    BY <1>1, <1>2, <1>3, <2>1 DEF Held
  <2> QED
    BY <1>4, <2>1, <2>2
<1>7. CASE ReceiveClear
  <2>1. /\ user.at = "rcv_clear" /\ user'.at = "rcv_result"
        /\ user'.got.segs = user.got.segs /\ rxbuf'.segs = rxbuf.segs
    BY <1>0, <1>7 DEF ReceiveClear, Go, UserTypes, RxBuffer
  <2>2. Held'
    BY <1>1, <1>2, <1>3, <2>1 DEF Held
  <2> QED
    BY <1>4, <2>1, <2>2
<1> QED
  BY <1>5, <1>6, <1>7 DEF ReceiveLoads

LEMMA PhaseResult ==
  ASSUME ExchangeIInv, Phase, TakeRequest \/ TakeNothing
  PROVE  Phase' /\ Live /\ Held /\ user.at = "rcv_result"
<1>0. UserTypes /\ rcv \in RxRuntime
  BY DEF ExchangeIInv, RcvTypeOK
<1>1. /\ ReceiveResult
      /\ UNCHANGED <<tp, call, request, response, outcome, inbox, bus, asked>>
  BY DEF TakeRequest, TakeNothing, testerVars
<1>2. user.at = "rcv_result"
  BY <1>1 DEF ReceiveResult, Go
<1>3. Live /\ Held
  BY <1>2 DEF Phase, Live, Dead, Coming, Judged, Taking, NothingToRead, Reading
<1>4. /\ UNCHANGED <<txbuf, send, rcvFC, rxbuf, pdu, mailbox>> /\ Pdu' = Pdu
      /\ user'.at = "none" /\ rcv'.status = rcv.status /\ rcv'.N_result = "N_INVALID"
  BY <1>0, <1>1, PduKept DEF ReceiveResult, Go, UserStep, UserTypes, RxRuntime
<1>5. AtRest' /\ NoStartOnBus' /\ NothingToRead' /\ SenderQuiet' /\ Blank'
  BY <1>1, <1>3, <1>4
  DEF Live, Held, AtRest, NoStartOnBus, NothingToRead, Reading, SenderQuiet, Blank
<1> QED
  BY <1>2, <1>3, <1>5 DEF Phase, Dead

(* What the server takes is the last request of a tester who is not hasty,   *)
(* and it has not got it before.                                             *)
LEMMA RequestTaken ==
  ASSUME ExchangeIInv, HistoryTypes, Phase, TesterInv, TakeRequest
  PROVE  /\ Place(user.got.segs, asked) = Len(asked)
         /\ NotServed /\ asked # <<>>
<1>1. Live /\ Held /\ user.at = "rcv_result"
  BY PhaseResult
<1>2. asked # <<>> /\ NotServed /\ request = LastOf(asked)
  BY <1>1 DEF Live, TesterInv
<1>3. IsAllOf(user.got.segs, LastOf(asked)) /\ asked \in Seq(Script)
  BY <1>1, <1>2 DEF Held, HistoryTypes
<1> QED
  BY <1>2, <1>3, PlaceLast

-----------------------------------------------------------------------------
(* The tester's steps.  Most of them write nothing to the bus.               *)
LEMMA TesterLeaves ==
  ASSUME Ask \/ TesterProceeds \/ TesterTimesOut
  PROVE  /\ UNCHANGED <<rcv, rcvFC, rxbuf, pdu, mailbox, txbuf, send, user, poll, served>>
         /\ Pdu' = Pdu /\ (SenderQuiet => SenderQuiet')
         /\ UNCHANGED <<replied, crossed, overrun>>
<1>1. /\ UNCHANGED <<rcv, rcvFC, rxbuf, pdu, mailbox, txbuf, send, user, poll, served>>
      /\ UNCHANGED <<replied, crossed, overrun>>
  BY DEF Ask, TesterProceeds, TesterTimesOut, nodeVars, vars
<1> QED
  BY <1>1, PduKept DEF SenderQuiet

LEMMA PhaseSilent ==
  ASSUME Phase, TesterProceeds \/ TesterTimesOut, UNCHANGED <<request, bus>>,
         Blank => Blank', Live /\ NotYetGranted => NotYetGranted',
         call' = "schedule_tx" => call = "schedule_tx" /\ tp'.t_size = tp.t_size
  PROVE  Phase'
<1>1. /\ UNCHANGED <<rcv, rcvFC, rxbuf, mailbox, user, poll, served>>
      /\ Pdu' = Pdu /\ (SenderQuiet => SenderQuiet')
  BY TesterLeaves
<1>2. asked' = asked
  BY DEF TesterProceeds, TesterTimesOut
<1>3. CASE Live
  <2>1. SenderQuiet' /\ Blank'
    BY <1>1, <1>3 DEF Live
  <2>2. Live'
    BY <1>1, <1>2, <1>3, <2>1, LiveKept
  <2> QED
    BY <2>2 DEF Phase
<1>4. CASE Dead
  <2>1. Dead'
    BY <1>1, <1>4, DeadKept DEF Dead
  <2> QED
    BY <2>1 DEF Phase
<1> QED
  BY <1>3, <1>4 DEF Phase

(* A frame that the tester takes.                                            *)
LEMMA InboxTaken ==
  ASSUME inbox \in Seq(Frame), inbox # <<>>, inbox' = Tail(inbox)
  PROVE  /\ Range(inbox') \subseteq Range(inbox) /\ Head(inbox) \in Range(inbox)
         /\ Head(inbox) = inbox[1] /\ Head(inbox) \in Frame
         /\ inbox' \in Seq(Frame) /\ Len(inbox') = Len(inbox) - 1
         /\ \A i \in 1 .. Len(inbox') : inbox'[i] = inbox[i + 1]
BY RangeTail

LEMMA PhaseTakes ==
  ASSUME ExchangeIInv, Phase, TesterInv, TesterProceeds,
         inbox # <<>>, NEW f, f = Head(inbox), TakeFrame(f)
  PROVE  Phase'
<1>0. inbox \in Seq(Frame) /\ ~NotYetGranted
  BY DEF ExchangeIInv, TesterTypeOK, NotYetGranted
<1>1. UNCHANGED <<request, bus>> /\ inbox' = Tail(inbox)
  BY DEF TakeFrame, HandleFC, WaitSingleFrame, WaitFirstFrame, WaitOtherFrame, WaitCF,
         WaitCFError, Taken
<1>2. Range(inbox') \subseteq Range(inbox) /\ f \in Range(inbox)
  BY <1>0, <1>1, InboxTaken
<1>3. /\ call' = "schedule_tx" => call = "schedule_tx" /\ tp'.t_size = tp.t_size
      /\ Blank => Blank'
  <2>0. tp \in TpType
    BY TesterTypes DEF ExchangeIInv
  <2>1. CASE HandleFC(f)
    <3>1. call = "schedule_tx" /\ call' \in {"schedule_tx", "none"} /\ tp'.t_size = tp.t_size
      BY <2>0, <2>1 DEF HandleFC, GiveUp, Return, TpType
    <3> QED
      BY <1>2, <3>1 DEF Blank
  <2>2. CASE WaitSingleFrame(f) \/ WaitFirstFrame(f)
    <3>1. f.type # "FC" /\ call' \in {"none", "receive"}
      BY <2>2 DEF WaitSingleFrame, WaitFirstFrame, Conclude, Return
    <3> QED
      BY <1>2, <3>1 DEF Blank
  <2>3. CASE WaitOtherFrame(f)
    <3>1. call = "waitSForFF" /\ call' = "receive" /\ response' = response
      BY <2>3 DEF WaitOtherFrame
    <3> QED
      BY <1>2, <3>1 DEF Blank, TesterInv
  <2>4. CASE WaitCF(f) \/ WaitCFError(f)
    <3>1. call = "receive" /\ tp.state = "WAIT_CF" /\ call' \in {"none", "receive"}
      BY <2>4 DEF WaitCF, WaitCFError, GiveUp, Conclude, Return
    <3> QED
      BY <3>1 DEF Blank, TesterInv
  <2> QED
    BY <2>1, <2>2, <2>3, <2>4 DEF TakeFrame
<1> QED
  BY <1>0, <1>1, <1>3, PhaseSilent

(* A frame that the tester writes and that begins no message.                *)
LEMMA Written ==
  ASSUME bus \in Seq(Frame), NEW f \in Frame, bus' = Append(bus, f)
  PROVE  /\ Range(bus') = Range(bus) \cup {f}
         /\ NoStartOnBus /\ NoStart(f) => NoStartOnBus'
<1>1. Range(bus') = Range(bus) \cup {f}
  BY RangeAppend
<1> QED
  BY <1>1 DEF NoStartOnBus

LEMMA DeadWritten ==
  ASSUME bus \in Seq(Frame), NEW f \in Frame, bus' = Append(bus, f), NoStart(f),
         Dead, TesterProceeds, Blank => Blank'
  PROVE  Dead'
<1>1. /\ UNCHANGED <<rcv, rcvFC, user, poll>> /\ Pdu' = Pdu /\ (SenderQuiet => SenderQuiet')
  BY TesterLeaves
<1>2. NoStartOnBus'
  BY Written DEF Dead
<1> QED
  BY <1>1, <1>2 DEF Dead, AtRest, NothingToRead, Reading

LEMMA PhaseSendFC ==
  ASSUME ExchangeIInv, Phase, TesterInv, TesterProceeds, SendFC
  PROVE  Phase'
<1>0. bus \in Seq(Frame) /\ TesterTypeOK
  BY DEF ExchangeIInv, TesterTypeOK
<1> DEFINE f == [type |-> "FC", lo |-> CTS, b1 |-> cBS, b2 |-> cSTmin, id |-> TxId,
                 data |-> NoPayload]
<1>1. f \in Frame /\ f.type = "FC"
  <2>1. NoPayload \in Data
    BY <1>0 DEF NoPayload, Data, TesterTypeOK, Requests
  <2>2. cBS \in 0 .. 255 /\ cSTmin \in 0 .. 255
    BY TesterAssumption
  <2> QED
    BY <2>1, <2>2, TesterAssumption DEF Frame, FrameTypes, CTS
<1>2. /\ bus' = Append(bus, f) /\ UNCHANGED <<call, response, inbox>>
      /\ call = "receive" /\ tp.state = "SEND_FC"
  BY DEF SendFC, Write
<1> HIDE DEF f
<1>3. ~Blank \/ ~Live
  BY <1>2 DEF Blank, TesterInv
<1>4. Dead
  BY <1>3 DEF Phase, Live
<1>5. Dead'
  BY <1>0, <1>1, <1>2, <1>4, DeadWritten DEF NoStart, Blank
<1> QED
  BY <1>5 DEF Phase

LEMMA SkipOn == \A p, q \in Nat : Skip(p, q) => Skip(p, q + 7)
BY Sizes DEF Skip

(* A consecutive frame follows the one that was written before it.           *)
LEMMA PhaseSendCF ==
  ASSUME ExchangeIInv, Phase, TesterInv, TesterProceeds, SendCF
  PROVE  Phase'
<1>0. /\ bus \in Seq(Frame) /\ TesterTypeOK /\ tp \in TpType /\ tp.t_size \in Nat
      /\ tp.t_size \in Offsets /\ tp.SN \in Numbers
  <2>1. /\ bus \in Seq(Frame) /\ TesterTypeOK /\ tp \in TpType
    BY TesterTypes DEF ExchangeIInv
  <2>2. tp.t_size \in Offsets /\ tp.SN \in Numbers
    BY <2>1 DEF TpType
  <2>3. \A n : n \in Offsets => n \in Nat
    BY DEF Offsets
  <2> QED
    BY <2>1, <2>2, <2>3
<1> DEFINE sn == NextSN(tp.SN)
           d == [msg |-> request.msg, pos |-> tp.t_size]
           f == [type |-> "CF", lo |-> sn, b1 |-> 0, b2 |-> 0, id |-> TxId, data |-> d]
<1>1. f \in Frame /\ f.type = "CF" /\ f.data.msg = request.msg /\ f.data.pos = tp.t_size
      /\ EndOf(f) = tp.t_size + 7
  <2>1. sn \in 0 .. 15
    BY <1>0, NextNumber
  <2>2. d \in Data
    <3>1. request.msg \in Msgs /\ tp.t_size \in Offsets
      BY <1>0, RequestType
    <3> QED
      BY <3>1 DEF Data, Offsets
  <2> HIDE DEF sn
  <2>3. f \in Frame
    BY <2>1, <2>2, TesterAssumption DEF Frame, FrameTypes
  <2> QED
    BY <2>3, Sizes DEF EndOf
<1>2. /\ bus' = Append(bus, f) /\ UNCHANGED <<request, inbox>>
      /\ call = "schedule_tx" /\ tp.state = "SEND_CF" /\ call' # "receive"
      /\ call' = "schedule_tx" => tp'.t_size = tp.t_size + 7
  <2>1. bus' = Append(bus, f) /\ call = "schedule_tx" /\ tp.state = "SEND_CF"
        /\ UNCHANGED <<request, inbox>>
    BY DEF SendCF, Write
  <2>2. CASE AwaitAnswer(request)
    BY <2>1, <2>2 DEF AwaitAnswer, Return
  <2>3. CASE /\ tp' = [tp EXCEPT !.SN = sn, !.t_size = tp.t_size + CF_DATA, !.BS = NextBS,
                               !.state = NextBlockState("SEND_CF", "WAIT_FC")]
             /\ UNCHANGED <<call, response, outcome>>
    BY <1>0, <2>1, <2>3, Sizes DEF TpType
  <2> QED
    BY <2>1, <2>2, <2>3 DEF SendCF
<1>3. tp.t_size < request.length
  BY <1>2 DEF TesterInv
<1> HIDE DEF f, sn, d
<1>4. /\ UNCHANGED <<rcv, rcvFC, rxbuf, mailbox, user, poll, served>>
      /\ Pdu' = Pdu /\ (SenderQuiet => SenderQuiet')
  BY TesterLeaves
<1>5. /\ asked' = asked /\ (Blank => Blank') /\ Range(bus') = Range(bus) \cup {f}
      /\ NoStart(f) /\ (NoStartOnBus => NoStartOnBus')
  BY <1>0, <1>1, <1>2, Written DEF TesterProceeds, Blank, NoStart
<1>6. CASE Dead
  <2>1. Dead'
    BY <1>0, <1>1, <1>2, <1>5, <1>6, DeadWritten
  <2> QED
    BY <2>1 DEF Phase
<1>7. ~(Coming \/ Judged)
  BY <1>2 DEF Coming, Judged, NotYetGranted
<1>8. CASE Live /\ Held
  <2>1. Held'
    BY <1>2, <1>4, <1>5, <1>8 DEF Held, AtRest
  <2> QED
    BY <1>2, <1>4, <1>5, <1>8, <2>1 DEF Phase, Live, NotServed
<1>9. CASE Live /\ Taking
  <2>0. /\ PartsOf(rxbuf.segs, request) /\ rxbuf.segs \in Seq(SegmentType)
        /\ InOrder /\ RcvTypeOK
    BY <1>9 DEF Taking, ExchangeIInv, RcvTypeOK, RxBuffer, Segments, SegmentType
  <2>1. /\ \A g \in Range(bus) : Skip(EndOf(g), tp.t_size)
        /\ Skip(EndOf(LastOf(rxbuf.segs)), tp.t_size)
        /\ Pdu.is_valid => Skip(EndOf(Pdu.f), tp.t_size)
    BY <1>2, <2>0 DEF InOrder, From
  <2>2. /\ \A g \in Range(bus) : EndOf(g) \in Nat
        /\ EndOf(LastOf(rxbuf.segs)) \in Nat
        /\ EndOf(Pdu.f) \in Nat
    <3>1. ASSUME NEW g \in Range(bus) PROVE EndOf(g) \in Nat
      <4>1. g \in Frame
        BY <1>0, RangeIn
      <4> QED
        BY <4>1, PosType DEF Frame
    <3>2. EndOf(LastOf(rxbuf.segs)) \in Nat
      BY <2>0, EndInPlace
    <3>3. EndOf(Pdu.f) \in Nat
      BY <2>0, PduFrame, PosType
    <3> QED
      BY <3>1, <3>2, <3>3
  <2>3. /\ \A g \in Range(bus) : Skip(EndOf(g), tp.t_size + 7)
        /\ Skip(EndOf(LastOf(rxbuf.segs)), tp.t_size + 7)
        /\ Pdu.is_valid => Skip(EndOf(Pdu.f), tp.t_size + 7)
    BY <1>0, <2>1, <2>2, SkipOn
  <2>4. Ascending(bus')
    BY <1>0, <1>1, <1>2, <2>0, <2>1, AscendingAppended DEF InOrder
  <2>5. Skip(EndOf(f), tp.t_size + 7)
    BY <1>1 DEF Skip
  <2>6. call' = "schedule_tx" => \A g \in Range(bus') : Skip(EndOf(g), tp'.t_size)
    BY <1>2, <1>5, <2>3, <2>5
  <2>7. /\ From(EndOf(LastOf(rxbuf.segs)))'
        /\ Pdu'.is_valid => /\ From(EndOf(Pdu.f))'
                            /\ Skip(EndOf(LastOf(rxbuf'.segs)), Pdu'.f.data.pos)
    BY <1>1, <1>2, <1>4, <1>5, <2>0, <2>1, <2>3 DEF From, InOrder
  <2>8. InOrder'
    BY <2>4, <2>6, <2>7 DEF InOrder
  <2>9. NextOf(f, request)
    BY <1>1, <1>3 DEF NextOf
  <2>10. Taking'
    BY <1>2, <1>4, <1>5, <1>9, <2>8, <2>9 DEF Taking, Receiving, NothingToRead, Reading
  <2> QED
    BY <1>2, <1>4, <1>5, <1>9, <2>10 DEF Phase, Live, NotServed
<1> QED
  BY <1>6, <1>7, <1>8, <1>9 DEF Phase, Live

LEMMA PhaseProceeds ==
  ASSUME ExchangeIInv, Phase, TesterInv, TesterProceeds \/ TesterTimesOut
  PROVE  Phase'
<1>1. CASE TesterTimesOut \/ (TesterProceeds /\ ReceiveUnknownState)
  <2>1. call' = "none" /\ UNCHANGED <<tp, request, response, inbox, bus>>
    BY <1>1 DEF TesterTimesOut, WaitTimeout, ReceiveUnknownState, GiveUp, Return
  <2>2. (Blank => Blank') /\ (NotYetGranted => NotYetGranted')
    <3>1. rcvFC' = rcvFC
      BY TesterLeaves
    <3> QED
      BY <2>1, <3>1 DEF Blank, NotYetGranted
  <2> QED
    BY <2>1, <2>2, PhaseSilent
<1>2. CASE TesterProceeds /\ ~ReceiveUnknownState
  BY <1>2, PhaseSendCF, PhaseSendFC, PhaseTakes DEF TesterProceeds, Proceed
<1> QED
  BY <1>1, <1>2

-----------------------------------------------------------------------------
(* The next request of a tester who is not hasty finds the node at rest.     *)
LEMMA FF_DLOf == ASSUME NEW n \in Nat PROVE (n \div 256) * 256 + (n % 256) = n
OBVIOUS

LEMMA Alone == ASSUME NEW f PROVE Append(<<>>, f) = <<f>> /\ Len(<<f>>) = 1 /\ <<f>>[1] = f
OBVIOUS

LEMMA FirstWritten ==
  ASSUME TesterTypeOK, NEW m \in Requests, bus = <<>>, Transmit(m)
  PROVE  /\ Len(bus') = 1 /\ FirstOf(bus'[1], m) /\ request' = m /\ inbox' = inbox
         /\ \/ /\ call' = "schedule_tx" /\ tp'.state = "WAIT_FC" /\ tp'.t_size = FF_DATA
               /\ m.length >= CF_DATA
            \/ call' = "none"
            \/ call' = "waitSForFF" /\ m.length < CF_DATA /\ response' = <<>> /\ tp' = tp
<1>0. m.length \in Nat /\ tp \in TpType
  <2>1. m.length \in 1 .. 4095
    BY DEF Requests
  <2> QED
    BY <2>1, LengthType, TesterTypes
<1> DEFINE d == [msg |-> m.msg, pos |-> 0]
<1>1. CASE TransmitSingle(m)
  <2> DEFINE f == [type |-> "SF", lo |-> m.length, b1 |-> 0, b2 |-> 0, id |-> TxId,
                   data |-> d]
  <2>1. /\ bus' = Append(<<>>, f) /\ m.length < CF_DATA /\ request' = m
        /\ UNCHANGED <<tp, inbox>> /\ AwaitAnswer(m)
    BY <1>1 DEF TransmitSingle, Write
  <2>2. f.data = Start(m) /\ f.type = "SF" /\ f.lo = m.length
    BY DEF Start
  <2> HIDE DEF f
  <2>3. Len(bus') = 1 /\ bus'[1] = f
    BY <2>1, Alone
  <2>4. FirstOf(bus'[1], m)
    BY <2>1, <2>2, <2>3 DEF FirstOf
  <2> QED
    BY <2>1, <2>3, <2>4 DEF AwaitAnswer, Return
<1>2. CASE TransmitFirst(m)
  <2> DEFINE f == [type |-> "FF", lo |-> m.length \div 256, b1 |-> m.length % 256, b2 |-> 0,
                   id |-> TxId, data |-> d]
  <2>1. /\ bus' = Append(<<>>, f) /\ m.length >= CF_DATA /\ request' = m
        /\ UNCHANGED inbox /\ call' = "schedule_tx"
        /\ tp' = [tp EXCEPT !.SN = 0, !.t_size = FF_DATA, !.state = "WAIT_FC"]
    BY <1>2 DEF TransmitFirst, Write
  <2>2. f.data = Start(m) /\ f.type = "FF"
    BY DEF Start
  <2>3. FF_DL(f) = m.length
    BY <1>0, FF_DLOf DEF FF_DL
  <2> HIDE DEF f
  <2>4. Len(bus') = 1 /\ bus'[1] = f
    BY <2>1, Alone
  <2>5. ~(m.length < CF_DATA)
    BY <1>0, <2>1, Sizes
  <2>6. FirstOf(bus'[1], m)
    BY <2>2, <2>3, <2>4, <2>5 DEF FirstOf
  <2>7. tp'.state = "WAIT_FC" /\ tp'.t_size = FF_DATA
    BY <1>0, <2>1 DEF TpType
  <2> QED
    BY <2>1, <2>4, <2>6, <2>7
<1> QED
  BY <1>1, <1>2 DEF Transmit

LEMMA PhaseAsk ==
  ASSUME ExchangeIInv, HistoryTypes, SenderInv, Phase, TesterInv, ServedInv, Ask, ~hasty'
  PROVE  Phase' /\ TesterInv' /\ ServedInv' /\ SenderQuiet' /\ Blank'
<1>0. TesterTypeOK /\ asked \in Seq(Script) /\ Len(asked) \in Nat /\ txbuf \in TxBuffer
  BY DEF ExchangeIInv, HistoryTypes, SendTypeOK
<1>1. PICK m \in Script : Transmit(m) /\ asked' = Append(asked, m)
  BY DEF Ask
<1>2. ~Unsettled
  BY DEF Ask
<1>3. /\ inbox = <<>> /\ bus = <<>> /\ mailbox = <<>> /\ user.at = "none" /\ poll = None
      /\ txbuf.length = 0 \/ send.status = "SEND_OK"
      /\ rcv.status \in {"RX_IDLE", "RCV_OK"} /\ rcv.N_result # "N_OK" /\ ~rcvFC.is_valid
  BY <1>2 DEF Unsettled
<1>4. m \in Requests
  BY ScriptAssumption
<1>5. /\ Len(bus') = 1 /\ FirstOf(bus'[1], m) /\ request' = m /\ inbox' = inbox
      /\ \/ /\ call' = "schedule_tx" /\ tp'.state = "WAIT_FC" /\ tp'.t_size = FF_DATA
            /\ m.length >= CF_DATA
         \/ call' = "none"
         \/ call' = "waitSForFF" /\ m.length < CF_DATA /\ response' = <<>> /\ tp' = tp
  BY <1>0, <1>1, <1>3, <1>4, FirstWritten
<1>6. /\ UNCHANGED <<rcv, rcvFC, rxbuf, pdu, mailbox, txbuf, send, user, poll, served>>
      /\ Pdu' = Pdu
  BY TesterLeaves
<1>7. asked' # <<>> /\ Len(asked') = Len(asked) + 1 /\ LastOf(asked') = m
  BY <1>0, <1>1, LastAppended
<1>8. AtRest
  <2>1. Dead
    BY <1>3 DEF Phase, Live, Coming, Judged, Taking, Held, Receiving
  <2> QED
    BY <1>3, <2>1 DEF Dead
<1>9. NothingToRead'
  BY <1>3, <1>6 DEF NothingToRead, Reading
<1>10. NotYetGranted'
  BY <1>3, <1>5, <1>6 DEF NotYetGranted
<1>11. Coming'
  BY <1>5, <1>6, <1>8, <1>9, <1>10 DEF Coming, AtRest
<1>12. /\ served' \in Seq(Nat)
       /\ \A i \in 1 .. Len(served') : served'[i] < Len(asked') /\ served'[i] <= Len(asked')
  <2>1. ASSUME NEW i \in 1 .. Len(served) PROVE served[i] <= Len(asked) /\ served[i] \in Nat
    BY DEF ServedInv
  <2> QED
    BY <1>0, <1>6, <1>7, <2>1 DEF ServedInv
<1>13. SenderQuiet' /\ Blank'
  BY <1>3, <1>5, <1>6, RangeEmpty DEF SenderQuiet, Blank
<1>14. Phase'
  BY <1>3, <1>6, <1>7, <1>11, <1>12, <1>13 DEF Phase, Live, NotServed
<1>15. TesterInv'
  <2>1. ~Sending'
    <3>1. txbuf.length \in 0 .. N_DATA_MAX
      BY <1>0 DEF TxBuffer
    <3>2. ~Sending
      BY <1>3, <3>1, Sizes DEF Sending, SenderInv, LongMessage
    <3> QED
      BY <1>6, <3>2 DEF Sending
  <2>2. m.length >= CF_DATA => FF_DATA <= FF_DATA /\ FF_DATA < m.length
    <3>1. m.length \in Nat
      BY <1>4, LengthType DEF Requests
    <3> QED
      BY <3>1, Sizes
  <2> QED
    BY <1>3, <1>5, <1>6, <1>7, <2>1, <2>2 DEF TesterInv
<1> QED
  BY <1>12, <1>13, <1>14, <1>15 DEF ServedInv

-----------------------------------------------------------------------------
(* Frames of the node's machine that sends.                                  *)
LEMMA TxCases ==
  ASSUME SendTypeOK, LongMessage, TxPart
  PROVE  \/ /\ out' = <<>> /\ (Sending' => Sending /\ send'.pos = send.pos)
            /\ txbuf'.length # 0 /\ send'.status \in {"TX_IDLE", "SEND_FF"}
                 => txbuf.length # 0 /\ send.status \in {"TX_IDLE", "SEND_FF"}
         \/ /\ SendSingleFrame /\ ~Sending' /\ txbuf.length # 0 /\ txbuf'.length = 0
            /\ out' # <<>> /\ out'[1].type = "SF"
            /\ out'[1].data = [msg |-> txbuf.msg, pos |-> 0]
         \/ /\ SendFirstFrame /\ txbuf.length # 0 /\ send'.status = "WAIT_FC"
            /\ send'.pos = FF_DATA /\ txbuf' = txbuf /\ txbuf.length >= CAN_FRAME_SIZE
            /\ out' # <<>> /\ out'[1].type = "FF" /\ FF_DL(out'[1]) = txbuf.length
            /\ out'[1].data = [msg |-> txbuf.msg, pos |-> 0]
         \/ /\ SendConsecutiveFrame /\ txbuf.length # 0 /\ send.status = "SEND_CF"
            /\ send'.status \in {"SEND_OK", "WAIT_FC", "SEND_CF"} /\ txbuf' = txbuf
            /\ Sending' => send'.pos = send.pos + CF_DATA
            /\ out' # <<>> /\ out'[1].type = "CF"
            /\ out'[1].data = [msg |-> txbuf.msg, pos |-> send.pos]
<1>0. send \in TxRuntime /\ txbuf \in TxBuffer /\ txbuf.length \in 0 .. N_DATA_MAX
  BY DEF SendTypeOK, TxBuffer
<1>1. CASE TxNothing
  BY <1>1 DEF TxNothing, sendVars, Sending
<1>2. CASE SendSingleFrame
  <2>1. txbuf.length # 0 /\ ~(txbuf.length >= CAN_FRAME_SIZE)
    BY <1>0, <1>2, Sizes DEF SendSingleFrame
  <2>2. send.status = "TX_IDLE" /\ send'.status = "TX_IDLE" /\ txbuf'.length = 0
    BY <1>0, <1>2, <2>1 DEF SendSingleFrame, LongMessage, TxRuntime, TxBuffer
  <2>3. /\ out' # <<>> /\ out'[1].type = "SF"
        /\ out'[1].data = [msg |-> txbuf.msg, pos |-> 0]
    BY <1>2 DEF SendSingleFrame
  <2> QED
    BY <1>2, <2>1, <2>2, <2>3 DEF Sending
<1>3. CASE SendFirstFrame
  <2>1. txbuf.length # 0 /\ txbuf.length >= CAN_FRAME_SIZE /\ txbuf' = txbuf
    BY <1>0, <1>3, Sizes DEF SendFirstFrame, InState
  <2>2. send'.status = "WAIT_FC" /\ send'.pos = FF_DATA
    BY <1>0, <1>3 DEF SendFirstFrame, TxRuntime
  <2>3. /\ out' # <<>> /\ out'[1].type = "FF" /\ out'[1].lo = txbuf.length \div 256
        /\ out'[1].b1 = txbuf.length % 256
        /\ out'[1].data = [msg |-> txbuf.msg, pos |-> 0]
    BY <1>3 DEF SendFirstFrame
  <2>4. FF_DL(out'[1]) = txbuf.length
    <3>1. txbuf.length \in Nat
      BY <1>0, BufferAssumption
    <3> QED
      BY <2>3, <3>1, FF_DLOf DEF FF_DL
  <2> QED
    BY <1>3, <2>1, <2>2, <2>3, <2>4
<1>4. CASE SendConsecutiveFrame
  <2>1. txbuf.length # 0 /\ txbuf' = txbuf /\ send.status = "SEND_CF"
    BY <1>0, <1>4, Sizes DEF SendConsecutiveFrame, InState
  <2>2. /\ send'.status \in {"SEND_OK", "WAIT_FC", "SEND_CF"}
        /\ Sending' => send'.pos = send.pos + CF_DATA
    BY <1>0, <1>4, <2>1 DEF SendConsecutiveFrame, TxRuntime, Sending
  <2>3. /\ out' # <<>> /\ out'[1].type = "CF"
        /\ out'[1].data = [msg |-> txbuf.msg, pos |-> send.pos]
    BY <1>4 DEF SendConsecutiveFrame, Segment
  <2> QED
    BY <1>4, <2>1, <2>2, <2>3
<1>5. CASE FinishSend
  <2>1. txbuf'.length = 0 /\ send'.status = "TX_IDLE" /\ out' = <<>>
    BY <1>0, <1>5 DEF FinishSend, TxRuntime, TxBuffer
  <2> QED
    BY <2>1 DEF Sending
<1>6. CASE StartMultipleFrame \/ FlowControlPending \/ FlowControlArrived
            \/ FlowControlTimeout \/ SeparationWait \/ FlowWait \/ FlowOverflow \/ FlowReserved
  <2>1. out' = <<>> /\ txbuf' = txbuf /\ txbuf.length # 0
    BY <1>0, <1>6, Sizes
    DEF StartMultipleFrame, FlowControlPending, FlowControlArrived, FlowControlTimeout,
        SeparationWait, FlowWait, FlowOverflow, FlowReserved, InState, sendVars
  <2>2. \/ send.status = "TX_IDLE" /\ send'.status = "SEND_FF"
        \/ send'.status = send.status
        \/ send.status = "WAIT_FC" /\ send'.status \in {"SEND_CF", "SEND_OK"}
        \/ send.status = "SEND_CF" /\ send'.status = "SEND_OK"
    BY <1>0, <1>6
    DEF StartMultipleFrame, FlowControlPending, FlowControlArrived, FlowControlTimeout,
        SeparationWait, FlowWait, FlowOverflow, FlowReserved, InState, sendVars, TxRuntime
  <2>3. send'.pos = send.pos
    BY <1>0, <1>6
    DEF StartMultipleFrame, FlowControlPending, FlowControlArrived, FlowControlTimeout,
        SeparationWait, FlowWait, FlowOverflow, FlowReserved, sendVars, TxRuntime
  <2> QED
    BY <2>1, <2>2, <2>3 DEF Sending
<1> QED
  BY <1>1, <1>2, <1>3, <1>4, <1>5, <1>6 DEF TxPart, SendMultipleFrame

(* Where nothing is to be said of an answer, a tick does not change that.    *)
LEMMA QuietTick ==
  ASSUME ExchangeIInv, ExchangeIInv', SenderInv, NodeTick, SenderQuiet, Blank
  PROVE  SenderQuiet' /\ Blank'
<1>0. SendTypeOK /\ LongMessage /\ inbox \in Seq(Frame)
  BY DEF ExchangeIInv, SenderInv, TesterTypeOK
<1>1. UNCHANGED <<user, call, response>>
  BY DEF NodeTick
<1>2. CASE Tx
  <2>1. out' = <<>> /\ SenderQuiet'
    BY <1>0, <1>1, <1>2, QuietTx DEF Tx
  <2> QED
    BY <1>1, <2>1 DEF Blank, NodeTick
<1>3. CASE NoFlowCtrlFrame
  BY <1>1, <1>3 DEF NoFlowCtrlFrame, NodeTick, SenderQuiet, Blank, sendVars
<1>4. CASE SendFlowCtrlFrame
  <2>1. out' # <<>> /\ out'[1] \in Frame /\ out'[1].type = "FC"
    BY <1>4, FlowControlFrame
  <2>2. inbox' = inbox \/ inbox' = Append(inbox, out'[1])
    BY <2>1 DEF NodeTick, Queued
  <2>3. Blank'
    BY <1>0, <1>1, <2>1, <2>2, BlankAppended
  <2> QED
    BY <1>1, <1>4, <2>3 DEF SendFlowCtrlFrame, SenderQuiet, sendVars
<1>5. CASE Rx
  BY <1>5, RxLeaves
<1>6. CASE TimerCtrl
  BY <1>1, <1>6 DEF TimerCtrl, SendTimerCtrl, NodeTick, SenderQuiet, Blank
<1> QED
  BY <1>2, <1>3, <1>4, <1>5, <1>6 DEF NodeTick, MainNetworkLayer, Fc

(* Flow control is asked for only for a message that needs it.               *)
LEMMA GrantKept ==
  ASSUME ExchangeIInv, Phase, NodeTick, request.length < CF_DATA, ~rcvFC.is_valid
  PROVE  ~rcvFC'.is_valid
<1>0. rcvFC \in FCParam /\ rcv.status \notin {"RCV_FF", "RCV_CF"}
  <2>1. rcvFC \in FCParam
    BY DEF ExchangeIInv, RcvTypeOK
  <2>2. ~(request.length >= CF_DATA)
    BY RequestType, Sizes
  <2> QED
    BY <2>1, <2>2 DEF Phase, Live, Dead, Coming, Judged, Taking, Held, AtRest
<1>1. CASE Rx
  BY <1>0, <1>1
  DEF Rx, RxPart, RcvUnknown, RcvSingleFrame, RcvSingleFrameError, RcvMultipleFrame,
      IdleFirstFrame, FirstFrame, FirstFrameTooLong, FirstFrameTooShort,
      FlowControlSent, FlowControlLate, FlowControlUnsent, ConsecutiveFrame,
      WrongSequenceNumber, ConsecutiveFrameTimeout, ConsecutiveFramePending,
      FinishReceive, TakeFlowCtrlFrame, InFlow, FCParam
<1>2. CASE ~Rx
  BY <1>2
  DEF NodeTick, MainNetworkLayer, Tx, Fc, SendFlowCtrlFrame, NoFlowCtrlFrame, TimerCtrl,
      RcvTimerCtrl, rcvVars
<1> QED
  BY <1>1, <1>2

-----------------------------------------------------------------------------
(* The calls of the tester who is not hasty.                                 *)
LEMMA FirstStays ==
  ASSUME NEW S, NEW s \in Seq(S), s # <<>>, NEW x
  PROVE  Append(s, x) # <<>> /\ Append(s, x)[1] = s[1]
OBVIOUS

LEMMA OffsetNat == \A n : n \in Offsets => n \in Nat
BY DEF Offsets

LEMMA Received ==
  ASSUME ExchangeIInv, NodeTick
  PROVE  /\ out' = <<>> => inbox' = inbox
         /\ out' # <<>> /\ Len(inbox) = CAN_BUS_PDU_NUM => inbox' = inbox /\ overrun'
         /\ Len(inbox) = CAN_BUS_PDU_NUM => inbox # <<>>
         /\ out' # <<>> /\ Len(inbox) # CAN_BUS_PDU_NUM => inbox' = Append(inbox, out'[1])
         /\ inbox \in Seq(Frame) /\ UNCHANGED <<tp, call, request, response, outcome>>
         /\ UNCHANGED <<asked, served, replied, got, poll, user, hasty, crossed>>
<1>1. inbox \in Seq(Frame)
  BY DEF ExchangeIInv, TesterTypeOK
<1>2. Len(inbox) = CAN_BUS_PDU_NUM => inbox # <<>>
  BY <1>1, TesterAssumption
<1>3. /\ UNCHANGED <<tp, call, request, response, outcome>>
      /\ UNCHANGED <<asked, served, replied, got, poll, user, hasty, crossed>>
  BY DEF NodeTick
<1>4. out' # <<>> /\ Len(inbox) = CAN_BUS_PDU_NUM => overrun'
  BY DEF NodeTick
<1> QED
  BY <1>1, <1>2, <1>3, <1>4 DEF NodeTick, Queued

LEMMA TesterTick ==
  ASSUME ExchangeIInv, SenderInv, Phase, TesterInv, NodeTick
  PROVE  TesterInv'
<1>1. UNCHANGED <<tp, call, request, response, asked>> /\ inbox \in Seq(Frame)
  BY Received
<1>2. SUFFICES ASSUME call = "waitSForFF", tp.state # "IDLE"
               PROVE  /\ ~rcvFC'.is_valid
                      /\ IF inbox' = <<>> THEN ~Sending' ELSE inbox'[1].type \in {"SF", "FF"}
  BY <1>1 DEF TesterInv
<1>3. /\ request.length < CF_DATA /\ ~rcvFC.is_valid
      /\ IF inbox = <<>> THEN ~Sending ELSE inbox[1].type \in {"SF", "FF"}
  BY <1>2 DEF TesterInv
<1>4. ~rcvFC'.is_valid
  BY <1>3, GrantKept
<1>5. CASE inbox # <<>>
  <2>1. inbox' # <<>> /\ inbox'[1] = inbox[1]
    <3>1. CASE inbox' = inbox
      BY <1>5, <3>1
    <3>2. CASE out' # <<>> /\ inbox' = Append(inbox, out'[1])
      BY <1>1, <1>5, <3>2, FirstStays
    <3>3. inbox' = inbox \/ (out' # <<>> /\ inbox' = Append(inbox, out'[1]))
      BY Received
    <3> QED
      BY <3>1, <3>2, <3>3
  <2> QED
    BY <1>3, <1>4, <1>5, <2>1
<1>6. CASE inbox = <<>>
  <2>1. Len(inbox) # CAN_BUS_PDU_NUM
    BY <1>6, Received
  <2>2. CASE Tx
    <3>1. SendTypeOK /\ LongMessage /\ TxPart
      BY <2>2 DEF ExchangeIInv, SenderInv, Tx
    <3>2. \/ out' = <<>> /\ ~Sending'
          \/ out' # <<>> /\ out'[1].type \in {"SF", "FF"}
      BY <1>3, <1>6, <3>1, TxCases DEF Sending
    <3>3. CASE out' = <<>> /\ ~Sending'
      BY <1>4, <1>6, <3>3, Received
    <3>4. CASE out' # <<>> /\ out'[1].type \in {"SF", "FF"}
      <4> DEFINE f == out'[1]
      <4>1. inbox' = Append(<<>>, f)
        BY <1>6, <2>1, <3>4, Received
      <4>2. f.type \in {"SF", "FF"}
        BY <3>4
      <4> HIDE DEF f
      <4>3. inbox' # <<>> /\ inbox'[1] = f
        BY <4>1, Alone
      <4> QED
        BY <1>4, <4>2, <4>3
    <3> QED
      BY <3>2, <3>3, <3>4
  <2>3. CASE ~Tx
    <3>1. /\ out' = <<>> /\ send'.status = send.status
      <4>1. send \in TxRuntime
        BY DEF ExchangeIInv, SendTypeOK
      <4> QED
        BY <1>3, <2>3, <4>1
        DEF NodeTick, MainNetworkLayer, Fc, SendFlowCtrlFrame, NoFlowCtrlFrame, Rx, TimerCtrl,
            SendTimerCtrl, RcvFlowCtrlFrame, sendVars, TxRuntime
    <3>2. inbox' = <<>> /\ ~Sending'
      BY <1>3, <1>6, <3>1, Received DEF Sending
    <3> QED
      BY <1>4, <3>2
  <2> QED
    BY <2>2, <2>3
<1> QED
  BY <1>5, <1>6

(* The user and the callback touch nothing of it.                            *)
LEMMA TesterOthers ==
  ASSUME ExchangeIInv, TesterInv,
         RxNotification \/ Poll \/ InCall \/ TakeRequest \/ TakeNothing \/ AnswerRequest
  PROVE  TesterInv'
<1>0. send \in TxRuntime
  BY DEF ExchangeIInv, SendTypeOK
<1>1. /\ UNCHANGED <<tp, call, request, response, asked, inbox>>
      /\ rcvFC' = rcvFC /\ send'.status = send.status
  <2>1. CASE RxNotification
    BY <2>1, Notified
  <2>2. CASE ~RxNotification
    BY <1>0, <2>2
    DEF Poll, InCall, TakeRequest, TakeNothing, AnswerRequest, testerVars, historyVars,
        BeginReceive, SendStores, SendData, SendLength, SendResult, ReceiveLoads, ReceiveData,
        ReceiveLength, ReceiveClear, ReceiveResult, BeginSend, UserStep, nodeVars, vars, TxRuntime
  <2> QED
    BY <2>1, <2>2
<1> QED
  BY <1>1 DEF TesterInv, Sending

LEMMA OffsetOn == \A p, l \in Nat : ~(l - p <= 7) /\ 6 <= p => 6 <= p + 7 /\ p + 7 < l
OBVIOUS

LEMMA TesterProceedsInv ==
  ASSUME ExchangeIInv, TesterInv, TesterProceeds \/ TesterTimesOut
  PROVE  TesterInv'
<1>0. /\ tp \in TpType /\ inbox \in Seq(Frame) /\ response \in Seq(SegmentType)
      /\ asked' = asked
  BY TesterTypes DEF ExchangeIInv, TesterProceeds, TesterTimesOut
<1>1. request' = request
  BY DEF TesterProceeds, TesterTimesOut, WaitTimeout, Proceed, SendCF, SendFC,
         ReceiveUnknownState, TakeFrame, HandleFC, WaitSingleFrame, WaitFirstFrame,
         WaitOtherFrame, WaitCF, WaitCFError
<1>2. CASE call' = "none"
  BY <1>0, <1>1, <1>2 DEF TesterInv
<1>3. CASE SendCF
  <2>1. call = "schedule_tx"
    BY <1>3 DEF SendCF
  <2>2. CASE /\ tp'.state = "IDLE" /\ AwaitAnswer(request)
    <3>1. call' \in {"none", "waitSForFF"} /\ response' = <<>>
      BY <2>2 DEF AwaitAnswer, Return
    <3> QED
      BY <1>0, <1>1, <2>1, <2>2, <3>1 DEF TesterInv
  <2>3. CASE /\ tp' = [tp EXCEPT !.SN = NextSN(tp.SN), !.t_size = tp.t_size + CF_DATA,
                                 !.BS = NextBS, !.state = NextBlockState("SEND_CF", "WAIT_FC")]
             /\ UNCHANGED <<call, response, outcome>>
             /\ ~(request.length - tp.t_size <= CF_DATA)
    <3>1. tp'.t_size = tp.t_size + 7 /\ tp'.state \in {"WAIT_FC", "SEND_CF"}
      BY <1>0, <2>3, Sizes DEF TpType, NextBlockState
    <3>2. tp.t_size \in Nat
      <4>1. tp.t_size \in Offsets
        BY <1>0 DEF TpType
      <4> QED
        BY <4>1, OffsetNat
    <3>3. 6 <= tp.t_size /\ request.length \in Nat /\ ~(request.length - tp.t_size <= 7)
      BY <2>1, <2>3, RequestType, Sizes DEF TesterInv
    <3>4. 6 <= tp.t_size + 7 /\ tp.t_size + 7 < request.length
      BY <3>2, <3>3, OffsetOn
    <3> QED
      BY <1>0, <1>1, <2>1, <2>3, <3>1, <3>4, Sizes DEF TesterInv
  <2>4. CASE request.length - tp.t_size <= CF_DATA
    <3>1. /\ tp' = [tp EXCEPT !.SN = NextSN(tp.SN), !.t_size = request.length, !.state = "IDLE"]
          /\ AwaitAnswer(request)
      BY <1>3, <2>4 DEF SendCF
    <3>2. tp'.state = "IDLE"
      BY <1>0, <3>1 DEF TpType
    <3> QED
      BY <2>2, <3>1, <3>2
  <2>5. CASE ~(request.length - tp.t_size <= CF_DATA)
    BY <1>3, <2>3, <2>5 DEF SendCF
  <2> QED
    BY <2>4, <2>5
<1>4. CASE SendFC
  <2>1. /\ call = "receive" /\ tp.state = "SEND_FC" /\ UNCHANGED <<call, response, inbox>>
    BY <1>4 DEF SendFC
  <2> QED
    BY <1>0, <1>1, <2>1 DEF TesterInv
<1>5. CASE inbox # <<>> /\ TakeFrame(Head(inbox)) /\ call' # "none"
  <2> DEFINE f == Head(inbox)
  <2>1. f = inbox[1]
    BY <1>0, <1>5, RangeTail
  <2> HIDE DEF f
  <2>2. TakeFrame(f)
    BY <1>5 DEF f
  <2>3. CASE HandleFC(f)
    <3>1. call = "schedule_tx" /\ call' = call /\ response' = response /\ tp'.t_size = tp.t_size
          /\ tp'.state \in {"WAIT_FC", "SEND_CF"}
      BY <1>0, <1>5, <2>3 DEF HandleFC, GiveUp, Return, TpType
    <3> QED
      BY <1>0, <1>1, <3>1 DEF TesterInv
  <2>4. CASE WaitFirstFrame(f)
    <3> DEFINE s == Part(f)
    <3>1. call = "waitSForFF" /\ call' = "receive" /\ response' = <<s>> /\ s.type = "FF"
      BY <2>4 DEF WaitFirstFrame, Part
    <3> HIDE DEF s
    <3>2. response' # <<>> /\ response'[1].type = "FF"
      BY <3>1
    <3> QED
      BY <1>0, <1>1, <3>1, <3>2 DEF TesterInv
  <2>5. CASE WaitOtherFrame(f)
    <3>1. /\ call = "waitSForFF" /\ call' = "receive" /\ response' = response /\ tp' = tp
          /\ f.type \notin {"SF", "FF"}
      BY <2>5 DEF WaitOtherFrame
    <3>2. tp.state = "IDLE" /\ response = <<>>
      BY <1>5, <2>1, <3>1 DEF TesterInv
    <3> QED
      BY <1>0, <1>1, <3>1, <3>2 DEF TesterInv
  <2>6. CASE WaitCF(f)
    <3> DEFINE s == Part(f)
    <3>1. call = "receive" /\ call' = "receive" /\ tp.state = "WAIT_CF"
          /\ response' = Append(response, s)
      BY <1>5, <2>6 DEF WaitCF, Conclude, Return
    <3> HIDE DEF s
    <3>2. response # <<>> /\ response[1].type = "FF"
      BY <3>1 DEF TesterInv
    <3>3. response' # <<>> /\ response'[1] = response[1]
      BY <1>0, <3>1, <3>2
    <3> QED
      BY <1>0, <1>1, <3>1, <3>2, <3>3 DEF TesterInv
  <2>7. ~WaitSingleFrame(f) /\ ~WaitCFError(f)
    BY <1>5 DEF WaitSingleFrame, WaitCFError, GiveUp, Conclude, Return
  <2> QED
    BY <2>2, <2>3, <2>4, <2>5, <2>6, <2>7 DEF TakeFrame
<1> QED
  BY <1>2, <1>3, <1>4, <1>5
  DEF TesterProceeds, TesterTimesOut, WaitTimeout, ReceiveUnknownState, Proceed, GiveUp, Return

-----------------------------------------------------------------------------
(* The places of the requests that the server got.                           *)
LEMMA ServedTake ==
  ASSUME ExchangeIInv, HistoryTypes, Phase, TesterInv, ServedInv, ~hasty, TakeRequest
  PROVE  ServedInv' /\ served' = Append(served, Len(asked))
<1>1. Place(user.got.segs, asked) = Len(asked) /\ asked \in Seq(Script) /\ Len(asked) \in Nat
  BY RequestTaken DEF HistoryTypes
<1>2. served' = Append(served, Len(asked)) /\ asked' = asked
  BY <1>1 DEF TakeRequest
<1>3. served \in Seq(Nat) /\ \A i \in 1 .. Len(served) : served[i] <= Len(asked)
  BY DEF ServedInv
<1> DEFINE l == Len(asked)
<1>4. ASSUME NEW i \in 1 .. Len(served') PROVE served'[i] <= l
  <2> HIDE DEF l
  <2>1. l \in Nat /\ served' = Append(served, l)
    BY <1>1, <1>2 DEF l
  <2>2. i \in 1 .. Len(served) \/ i = Len(served) + 1
    BY <1>3, <1>4, <2>1
  <2>3. CASE i = Len(served) + 1
    BY <1>3, <2>1, <2>3
  <2>4. CASE i \in 1 .. Len(served)
    <3>1. served'[i] = served[i]
      BY <1>3, <2>1, <2>4
    <3> QED
      BY <1>3, <2>4, <3>1 DEF l
  <2> QED
    BY <2>2, <2>3, <2>4
<1> QED
  BY <1>1, <1>2, <1>3, <1>4 DEF ServedInv

(* A server that has just taken the last request crosses no answer.          *)
LEMMA AnswerAlone ==
  ASSUME ExchangeIInv, Phase, AnswerRequest
  PROVE  /\ SenderQuiet /\ Blank
         /\ send.status = "TX_IDLE" => txbuf.length = 0
<1>1. SenderQuiet /\ Blank
  BY DEF Phase, Live, Dead, AnswerRequest
<1> QED
  BY <1>1 DEF SenderQuiet

-----------------------------------------------------------------------------
(* One answer at a time is on its way to the tester.                         *)
LEMMA OneTick ==
  ASSUME ExchangeIInv, ExchangeIInv', SenderInv, OneAnswer, NodeTick
  PROVE  OneAnswer'
<1>0. /\ UNCHANGED <<tp, call, request, response, replied, user>> /\ inbox \in Seq(Frame)
      /\ \A f \in Range(inbox) : f.type # "FC" =>
           /\ replied # <<>> /\ f.data.msg = LastOf(replied).msg
           /\ f.type = "FF" => FF_DL(f) = LastOf(replied).length
           /\ f.type = "CF" => f.data.pos < LastOf(replied).length
  BY Received DEF OneAnswer
<1>1. ASSUME inbox' = inbox,
             txbuf'.length # 0 /\ send'.status \in {"TX_IDLE", "SEND_FF"}
               => txbuf.length # 0 /\ send.status \in {"TX_IDLE", "SEND_FF"}
      PROVE  OneAnswer'
  <2>1. Blank => Blank'
    BY <1>0, <1>1 DEF Blank
  <2> QED
    BY <1>0, <1>1, <2>1 DEF OneAnswer
<1>2. CASE Tx
  <2>0. SendTypeOK /\ LongMessage /\ TxPart /\ send \in TxRuntime
    BY <1>2 DEF ExchangeIInv, SenderInv, Tx, SendTypeOK
  <2>1. CASE out' = <<>>
    <3>1. inbox' = inbox
      BY <2>1, Received
    <3>2. txbuf'.length # 0 /\ send'.status \in {"TX_IDLE", "SEND_FF"}
               => txbuf.length # 0 /\ send.status \in {"TX_IDLE", "SEND_FF"}
      BY <2>0, <2>1, TxCases
    <3> QED
      BY <1>1, <3>1, <3>2
  <2>2. CASE out' # <<>>
    <3> DEFINE g == out'[1]
    <3>1. /\ txbuf.length # 0 /\ g.data.msg = txbuf.msg /\ g.type \in {"SF", "FF", "CF"}
          /\ g.type = "FF" => FF_DL(g) = txbuf.length
          /\ g.type = "CF" => g.data.pos = send.pos /\ send.status = "SEND_CF"
          /\ txbuf'.length = 0 \/ send'.status \in {"SEND_OK", "WAIT_FC", "SEND_CF"}
      BY <2>0, <2>2, TxCases
    <3>2. g \in Frame
      BY <2>2 DEF ExchangeIInv, SendTypeOK
    <3> HIDE DEF g
    <3>3. /\ user.at \notin {"send_data", "send_length"} /\ replied # <<>>
          /\ txbuf.length = LastOf(replied).length /\ txbuf.msg = LastOf(replied).msg
      BY <3>1 DEF SenderInv
    <3>4. g.type = "CF" => g.data.pos < LastOf(replied).length
      <4>1. ASSUME send.status = "SEND_CF" PROVE send.pos < txbuf.length
        <5>1. /\ send.pos + send.length = txbuf.length /\ send.length > 0
          BY <4>1 DEF SenderInv, SendAccounting, Sending
        <5>2. send.pos \in 0 .. N_DATA_MAX /\ send.length \in 0 .. N_DATA_MAX
          BY <2>0 DEF TxRuntime
        <5>3. send.pos \in Nat /\ send.length \in Nat
          BY <5>2, BufferAssumption
        <5> QED
          BY <5>1, <5>3
      <4> QED
        BY <3>1, <3>3, <4>1
    <3>5. Range(inbox') \subseteq Range(inbox) \cup {g}
      <4>1. inbox' = inbox \/ inbox' = Append(inbox, g)
        BY <2>2, Received DEF g
      <4> QED
        BY <1>0, <3>2, <4>1, RangeAppend, Zenon
    <3>6. \A f \in Range(inbox') : f.type # "FC" =>
           /\ replied # <<>> /\ f.data.msg = LastOf(replied).msg
           /\ f.type = "FF" => FF_DL(f) = LastOf(replied).length
           /\ f.type = "CF" => f.data.pos < LastOf(replied).length
      BY <1>0, <3>1, <3>3, <3>4, <3>5
    <3>7. ~ (\/ user'.at \in {"send_data", "send_length"}
             \/ txbuf'.length # 0 /\ send'.status \in {"TX_IDLE", "SEND_FF"})
      BY <1>0, <3>1, <3>3
    <3> QED
      BY <1>0, <3>6, <3>7 DEF OneAnswer
  <2> QED
    BY <2>1, <2>2
<1>3. CASE SendFlowCtrlFrame
  <2>1. out' # <<>> /\ out'[1] \in Frame /\ out'[1].type = "FC"
    BY <1>3, FlowControlFrame
  <2> DEFINE g == out'[1]
  <2>2. inbox' = inbox \/ inbox' = Append(inbox, g)
    BY <2>1, Received
  <2>3. Blank => Blank'
    BY <1>0, <2>1, <2>2, BlankAppended
  <2>4. g \in Frame /\ g.type = "FC"
    BY <2>1
  <2> HIDE DEF g
  <2>5. Range(inbox') \subseteq Range(inbox) \cup {g}
    BY <1>0, <2>2, <2>4, RangeAppend
  <2>6. UNCHANGED <<txbuf, send>>
    BY <1>3 DEF SendFlowCtrlFrame, sendVars
  <2>7. \A f \in Range(inbox') : f.type # "FC" =>
           /\ replied # <<>> /\ f.data.msg = LastOf(replied).msg
           /\ f.type = "FF" => FF_DL(f) = LastOf(replied).length
           /\ f.type = "CF" => f.data.pos < LastOf(replied).length
    BY <1>0, <2>4, <2>5
  <2> QED
    BY <1>0, <2>3, <2>6, <2>7 DEF OneAnswer
<1>4. CASE NoFlowCtrlFrame \/ Rx \/ TimerCtrl
  <2>1. out' = <<>> /\ txbuf' = txbuf /\ send'.status = send.status
    <3>1. send \in TxRuntime
      BY DEF ExchangeIInv, SendTypeOK
    <3> QED
      BY <1>4, <3>1
      DEF NoFlowCtrlFrame, Rx, TimerCtrl, SendTimerCtrl, RcvFlowCtrlFrame, sendVars, TxRuntime
  <2> QED
    BY <1>1, <2>1, Received
<1> QED
  BY <1>2, <1>3, <1>4 DEF NodeTick, MainNetworkLayer, Fc

(* The callback and the server's thread.                                     *)
LEMMA OneOthers ==
  ASSUME ExchangeIInv, Phase, SenderInv, OneAnswer,
         RxNotification \/ Poll \/ InCall \/ TakeRequest \/ TakeNothing \/ AnswerRequest
  PROVE  OneAnswer'
<1>0. send \in TxRuntime /\ txbuf \in TxBuffer /\ UserTypes
  BY DEF ExchangeIInv, SendTypeOK
<1>1. ASSUME UNCHANGED <<tp, call, request, response, inbox, replied>>,
              \/ user'.at \in {"send_data", "send_length"}
              \/ txbuf'.length # 0 /\ send'.status \in {"TX_IDLE", "SEND_FF"}
              => \/ user.at \in {"send_data", "send_length"}
                 \/ txbuf.length # 0 /\ send.status \in {"TX_IDLE", "SEND_FF"}
      PROVE  OneAnswer'
  <2>1. Blank => Blank'
    BY <1>1 DEF Blank
  <2> QED
    BY <1>1, <2>1 DEF OneAnswer
<1>2. CASE RxNotification
  <2>1. replied' = replied
    BY <1>2 DEF RxNotification
  <2> QED
    BY <1>1, <1>2, <2>1, Notified
<1>3. CASE InCall /\ SendStores
  <2>1. UNCHANGED <<tp, call, request, response, inbox, replied>>
    BY <1>3 DEF InCall, testerVars, historyVars
  <2>2. send'.status = send.status /\ user.at \in {"send_data", "send_length", "send_result"}
    BY <1>0, <1>3 DEF SendStores, SendData, SendLength, SendResult, Go, TxRuntime
  <2>3. user.at = "send_result" => user'.at = "none" /\ txbuf' = txbuf
    BY <1>0, <1>3 DEF SendStores, SendData, SendLength, SendResult, Go, UserTypes
  <2> QED
    BY <1>1, <2>1, <2>2, <2>3
<1>4. CASE Poll \/ TakeRequest \/ TakeNothing \/ (InCall /\ ReceiveLoads)
  <2>1. UNCHANGED <<tp, call, request, response, inbox, replied>>
    BY <1>4 DEF Poll, InCall, TakeRequest, TakeNothing, testerVars, historyVars
  <2>2. user'.at \notin {"send_data", "send_length"} /\ UNCHANGED <<txbuf, send>>
      BY <1>0, <1>4
      DEF Poll, BeginReceive, TakeRequest, TakeNothing, ReceiveResult, Go, ReceiveLoads,
          ReceiveData, ReceiveLength, ReceiveClear, UserTypes
  <2> QED
    BY <1>1, <2>1, <2>2
<1>5. CASE AnswerRequest
  <2>1. UNCHANGED <<tp, call, request, response, inbox>> /\ Blank
    BY <1>5, AnswerAlone DEF AnswerRequest, testerVars
  <2>2. Blank'
    BY <2>1 DEF Blank
  <2> QED
    BY <2>2 DEF OneAnswer, Blank
<1> QED
  BY <1>2, <1>3, <1>4, <1>5 DEF InCall

LEMMA BlankProceeds ==
  ASSUME ExchangeIInv, TesterInv, Blank, TesterProceeds \/ TesterTimesOut
  PROVE  Blank'
<1>0. inbox \in Seq(Frame)
  BY DEF ExchangeIInv, TesterTypeOK
<1>1. CASE call' # "receive" /\ (inbox' = inbox \/ (inbox # <<>> /\ inbox' = Tail(inbox)))
  BY <1>0, <1>1, RangeTail DEF Blank
<1>2. CASE SendCF \/ TesterTimesOut \/ ReceiveUnknownState
  BY <1>1, <1>2
  DEF SendCF, AwaitAnswer, Return, TesterTimesOut, WaitTimeout, ReceiveUnknownState, GiveUp
<1>3. CASE SendFC
  BY <1>3 DEF SendFC, Blank
<1>4. CASE inbox # <<>> /\ TakeFrame(Head(inbox))
  <2> DEFINE f == Head(inbox)
  <2>1. f \in Range(inbox) /\ f.type = "FC"
    BY <1>0, <1>4, RangeTail DEF Blank
  <2> HIDE DEF f
  <2>2. TakeFrame(f)
    BY <1>4 DEF f
  <2>3. inbox' = Tail(inbox)
    BY <2>2 DEF TakeFrame, HandleFC, WaitSingleFrame, WaitFirstFrame, WaitOtherFrame, WaitCF,
               WaitCFError, Taken
  <2>4. CASE WaitOtherFrame(f)
    <3>1. response' = <<>> /\ Range(inbox') \subseteq Range(inbox)
      BY <1>0, <1>4, <2>3, <2>4, RangeTail DEF WaitOtherFrame, TesterInv
    <3> QED
      BY <3>1 DEF Blank
  <2>5. CASE HandleFC(f)
    <3>1. call' # "receive"
      BY <2>5 DEF HandleFC, GiveUp, Return
    <3> QED
      BY <1>1, <1>4, <2>3, <3>1
  <2>6. CASE WaitCF(f) \/ WaitCFError(f)
    BY <2>6 DEF WaitCF, WaitCFError, Blank, TesterInv
  <2> QED
    BY <2>1, <2>2, <2>4, <2>5, <2>6 DEF TakeFrame, WaitSingleFrame, WaitFirstFrame
<1> QED
  BY <1>2, <1>3, <1>4 DEF TesterProceeds, Proceed

LEMMA OneProceeds ==
  ASSUME ExchangeIInv, TesterInv, OneAnswer, TesterProceeds \/ TesterTimesOut
  PROVE  OneAnswer'
<1>0. inbox \in Seq(Frame) /\ tp \in TpType /\ response \in Seq(SegmentType)
  BY TesterTypes DEF ExchangeIInv
<1>1. UNCHANGED <<txbuf, send, user, replied>>
  BY TesterLeaves
<1>2. inbox' = inbox \/ (inbox # <<>> /\ inbox' = Tail(inbox))
  BY DEF TesterProceeds, TesterTimesOut, WaitTimeout, Proceed, SendCF, SendFC,
         ReceiveUnknownState, TakeFrame, HandleFC, WaitSingleFrame, WaitFirstFrame,
         WaitOtherFrame, WaitCF, WaitCFError, Taken
<1>3. Range(inbox') \subseteq Range(inbox)
  BY <1>0, <1>2, RangeTail
<1>4. ASSUME call' = "receive" /\ response' # <<>> =>
               /\ replied # <<>> /\ tp'.t_size = LastOf(replied).length
               /\ response'[1].data.msg = LastOf(replied).msg
      PROVE  OneAnswer'
  BY <1>1, <1>3, <1>4, BlankProceeds DEF OneAnswer
<1>5. CASE call' # "receive"
  BY <1>4, <1>5
<1>6. CASE SendFC
  <2>1. UNCHANGED <<call, response>> /\ tp'.t_size = tp.t_size
    BY <1>0, <1>6 DEF SendFC, TpType
  <2> QED
    BY <1>4, <2>1 DEF OneAnswer
<1>7. CASE inbox # <<>> /\ TakeFrame(Head(inbox)) /\ call' = "receive"
  <2> DEFINE f == Head(inbox)
  <2>1. f \in Range(inbox)
    BY <1>0, <1>7, RangeTail
  <2> HIDE DEF f
  <2>2. TakeFrame(f)
    BY <1>7 DEF f
  <2>3. CASE WaitFirstFrame(f)
    <3> DEFINE s == Part(f)
    <3>1. response' = <<s>> /\ s.data = f.data /\ f.type = "FF" /\ tp'.t_size = FF_DL(f)
      BY <1>0, <2>3 DEF WaitFirstFrame, Part, TpType
    <3> HIDE DEF s
    <3>2. response'[1] = s
      BY <3>1
    <3> QED
      BY <1>4, <2>1, <3>1, <3>2 DEF OneAnswer
  <2>4. CASE WaitOtherFrame(f)
    <3>1. response' = <<>>
      BY <2>4 DEF WaitOtherFrame, TesterInv
    <3> QED
      BY <1>4, <3>1
  <2>5. CASE WaitCF(f)
    <3> DEFINE s == Part(f)
    <3>1. /\ call = "receive" /\ tp.state = "WAIT_CF" /\ response' = Append(response, s)
          /\ tp'.t_size = tp.t_size
      BY <1>0, <2>5 DEF WaitCF, TpType
    <3> HIDE DEF s
    <3>2. response # <<>>
      BY <3>1 DEF TesterInv
    <3>3. response'[1] = response[1]
      BY <1>0, <3>1, <3>2, FirstStays
    <3> QED
      BY <1>4, <3>1, <3>2, <3>3 DEF OneAnswer
  <2> QED
    BY <1>7, <2>2, <2>3, <2>4, <2>5
    DEF TakeFrame, HandleFC, WaitSingleFrame, WaitCFError, Conclude, GiveUp, Return
<1> QED
  BY <1>5, <1>6, <1>7
  DEF TesterProceeds, TesterTimesOut, WaitTimeout, Proceed, SendCF, ReceiveUnknownState,
      AwaitAnswer, GiveUp, Return

-----------------------------------------------------------------------------
(* The way of an answer, where the step is none of its own.                  *)
NextKept == Sending' => Sending /\ txbuf'.msg = txbuf.msg /\ send'.pos = send.pos

LEMMA StreamKept ==
  ASSUME Stream, inbox' = inbox, Range(replied) \subseteq Range(replied)',
         overrun => overrun', NextKept
  PROVE  Stream'
<1>1. \A f \in Range(inbox)' :
         /\ f.type \in {"SF", "FF"} => \E a \in Range(replied)' : Begins(f, a)
         /\ f.type = "CF" => f.data.pos >= FF_DATA
  BY DEF Stream
<1>2. \A i \in 1 .. Len(inbox) - 1 : Continues(inbox[i], inbox[i + 1])'
  BY DEF Stream, Continues, Follows
<1>3. inbox # <<>> => SentNext(LastOf(inbox))'
  BY DEF Stream, SentNext, Follows, NextKept
<1> QED
  BY <1>1, <1>2, <1>3 DEF Stream

LEMMA ResponseKept ==
  ASSUME Response, UNCHANGED <<call, response, inbox>>, tp'.t_size = tp.t_size,
         Range(replied) \subseteq Range(replied)', overrun => overrun', NextKept
  PROVE  Response'
<1> SUFFICES ASSUME call = "receive", response # <<>> PROVE Response'
  BY DEF Response
<1>1. IF inbox = <<>> THEN SentNext(LastOf(response))'
      ELSE Continues(LastOf(response), inbox[1])'
  BY DEF Response, SentNext, Continues, Follows, NextKept
<1>2. \/ response[1].type = "CF" /\ response[1].data.pos # 0
      \/ \E a \in Range(replied) :
            /\ a.length = tp.t_size /\ tp.t_size > ResponseSize
            /\ PartsOf(response, a) /\ (~overrun => InPlace(response))
  BY DEF Response
<1>3. ResponseSize' = ResponseSize
  BY DEF ResponseSize
<1> QED
  BY <1>1, <1>2, <1>3 DEF Response

Excepted == hasty /\ (crossed \/ overrun)

LEMMA WholeKept ==
  ASSUME PositiveIsWhole, ~Excepted, UNCHANGED <<call, outcome, request>>,
         Range(replied) \subseteq Range(replied)'
  PROVE  PositiveIsWhole'
BY DEF PositiveIsWhole, Excepted

(* A frame that comes to the library, by what it has to follow.              *)
LEMMA StreamAppended ==
  ASSUME Stream, inbox \in Seq(Frame), NEW g \in Frame, inbox' = Append(inbox, g),
         replied' = replied, overrun => overrun',
         g.type \in {"SF", "FF"} => \E a \in Range(replied) : Begins(g, a),
         g.type = "CF" => /\ Sending /\ g.data.pos >= FF_DATA
                          /\ g.data.msg = txbuf.msg /\ g.data.pos = send.pos,
         g.type \in {"FF", "CF"} /\ Sending'
            => txbuf'.msg = g.data.msg /\ send'.pos = EndOf(g)
  PROVE  Stream'
<1>1. \A f \in Range(inbox)' :
         /\ f.type \in {"SF", "FF"} => \E a \in Range(replied)' : Begins(f, a)
         /\ f.type = "CF" => f.data.pos >= FF_DATA
  <2>1. Range(inbox)' = Range(inbox) \cup {g}
    BY RangeAppend
  <2> QED
    BY <2>1 DEF Stream
<1>2. /\ Len(inbox') = Len(inbox) + 1 /\ inbox'[Len(inbox) + 1] = g /\ Len(inbox) \in Nat
      /\ \A i \in 1 .. Len(inbox) : inbox'[i] = inbox[i]
      /\ inbox' # <<>>
  BY LastAppended
<1>3. ASSUME NEW i \in 1 .. Len(inbox') - 1 PROVE Continues(inbox[i], inbox[i + 1])'
  <2>1. CASE i + 1 \in 1 .. Len(inbox)
    <3>1. i \in 1 .. Len(inbox) - 1 /\ i \in 1 .. Len(inbox)
      BY <1>2, <2>1
    <3>2. Continues(inbox[i], inbox[i + 1]) /\ inbox'[i] = inbox[i] /\ inbox'[i + 1] = inbox[i + 1]
      BY <1>2, <2>1, <3>1 DEF Stream
    <3> QED
      BY <3>2 DEF Continues, Follows
  <2>2. CASE i = Len(inbox)
    <3>1. i \in 1 .. Len(inbox) /\ inbox # <<>>
      BY <1>2, <2>2
    <3>2. SentNext(inbox[i]) /\ inbox'[i] = inbox[i] /\ inbox'[i + 1] = g
      BY <1>2, <2>2, <3>1 DEF Stream, LastOf
    <3> QED
      BY <3>2 DEF Continues, Follows, SentNext
  <2> QED
    BY <1>2, <2>1, <2>2
<1>4. SentNext(LastOf(inbox))'
  <2>1. LastOf(inbox') = g
    BY <1>2 DEF LastOf
  <2> QED
    BY <2>1 DEF SentNext, Follows
<1> QED
  BY <1>1, <1>2, <1>3, <1>4 DEF Stream

LEMMA ResponseAppended ==
  ASSUME Response, inbox \in Seq(Frame), NEW g \in Frame, inbox' = Append(inbox, g),
         UNCHANGED <<call, response, tp, replied>>, overrun => overrun',
         g.type = "CF" => /\ Sending /\ g.data.pos >= FF_DATA
                          /\ g.data.msg = txbuf.msg /\ g.data.pos = send.pos
  PROVE  Response'
<1> SUFFICES ASSUME call = "receive", response # <<>> PROVE Response'
  BY DEF Response
<1>1. inbox' # <<>> /\ Continues(LastOf(response), inbox[1])'
  <2>1. CASE inbox = <<>>
    <3>1. inbox' # <<>> /\ inbox'[1] = g /\ SentNext(LastOf(response))
      BY <2>1, Alone DEF Response
    <3> QED
      BY <3>1 DEF SentNext, Continues, Follows
  <2>2. CASE inbox # <<>>
    <3>1. inbox' # <<>> /\ inbox'[1] = inbox[1] /\ Continues(LastOf(response), inbox[1])
      BY <2>2, FirstStays DEF Response
    <3> QED
      BY <3>1 DEF Continues, Follows
  <2> QED
    BY <2>1, <2>2
<1>2. ResponseSize' = ResponseSize
  BY DEF ResponseSize
<1> QED
  BY <1>1, <1>2 DEF Response

(* A consecutive frame that is lost leaves a gap.                            *)
LEMMA StreamGap ==
  ASSUME ExchangeIInv, Stream, Response, inbox # <<>>, inbox' = inbox,
         UNCHANGED <<call, response, tp, replied, txbuf>>, overrun',
         Sending, Sending' => send'.pos = send.pos + CF_DATA
  PROVE  Stream' /\ Response'
<1>0. /\ inbox \in Seq(Frame) /\ LastOf(inbox) \in Range(inbox) /\ LastOf(inbox) \in Frame
      /\ send.pos \in Nat /\ EndOf(LastOf(inbox)) \in Nat
  <2>1. inbox \in Seq(Frame) /\ send \in TxRuntime
    BY DEF ExchangeIInv, TesterTypeOK, SendTypeOK
  <2>2. LastOf(inbox) \in Range(inbox) /\ LastOf(inbox) \in Frame
    BY <2>1, RangeTail, RangeIn DEF LastOf
  <2>3. send.pos \in 0 .. N_DATA_MAX
    BY <2>1 DEF TxRuntime
  <2>4. EndOf(LastOf(inbox)) \in Nat
    BY <2>2, PosType DEF Frame
  <2> QED
    BY <2>1, <2>2, <2>3, <2>4, BufferAssumption
<1>1. SentNext(LastOf(inbox))'
  <2> SUFFICES ASSUME LastOf(inbox).type \in {"FF", "CF"}, Sending'
               PROVE  /\ txbuf'.msg = LastOf(inbox).data.msg
                      /\ Follows(EndOf(LastOf(inbox)), send.pos)'
    BY DEF SentNext
  <2>1. txbuf.msg = LastOf(inbox).data.msg /\ Skip(EndOf(LastOf(inbox)), send.pos)
    BY DEF Stream, SentNext, Follows, Skip
  <2>2. Skip(EndOf(LastOf(inbox)), send'.pos)
    BY <1>0, <2>1, SkipOn, Sizes
  <2> QED
    BY <2>1, <2>2 DEF Follows
<1>2. Stream'
  <2>1. \A i \in 1 .. Len(inbox) - 1 : Continues(inbox[i], inbox[i + 1])'
    BY DEF Stream, Continues, Follows
  <2> QED
    BY <1>1, <2>1 DEF Stream
<1>3. Response'
  <2> SUFFICES ASSUME call = "receive", response # <<>> PROVE Response'
    BY DEF Response
  <2>1. Continues(LastOf(response), inbox[1])'
    BY DEF Response, Continues, Follows
  <2>2. ResponseSize' = ResponseSize
    BY DEF ResponseSize
  <2> QED
    BY <2>1, <2>2 DEF Response
<1> QED
  BY <1>2, <1>3

-----------------------------------------------------------------------------
LEMMA SendingPos ==
  ASSUME SendTypeOK, SendAccounting, Sending
  PROVE  send.pos >= FF_DATA /\ send.pos \in Nat
<1>1. PICK k \in 0 .. N_DATA_MAX : send.pos = FF_DATA + CF_DATA * k
  BY DEF SendAccounting
<1>2. k \in Nat
  BY BufferAssumption
<1> QED
  BY <1>1, <1>2, Sizes

LEMMA LastIn ==
  ASSUME NEW S, NEW s \in Seq(S), s # <<>>
  PROVE  LastOf(s) \in Range(s) /\ LastOf(s) \in S
BY RangeTail, RangeIn DEF LastOf

(* A frame of the last answer that goes out.                                 *)
LEMMA StreamTx ==
  ASSUME ExchangeIInv, ExchangeIInv', HistoryTypes, SenderInv, Stream, Response,
         NodeTick, Tx, out' # <<>>, overrun => overrun',
         overrun' => OneAnswer
  PROVE  Stream' /\ Response'
<1>0. /\ SendTypeOK /\ LongMessage /\ SendAccounting /\ TxPart /\ send \in TxRuntime
      /\ inbox \in Seq(Frame) /\ replied \in Seq(Messages)
      /\ UNCHANGED <<tp, call, request, response, replied>>
  BY Received DEF ExchangeIInv, SenderInv, Tx, SendTypeOK, HistoryTypes
<1> DEFINE g == out'[1]
<1>1. g \in Frame
  BY DEF ExchangeIInv, SendTypeOK
<1>2. \/ /\ SendSingleFrame /\ ~Sending' /\ txbuf.length # 0
         /\ g.type = "SF" /\ g.data = [msg |-> txbuf.msg, pos |-> 0]
      \/ /\ SendFirstFrame /\ txbuf.length # 0 /\ send'.status = "WAIT_FC"
         /\ send'.pos = FF_DATA /\ txbuf' = txbuf /\ txbuf.length >= CAN_FRAME_SIZE
         /\ g.type = "FF" /\ FF_DL(g) = txbuf.length
         /\ g.data = [msg |-> txbuf.msg, pos |-> 0]
      \/ /\ SendConsecutiveFrame /\ txbuf.length # 0 /\ send.status = "SEND_CF" /\ txbuf' = txbuf
         /\ Sending' => send'.pos = send.pos + CF_DATA
         /\ g.type = "CF" /\ g.data = [msg |-> txbuf.msg, pos |-> send.pos]
  BY <1>0, TxCases
<1>a. out' # <<>> /\ Len(inbox) = CAN_BUS_PDU_NUM => inbox' = inbox /\ overrun' /\ inbox # <<>>
  BY Received
<1>b. Len(inbox) # CAN_BUS_PDU_NUM => inbox' = Append(inbox, g)
  BY Received
<1> HIDE DEF g
<1>3. txbuf'.msg = txbuf.msg
  BY <1>0, TxSame
<1>4. /\ replied # <<>> /\ LastOf(replied) \in Range(replied)
      /\ txbuf.length = LastOf(replied).length /\ txbuf.msg = LastOf(replied).msg
  BY <1>0, <1>2, LastIn DEF SenderInv
<1>5. g.type \in {"SF", "FF"} => \E a \in Range(replied) : Begins(g, a)
  <2>1. g.type \in {"SF", "FF"} => Begins(g, LastOf(replied))
    BY <1>2, <1>4 DEF Begins, Start
  <2> QED
    BY <1>4, <2>1
<1>6. g.type = "CF" => /\ Sending /\ g.data.pos >= FF_DATA
                       /\ g.data.msg = txbuf.msg /\ g.data.pos = send.pos
  BY <1>0, <1>2, SendingPos DEF Sending
<1>7. g.type \in {"FF", "CF"} /\ Sending'
            => txbuf'.msg = g.data.msg /\ send'.pos = EndOf(g)
  BY <1>2, <1>3, Sizes DEF EndOf
<1>8. CASE Len(inbox) # CAN_BUS_PDU_NUM
  <2>1. inbox' = Append(inbox, g)
    BY <1>8, <1>b
  <2>2. Stream'
    BY <1>0, <1>1, <1>5, <1>6, <1>7, <2>1, StreamAppended
  <2>3. Response'
    BY <1>0, <1>1, <1>6, <2>1, ResponseAppended
  <2> QED
    BY <2>2, <2>3
<1>9. CASE Len(inbox) = CAN_BUS_PDU_NUM
  <2>1. inbox' = inbox /\ overrun' /\ inbox # <<>> /\ OneAnswer
    BY <1>9, <1>a
  <2>2. CASE SendSingleFrame /\ ~Sending'
    <3>1. NextKept
      BY <2>2 DEF NextKept
    <3> QED
      BY <1>0, <2>1, <3>1, StreamKept, ResponseKept
  <2>3. CASE SendFirstFrame /\ txbuf.length # 0
    <3>1. Blank
      BY <2>1, <2>3 DEF OneAnswer, SendFirstFrame, InState
    <3>2. LastOf(inbox).type = "FC"
      BY <1>0, <2>1, <3>1, LastIn DEF Blank
    <3>3. \A i \in 1 .. Len(inbox) - 1 : Continues(inbox[i], inbox[i + 1])'
      BY <2>1 DEF Stream, Continues, Follows
    <3>4. Stream'
      BY <1>0, <2>1, <3>2, <3>3 DEF Stream, SentNext
    <3>5. Response'
      BY <1>0, <3>1 DEF Blank, Response
    <3> QED
      BY <3>4, <3>5
  <2>4. CASE /\ SendConsecutiveFrame /\ send.status = "SEND_CF" /\ txbuf' = txbuf
             /\ Sending' => send'.pos = send.pos + CF_DATA
    BY <1>0, <2>1, <2>4, StreamGap DEF Sending
  <2> QED
    BY <1>2, <2>2, <2>3, <2>4
<1> QED
  BY <1>8, <1>9

LEMMA StreamTick ==
  ASSUME ExchangeIInv, ExchangeIInv', HistoryTypes, SenderInv, Stream, Response,
         PositiveIsWhole, ~crossed, ~overrun' \/ (~hasty' /\ OneAnswer), NodeTick
  PROVE  Stream' /\ Response' /\ PositiveIsWhole'
<1>0. /\ inbox \in Seq(Frame) /\ UNCHANGED <<tp, call, request, response, outcome, replied>>
      /\ hasty' = hasty /\ (overrun => overrun') /\ Range(replied) \subseteq Range(replied)'
      /\ (out' = <<>> => inbox' = inbox)
  <2>1. overrun => overrun'
    BY DEF NodeTick
  <2> QED
    BY <2>1, Received
<1>1. PositiveIsWhole'
  <2>1. ~Excepted
    BY <1>0 DEF Excepted
  <2> QED
    BY <1>0, <2>1, WholeKept
<1>2. ASSUME NextKept, inbox' = inbox PROVE Stream' /\ Response'
  BY <1>0, <1>2, StreamKept, ResponseKept
<1>3. CASE Tx /\ out' # <<>>
  <2>1. overrun' => OneAnswer
    OBVIOUS
  <2> QED
    BY <1>0, <1>1, <1>3, <2>1, StreamTx
<1>4. CASE Tx /\ out' = <<>>
  <2>1. SendTypeOK /\ LongMessage /\ TxPart
    BY <1>4 DEF ExchangeIInv, SenderInv, Tx
  <2>2. txbuf'.msg = txbuf.msg
    BY <2>1, TxSame
  <2>3. Sending' => Sending /\ send'.pos = send.pos
    BY <1>4, <2>1, TxCases
  <2> QED
    BY <1>0, <1>1, <1>2, <1>4, <2>2, <2>3 DEF NextKept
<1>5. CASE SendFlowCtrlFrame
  <2> DEFINE g == out'[1]
  <2>1. out' # <<>> /\ g \in Frame /\ g.type = "FC"
    BY <1>5, FlowControlFrame
  <2>2. NextKept
    BY <1>5 DEF SendFlowCtrlFrame, sendVars, NextKept, Sending
  <2>3. inbox' = inbox \/ inbox' = Append(inbox, g)
    BY <2>1, Received
  <2> HIDE DEF g
  <2>4. CASE inbox' = Append(inbox, g)
    <3>1. Stream'
      BY <1>0, <2>1, <2>4, StreamAppended
    <3>2. Response'
      BY <1>0, <2>1, <2>4, ResponseAppended
    <3> QED
      BY <1>1, <3>1, <3>2
  <2> QED
    BY <1>1, <1>2, <2>2, <2>3, <2>4
<1>6. CASE NoFlowCtrlFrame \/ Rx \/ TimerCtrl
  <2>1. out' = <<>> /\ txbuf' = txbuf /\ send'.status = send.status /\ send'.pos = send.pos
    <3>1. send \in TxRuntime
      BY DEF ExchangeIInv, SendTypeOK
    <3> QED
      BY <1>6, <3>1
      DEF NoFlowCtrlFrame, Rx, TimerCtrl, SendTimerCtrl, RcvFlowCtrlFrame, sendVars, TxRuntime
  <2> QED
    BY <1>0, <1>1, <1>2, <2>1 DEF NextKept, Sending
<1> QED
  BY <1>3, <1>4, <1>5, <1>6 DEF NodeTick, MainNetworkLayer, Fc

(* The callback and the server's thread send nothing.                        *)
LEMMA StreamOthers ==
  ASSUME ExchangeIInv, HistoryTypes, SenderInv, Stream, Response,
         PositiveIsWhole, ~crossed, ~overrun' \/ ~hasty',
         RxNotification \/ Poll \/ InCall \/ TakeRequest \/ TakeNothing \/ AnswerRequest
  PROVE  Stream' /\ Response' /\ PositiveIsWhole'
<1>0. send \in TxRuntime /\ txbuf \in TxBuffer /\ UserTypes /\ replied \in Seq(Messages)
  BY DEF ExchangeIInv, SendTypeOK, HistoryTypes
<1>1. /\ UNCHANGED <<tp, call, request, response, outcome, inbox>> /\ UNCHANGED <<hasty, overrun>>
  BY DEF RxNotification, Poll, InCall, TakeRequest, TakeNothing, AnswerRequest, testerVars,
         historyVars
<1>2. Range(replied) \subseteq Range(replied)'
  <2>1. CASE AnswerRequest
    <3>1. PICK m \in Msgs : poll = <<m>>
      BY <1>0, <2>1 DEF AnswerRequest, UserTypes
    <3>2. PICK a \in Answers[poll[1]] :
             IF send.status = "TX_IDLE" THEN replied' = Append(replied, a)
             ELSE replied' = replied
      BY <2>1 DEF AnswerRequest
    <3>3. a \in Messages
      BY <3>1, ScriptAssumption
    <3>4. replied' = Append(replied, a) \/ replied' = replied
      BY <3>2
    <3>5. replied \in Seq(Messages)
      BY <1>0
    <3>6. Range(Append(replied, a)) = Range(replied) \cup {a}
      BY <3>3, <3>5, RangeAppend
    <3>7. CASE replied' = Append(replied, a)
      BY <3>6, <3>7
    <3>8. CASE replied' = replied
      BY <3>8
    <3> QED
      BY <3>4, <3>7, <3>8
  <2>2. CASE ~AnswerRequest
    BY <2>2 DEF RxNotification, Poll, InCall, TakeRequest, TakeNothing, historyVars
  <2> QED
    BY <2>1, <2>2
<1>3. NextKept
  <2>1. CASE InCall /\ SendStores
    <3>1. send'.status = send.status /\ send'.pos = send.pos
      BY <1>0, <2>1 DEF SendStores, SendData, SendLength, SendResult, TxRuntime
    <3>2. CASE SendResult
      BY <3>1, <3>2 DEF SendResult, NextKept, Sending
    <3>3. CASE SendData \/ SendLength
      BY <3>1, <3>3 DEF SenderInv, SendData, SendLength, Go, NextKept, Sending
    <3> QED
      BY <2>1, <3>2, <3>3 DEF SendStores
  <2>2. CASE ~(InCall /\ SendStores)
    <3>1. UNCHANGED <<txbuf, send>>
      BY <2>2
      DEF InCall, RxNotification, Deliver, sendVars, Poll, BeginReceive, TakeRequest, TakeNothing,
          ReceiveResult, ReceiveLoads, ReceiveData, ReceiveLength, ReceiveClear, AnswerRequest,
          BeginSend, nodeVars, vars
    <3> QED
      BY <3>1 DEF NextKept, Sending
  <2> QED
    BY <2>1, <2>2
<1>4. ~Excepted
  BY <1>1 DEF Excepted
<1> QED
  BY <1>1, <1>2, <1>3, <1>4, StreamKept, ResponseKept, WholeKept

-----------------------------------------------------------------------------
(* The tester takes frames of an answer.                                     *)
WaitingEmpty == call = "waitSForFF" => response = <<>>

LEMMA WaitingEmptyStep == ASSUME WaitingEmpty, ExchangeNext PROVE WaitingEmpty'
<1>1. CASE TesterProceeds
  BY <1>1
  DEF WaitingEmpty, TesterProceeds, Proceed, SendCF, SendFC, ReceiveUnknownState, TakeFrame,
      HandleFC, WaitSingleFrame, WaitFirstFrame, WaitOtherFrame, WaitCF, WaitCFError, GiveUp,
      Return, AwaitAnswer, Conclude
<1>2. CASE Ask \/ TesterTimesOut
  BY <1>2
  DEF WaitingEmpty, Ask, Transmit, TransmitSingle, TransmitFirst, AwaitAnswer, Return,
      TesterTimesOut, WaitTimeout, GiveUp
<1>3. CASE ~(TesterProceeds \/ Ask \/ TesterTimesOut)
  BY <1>3
  DEF ExchangeNext, WaitingEmpty, NodeTick, RxNotification, Poll, InCall, TakeRequest,
      TakeNothing, AnswerRequest, testerVars
<1> QED
  BY <1>1, <1>2, <1>3

(* What follows a frame: the first one in the queue, or what is still to be  *)
(* sent.                                                                     *)
After(f, queue) == IF queue = <<>> THEN SentNext(f) ELSE Continues(f, queue[1])

LEMMA AfterKept ==
  ASSUME UNCHANGED <<txbuf, send, overrun>>, After(LastOf(response'), inbox')
  PROVE  IF inbox' = <<>> THEN SentNext(LastOf(response))'
         ELSE Continues(LastOf(response), inbox[1])'
BY DEF After, SentNext, Continues, Follows, Sending

LEMMA TailOf ==
  ASSUME NEW S, NEW s \in Seq(S), s # <<>>
  PROVE  /\ Tail(s) \in Seq(S) /\ Len(Tail(s)) = Len(s) - 1 /\ Head(s) = s[1]
         /\ Len(s) \in Nat /\ Len(s) >= 1
         /\ \A i \in 1 .. Len(s) - 1 : Tail(s)[i] = s[i + 1]
         /\ Tail(s) = <<>> => Len(s) = 1
         /\ Tail(s) # <<>> => Len(s) > 1 /\ LastOf(Tail(s)) = LastOf(s)
<1> DEFINE t == Tail(s)
           n == Len(s)
<1>1. /\ t \in Seq(S) /\ Len(t) = n - 1 /\ Head(s) = s[1] /\ n \in Nat /\ n >= 1
      /\ \A i \in 1 .. n - 1 : t[i] = s[i + 1]
  OBVIOUS
<1>2. (t = <<>> <=> Len(t) = 0)
  BY <1>1
<1>3. ASSUME t # <<>> PROVE n > 1 /\ LastOf(t) = LastOf(s)
  <2> HIDE DEF t, n
  <2>1. n > 1 /\ n - 1 \in 1 .. n - 1 /\ (n - 1) + 1 = n
    BY <1>1, <1>2, <1>3
  <2>2. t[n - 1] = s[n]
    BY <1>1, <2>1
  <2> QED
    BY <1>1, <2>1, <2>2 DEF LastOf, n
<1> QED
  BY <1>1, <1>2, <1>3

LEMMA HeadTaken ==
  ASSUME Stream, inbox \in Seq(Frame), inbox # <<>>,
         NEW g, g.type = Head(inbox).type, g.data = Head(inbox).data
  PROVE  After(g, Tail(inbox))
<1>1. /\ Head(inbox) = inbox[1] /\ Len(inbox) \in Nat
      /\ Tail(inbox) = <<>> => Len(inbox) = 1
      /\ Tail(inbox) # <<>> => Len(inbox) > 1 /\ Tail(inbox)[1] = inbox[2]
  BY TailOf
<1>2. CASE Tail(inbox) = <<>>
  <2>1. SentNext(inbox[1])
    BY <1>1, <1>2 DEF Stream, LastOf
  <2> QED
    BY <1>1, <1>2, <2>1 DEF After, SentNext, EndOf
<1>3. CASE Tail(inbox) # <<>>
  <2>1. Continues(inbox[1], inbox[2])
    <3>1. 1 \in 1 .. Len(inbox) - 1 /\ 1 + 1 = 2
      BY <1>1, <1>3
    <3> QED
      BY <3>1 DEF Stream
  <2> QED
    BY <1>1, <1>3, <2>1 DEF After, Continues, EndOf
<1> QED
  BY <1>2, <1>3

LEMMA StreamLeft ==
  ASSUME Stream, inbox \in Seq(Frame), UNCHANGED <<replied, overrun, txbuf, send>>,
         inbox' = inbox \/ (inbox # <<>> /\ inbox' = Tail(inbox))
  PROVE  Stream'
<1>1. CASE inbox' = inbox
  BY <1>1 DEF Stream, SentNext, Continues, Follows, Sending
<1>2. CASE inbox # <<>> /\ inbox' = Tail(inbox)
  <2>1. Range(inbox') \subseteq Range(inbox)
    BY <1>2, RangeTail
  <2>2. /\ Len(inbox) \in Nat /\ Len(inbox') = Len(inbox) - 1
        /\ \A i \in 1 .. Len(inbox) - 1 : inbox'[i] = inbox[i + 1]
        /\ inbox' # <<>> => LastOf(inbox') = LastOf(inbox)
    BY <1>2, TailOf
  <2>3. \A f \in Range(inbox)' :
         /\ f.type \in {"SF", "FF"} => \E a \in Range(replied)' : Begins(f, a)
         /\ f.type = "CF" => f.data.pos >= FF_DATA
    BY <2>1 DEF Stream
  <2>4. ASSUME NEW i \in 1 .. Len(inbox') - 1 PROVE Continues(inbox[i], inbox[i + 1])'
    <3>1. /\ i + 1 \in 1 .. Len(inbox) - 1 /\ i \in 1 .. Len(inbox) - 1
      BY <2>2
    <3>2. Continues(inbox[i + 1], inbox[(i + 1) + 1])
      BY <3>1 DEF Stream
    <3>3. inbox'[i] = inbox[i + 1] /\ inbox'[i + 1] = inbox[(i + 1) + 1]
      BY <2>2, <3>1, SMTT(30)
    <3> QED
      BY <3>2, <3>3 DEF Continues, Follows
  <2>5. inbox' # <<>> => SentNext(LastOf(inbox))'
    BY <1>2, <2>2, Zenon DEF Stream, SentNext, Follows, Sending
  <2> QED
    BY <2>3, <2>4, <2>5 DEF Stream
<1> QED
  BY <1>1, <1>2

(* A consecutive frame that the tester puts to what it has of an answer.     *)
LEMMA PartFollows ==
  ASSUME ExchangeIInv, inbox # <<>>, response # <<>>, Head(inbox).type = "CF",
         After(LastOf(response), inbox), NEW a, PartsOf(response, a)
  PROVE  LET s == Part(Head(inbox)) IN
         /\ s \in SegmentType /\ s.type = "CF" /\ s.data.msg = a.msg
         /\ Skip(EndOf(LastOf(response)), s.data.pos)
         /\ ~overrun => s.data.pos = EndOf(LastOf(response))
         /\ s.data.pos = Head(inbox).data.pos
         /\ response \in Seq(SegmentType) /\ response[1].type = "FF"
         /\ response[1].data.msg = a.msg
         /\ ResponseSize = Expected(Len(response))
<1> DEFINE f == Head(inbox)
           s == Part(f)
           n == Len(response)
<1>1. inbox \in Seq(Frame) /\ response \in Seq(SegmentType) /\ f \in Frame /\ f = inbox[1]
  <2>1. inbox \in Seq(Frame) /\ response \in Seq(SegmentType)
    BY TesterTypes DEF ExchangeIInv
  <2> QED
    BY <2>1, TailOf
<1>2. s \in SegmentType /\ s.type = "CF" /\ s.data = f.data
  <2>1. f.type \in FrameTypes /\ f.data \in Data
    BY <1>1 DEF Frame
  <2> HIDE DEF f
  <2> QED
    BY <2>1 DEF Part, SegmentType, f
<1>3. n \in Nat /\ n >= 1 /\ LastOf(response) = response[n]
  BY <1>1 DEF LastOf
<1> HIDE DEF f, s, n
<1>4. /\ n = 1 => response[n].type = "FF"
      /\ n > 1 => response[n].type = "CF"
      /\ response[n].data.msg = a.msg /\ response[1].data.msg = a.msg
      /\ response[1].type = "FF"
  BY <1>3 DEF PartsOf, n
<1>5. LastOf(response).type \in {"FF", "CF"} /\ LastOf(response).data.msg = a.msg
  BY <1>3, <1>4
<1>6. f.data.msg = a.msg /\ Follows(EndOf(LastOf(response)), f.data.pos)
  BY <1>1, <1>5 DEF After, Continues, f
<1>7. ResponseSize = Expected(n)
  BY <1>4 DEF ResponseSize, Expected, n
<1> QED
  BY <1>1, <1>2, <1>4, <1>6, <1>7 DEF Follows, Skip, f, s, n

-----------------------------------------------------------------------------
(* A single frame is an answer.                                              *)
LEMMA SingleTaken ==
  ASSUME ExchangeIInv, Stream, inbox # <<>>, WaitSingleFrame(Head(inbox))
  PROVE  \E a \in Range(replied) :
           /\ Head(inbox).data = Start(a) /\ Head(inbox) \in Range(inbox)
           /\ Head(inbox).type = "SF"
           /\ \A m : Start(m) = Start(a) => IsAllOf(outcome'.res, m)
           /\ outcome'.ercd => a.msg \in Positive[request'.msg]
<1> DEFINE f == Head(inbox)
           s == Part(f)
<1>1. inbox \in Seq(Frame) /\ f \in Range(inbox)
  BY RangeTail DEF ExchangeIInv, TesterTypeOK
<1>2. /\ f.type = "SF" /\ response' = <<s>> /\ Conclude(response') /\ request' = request
      /\ s.type = "SF" /\ s.data = f.data
  BY DEF WaitSingleFrame, Part
<1> HIDE DEF f, s
<1>3. PICK a \in Range(replied) : Begins(f, a)
  BY <1>1, <1>2 DEF Stream
<1>4. outcome'.res = response' /\ outcome'.ercd = IsPositive(response')
  BY <1>2 DEF Conclude, Return
<1>5. Len(response') = 1 /\ response'[1] = s /\ DOMAIN response' = {1}
  BY <1>2
<1>6. s.data = Start(a)
  BY <1>2, <1>3 DEF Begins
<1>7. ASSUME NEW m, Start(m) = Start(a) PROVE IsAllOf(outcome'.res, m)
  <2>1. s.data = [msg |-> m.msg, pos |-> 0]
    BY <1>6, <1>7 DEF Start
  <2> QED
    BY <1>2, <1>4, <1>5, <2>1 DEF IsAllOf
<1>8. outcome'.ercd => a.msg \in Positive[request'.msg]
  <2>1. s.data.msg = a.msg
    BY <1>6 DEF Start
  <2>2. outcome'.ercd => IsPositive(response')
    BY <1>4
  <2> QED
    BY <1>2, <1>5, <2>1, <2>2 DEF IsPositive
<1>9. f.data = Start(a) /\ f \in Range(inbox) /\ f.type = "SF"
  BY <1>1, <1>2, <1>6
<1>10. \A m : Start(m) = Start(a) => IsAllOf(outcome'.res, m)
  BY <1>7
<1> QED
  BY <1>3, <1>8, <1>9, <1>10 DEF f

(* The last of the consecutive frames makes it whole.                        *)
LastPart(f) == WaitCF(f) /\ tp.t_size - ResponseSize <= CF_DATA

LEMMA LastTaken ==
  ASSUME ExchangeIInv, OneAnswer \/ ~overrun, inbox # <<>>, response # <<>>,
         LastPart(Head(inbox)), After(LastOf(response), inbox),
         NEW a \in Messages, a.length = tp.t_size, tp.t_size > ResponseSize,
         PartsOf(response, a), ~overrun => InPlace(response)
  PROVE  /\ \A m \in Messages : m.length = a.length /\ m.msg = a.msg
               => IsAllOf(outcome'.res, m)
         /\ outcome'.ercd => a.msg \in Positive[request'.msg]
<1> DEFINE f == Head(inbox)
           s == Part(f)
<1>1. /\ f.type = "CF" /\ response' = Append(response, s) /\ request' = request
      /\ outcome'.res = response' /\ outcome'.ercd = IsPositive(response')
      /\ call = "receive"
  BY DEF LastPart, WaitCF, Conclude, Return
<1>2. /\ s \in SegmentType /\ s.type = "CF" /\ s.data.msg = a.msg
      /\ Skip(EndOf(LastOf(response)), s.data.pos)
      /\ ~overrun => s.data.pos = EndOf(LastOf(response))
      /\ s.data.pos = f.data.pos
      /\ response \in Seq(SegmentType) /\ response[1].type = "FF"
      /\ response[1].data.msg = a.msg
      /\ ResponseSize = Expected(Len(response))
  BY <1>1, PartFollows
<1>3. f \in Range(inbox)
  BY RangeTail DEF ExchangeIInv, TesterTypeOK
<1> HIDE DEF f, s
<1>4. ASSUME NEW m \in Messages, m.length = a.length, m.msg = a.msg
      PROVE  IsAllOf(outcome'.res, m)
  <2>1. m.length \in 0 .. N_DATA_MAX
    <3>1. m.length \in 1 .. N_DATA_MAX
      BY MessagesAssumption
    <3> QED
      BY <3>1, BufferAssumption
  <2>2. PartsOf(response, m)
    BY <1>4 DEF PartsOf
  <2>3. /\ Expected(Len(response)) < m.length
        /\ m.length - Expected(Len(response)) <= CF_DATA
    <3>1. /\ m.length = tp.t_size /\ tp.t_size > Expected(Len(response))
          /\ tp.t_size - Expected(Len(response)) <= CF_DATA
      BY <1>2, <1>4 DEF LastPart
    <3>2. tp.t_size \in Nat
      <4>1. tp.t_size \in Offsets
        BY TesterTypes DEF ExchangeIInv, TpType
      <4> QED
        BY <4>1, OffsetNat
    <3>3. Expected(Len(response)) \in Nat
      BY <1>2, EndInPlace, Sizes DEF Expected
    <3> QED
      BY <3>1, <3>2, <3>3
  <2>4. ~overrun => InPlace(response) /\ s.data.pos = EndOf(LastOf(response))
    BY <1>2
  <2>5. OneAnswer => s.data.pos < m.length
    BY <1>1, <1>2, <1>3, <1>4 DEF OneAnswer
  <2>6. IsAllOf(Append(response, s), m)
    BY <1>2, <1>4, <2>1, <2>2, <2>3, <2>4, <2>5, PartsWhole
  <2> QED
    BY <1>1, <2>6
<1>5. outcome'.ercd => a.msg \in Positive[request'.msg]
  <2>1. response'[1] = response[1]
    BY <1>1, <1>2, FirstStays
  <2> QED
    BY <1>1, <1>2, <2>1 DEF IsPositive
<1> QED
  BY <1>4, <1>5

(* Otherwise it has one more frame of that answer.                           *)
LEMMA PartTaken ==
  ASSUME ExchangeIInv, inbox # <<>>, response # <<>>,
         WaitCF(Head(inbox)), ~(tp.t_size - ResponseSize <= CF_DATA),
         After(LastOf(response), inbox),
         NEW a, a.length = tp.t_size,
         PartsOf(response, a), ~overrun => InPlace(response)
  PROVE  /\ a.length = tp'.t_size /\ tp'.t_size > ResponseSize'
         /\ PartsOf(response', a) /\ (~overrun => InPlace(response'))
<1> DEFINE f == Head(inbox)
           s == Part(f)
           n == Len(response)
<1>1. /\ f.type = "CF" /\ response' = Append(response, s)
      /\ tp'.t_size = tp.t_size
  BY TesterTypes DEF WaitCF, ExchangeIInv, TpType
<1>2. /\ s \in SegmentType /\ s.type = "CF" /\ s.data.msg = a.msg
      /\ Skip(EndOf(LastOf(response)), s.data.pos)
      /\ ~overrun => s.data.pos = EndOf(LastOf(response))
      /\ response \in Seq(SegmentType) /\ response[1].type = "FF"
      /\ ResponseSize = Expected(Len(response))
  BY <1>1, PartFollows
<1>3. tp.t_size \in Nat
  <2>1. tp.t_size \in Offsets
    BY TesterTypes DEF ExchangeIInv, TpType
  <2> QED
    BY <2>1, OffsetNat
<1> HIDE DEF f, s
<1>4. PartsOf(response', a) /\ (~overrun => InPlace(response'))
  BY <1>1, <1>2, PartsGrow
<1>5. /\ n \in Nat /\ Len(response') = n + 1 /\ response' # <<>> /\ response'[1] = response[1]
  BY <1>1, <1>2, FirstStays, LastAppended
<1>6. ResponseSize' = 6 + 7 * n
  BY <1>2, <1>5, Sizes DEF ResponseSize
<1>7. ResponseSize = 6 + 7 * (n - 1)
  BY <1>2, <1>5, Sizes DEF Expected
<1>8. tp.t_size > ResponseSize'
  BY <1>3, <1>5, <1>6, <1>7, Sizes
<1> QED
  BY <1>1, <1>4, <1>8

-----------------------------------------------------------------------------
(* The frames with which dcm.transmit returns an answer.                     *)
LEMMA AnsweredCases ==
  ASSUME TesterProceeds \/ TesterTimesOut, call' = "none", outcome'.res # None
  PROVE  /\ TesterProceeds /\ call # "none" /\ inbox # <<>>
         /\ WaitSingleFrame(Head(inbox)) \/ LastPart(Head(inbox))
BY DEF TesterProceeds, TesterTimesOut, WaitTimeout, Proceed, SendCF, SendFC, AwaitAnswer,
       ReceiveUnknownState, TakeFrame, HandleFC, WaitFirstFrame, WaitOtherFrame,
       WaitSingleFrame, WaitCF, WaitCFError, LastPart, GiveUp, Return

(* What the tester has put together, if it had a first frame.                *)
LEMMA PartsOfAnswer ==
  ASSUME HistoryTypes, Response, call = "receive", response # <<>>
  PROVE  /\ After(LastOf(response), inbox)
         /\ \/ response[1].type = "CF" /\ response[1].data.pos # 0
            \/ \E a \in Messages :
                 /\ a \in Range(replied) /\ a.length = tp.t_size /\ tp.t_size > ResponseSize
                 /\ PartsOf(response, a) /\ (~overrun => InPlace(response))
<1>1. Range(replied) \subseteq Messages
  BY RangeIn DEF HistoryTypes
<1> QED
  BY <1>1 DEF Response, After

LEMMA WholeConcluded ==
  ASSUME ExchangeIInv, HistoryTypes, Stream, Response, OneAnswer \/ ~overrun,
         TesterProceeds \/ TesterTimesOut, call' = "none"
  PROVE  PositiveIsWhole'
<1> SUFFICES ASSUME outcome'.ercd, outcome'.res # None
             PROVE  \E a \in Range(replied) :
                      a.msg \in Positive[request'.msg] /\ IsAllOf(outcome'.res, a)
  <2>1. replied' = replied
    BY TesterLeaves
  <2> QED
    BY <2>1 DEF PositiveIsWhole
<1>1. inbox # <<>> /\ (WaitSingleFrame(Head(inbox)) \/ LastPart(Head(inbox)))
  BY AnsweredCases
<1>2. CASE WaitSingleFrame(Head(inbox))
  BY <1>1, <1>2, SingleTaken
<1>3. CASE LastPart(Head(inbox))
  <2> DEFINE f == Head(inbox)
             s == Part(f)
  <2>1. /\ f.type = "CF" /\ response' = Append(response, s) /\ call = "receive"
        /\ IsPositive(response') /\ s.data = f.data
    BY <1>3 DEF LastPart, WaitCF, Conclude, Return, Part
  <2>2. f \in Range(inbox) /\ response \in Seq(SegmentType)
    BY <1>1, RangeTail, TesterTypes DEF ExchangeIInv, TesterTypeOK
  <2>3. f.data.pos # 0
    <3>1. f.data.pos >= FF_DATA
      BY <2>1, <2>2 DEF Stream
    <3> HIDE DEF f
    <3> QED
      BY <3>1, Sizes
  <2> HIDE DEF f, s
  <2>4. response'[1].data.pos = 0
    BY <2>1 DEF IsPositive
  <2>5. response # <<>>
    BY <2>1, <2>3, <2>4, Alone
  <2>6. response'[1] = response[1]
    BY <2>1, <2>2, <2>5, FirstStays
  <2>7. PICK a \in Messages :
          /\ a \in Range(replied) /\ a.length = tp.t_size /\ tp.t_size > ResponseSize
          /\ PartsOf(response, a) /\ (~overrun => InPlace(response))
    BY <2>1, <2>4, <2>5, <2>6, PartsOfAnswer
  <2>8. After(LastOf(response), inbox)
    BY <2>1, <2>5, PartsOfAnswer
  <2> QED
    BY <1>1, <1>3, <2>5, <2>7, <2>8, LastTaken
<1> QED
  BY <1>1, <1>2, <1>3

LEMMA ResponseOn ==
  ASSUME ExchangeIInv, HistoryTypes, WaitingEmpty, Stream, Response,
         TesterProceeds, call' = "receive"
  PROVE  Response'
<1>0. /\ tp \in TpType /\ inbox \in Seq(Frame) /\ response \in Seq(SegmentType)
      /\ UNCHANGED <<replied, overrun, txbuf, send>>
  BY TesterTypes, TesterLeaves DEF ExchangeIInv
<1>1. CASE SendFC
  <2>1. UNCHANGED <<call, response, inbox>> /\ tp'.t_size = tp.t_size
    BY <1>0, <1>1 DEF SendFC, TpType
  <2>2. NextKept
    BY <1>0 DEF NextKept, Sending
  <2> QED
    BY <1>0, <2>1, <2>2, ResponseKept
<1>2. CASE inbox # <<>> /\ TakeFrame(Head(inbox))
  <2> DEFINE f == Head(inbox)
             s == Part(f)
  <2>1. f \in Range(inbox) /\ inbox' = Tail(inbox) /\ s.type = f.type /\ s.data = f.data
        /\ f = inbox[1] /\ f \in Frame
    <3>1. inbox' = Tail(inbox)
      BY <1>2 DEF TakeFrame, HandleFC, WaitSingleFrame, WaitFirstFrame, WaitOtherFrame,
                  WaitCF, WaitCFError, Taken
    <3> QED
      BY <1>0, <1>2, <3>1, InboxTaken DEF Part
  <2>2. After(s, inbox')
    BY <1>0, <1>2, <2>1, HeadTaken
  <2>3. s \in SegmentType
    <3>1. f.type \in FrameTypes /\ f.data \in Data
      BY <2>1 DEF Frame
    <3> HIDE DEF f
    <3> QED
      BY <3>1 DEF Part, SegmentType, f
  <2> HIDE DEF f, s
  <2>4. TakeFrame(f)
    BY <1>2 DEF f
  <2>5. CASE WaitFirstFrame(f)
    <3>1. f.type = "FF" /\ response' = <<s>> /\ tp'.t_size = FF_DL(f)
      BY <1>0, <2>5 DEF WaitFirstFrame, TpType, s
    <3>2. PICK a \in Range(replied) : Begins(f, a)
      BY <2>1, <3>1 DEF Stream
    <3>3. s.data = Start(a) /\ a.length >= CAN_FRAME_SIZE /\ FF_DL(f) = a.length
      BY <2>1, <3>1, <3>2 DEF Begins
    <3>4. PartsOf(response', a) /\ InPlace(response')
      BY <2>1, <2>3, <3>1, <3>3, PartsBegun
    <3>5. Len(response') = 1 /\ response' # <<>> /\ response'[1] = s /\ LastOf(response') = s
      BY <3>1 DEF LastOf
    <3>6. ResponseSize' = 6
      BY <2>1, <3>1, <3>5, Sizes DEF ResponseSize
    <3>7. a.length = tp'.t_size /\ tp'.t_size > ResponseSize'
      <4>1. a.length \in Nat
        <5>1. a \in Messages
          BY <3>2, RangeIn DEF HistoryTypes
        <5>2. a.length \in 1 .. N_DATA_MAX
          BY <5>1, MessagesAssumption
        <5> QED
          BY <5>2, BufferAssumption
      <4> QED
        BY <3>1, <3>3, <3>6, <4>1, Sizes
    <3>8. After(LastOf(response'), inbox')
      BY <2>2, <3>5
    <3>9. \E m \in Range(replied)' :
            /\ m.length = tp'.t_size /\ tp'.t_size > ResponseSize'
            /\ PartsOf(response', m) /\ (~overrun' => InPlace(response'))
      BY <1>0, <3>2, <3>4, <3>7
    <3> QED
      BY <1>0, <3>8, <3>9, AfterKept DEF Response
  <2>6. CASE WaitOtherFrame(f)
    <3>1. response' = <<>>
      BY <2>6 DEF WaitOtherFrame, WaitingEmpty
    <3> QED
      BY <3>1 DEF Response
  <2>7. CASE WaitCF(f)
    <3>1. /\ call = "receive" /\ f.type = "CF" /\ response' = Append(response, s)
          /\ ~(tp.t_size - ResponseSize <= CF_DATA)
      BY <2>7 DEF WaitCF, Conclude, Return, s
    <3>2. LastOf(response') = s
      BY <1>0, <2>3, <3>1, LastAppended
    <3>3. After(LastOf(response'), inbox')
      BY <2>2, <3>2
    <3>4. ASSUME response'[1].type = "CF" /\ response'[1].data.pos # 0
          PROVE  Response'
      BY <1>0, <3>3, <3>4, AfterKept DEF Response
    <3>5. CASE response = <<>>
      <4>1. response'[1] = s
        BY <3>1, <3>5, Alone
      <4>2. s.data.pos >= FF_DATA
        BY <2>1, <3>1 DEF Stream
      <4>3. s.data.pos # 0
        BY <4>2, Sizes
      <4> QED
        BY <2>1, <3>1, <3>4, <4>1, <4>3
    <3>6. CASE response # <<>>
      <4>1. response'[1] = response[1]
        BY <1>0, <3>1, <3>6, FirstStays
      <4>2. CASE response[1].type = "CF" /\ response[1].data.pos # 0
        BY <3>4, <4>1, <4>2
      <4>3. CASE ~(response[1].type = "CF" /\ response[1].data.pos # 0)
        <5>1. /\ After(LastOf(response), inbox)
              /\ \E a \in Messages :
                   /\ a \in Range(replied) /\ a.length = tp.t_size
                   /\ tp.t_size > ResponseSize
                   /\ PartsOf(response, a) /\ (~overrun => InPlace(response))
          BY <3>1, <3>6, <4>3, PartsOfAnswer
        <5>2. PICK a \in Messages :
                /\ a \in Range(replied) /\ a.length = tp.t_size
                /\ PartsOf(response, a) /\ (~overrun => InPlace(response))
          BY <5>1
        <5>3. /\ a.length = tp'.t_size /\ tp'.t_size > ResponseSize'
              /\ PartsOf(response', a) /\ (~overrun => InPlace(response'))
          BY <1>2, <2>7, <3>1, <3>6, <5>1, <5>2, PartTaken DEF f
        <5>4. \E m \in Range(replied)' :
                /\ m.length = tp'.t_size /\ tp'.t_size > ResponseSize'
                /\ PartsOf(response', m) /\ (~overrun' => InPlace(response'))
          BY <1>0, <5>2, <5>3
        <5> QED
          BY <1>0, <3>3, <5>4, AfterKept DEF Response
      <4> QED
        BY <4>2, <4>3
    <3> QED
      BY <3>5, <3>6
  <2> QED
    BY <2>4, <2>5, <2>6, <2>7
    DEF TakeFrame, HandleFC, WaitSingleFrame, WaitCFError, GiveUp, Conclude, Return
<1> QED
  BY <1>1, <1>2
  DEF TesterProceeds, Proceed, SendCF, ReceiveUnknownState, AwaitAnswer, GiveUp, Return

-----------------------------------------------------------------------------
LEMMA StreamProceeds ==
  ASSUME ExchangeIInv, HistoryTypes, WaitingEmpty, Stream, Response,
         OneAnswer \/ ~overrun, TesterProceeds \/ TesterTimesOut
  PROVE  Stream' /\ Response' /\ PositiveIsWhole'
<1>0. inbox \in Seq(Frame) /\ UNCHANGED <<replied, overrun, txbuf, send>>
  BY TesterTypes, TesterLeaves DEF ExchangeIInv
<1>1. inbox' = inbox \/ (inbox # <<>> /\ inbox' = Tail(inbox))
  BY DEF TesterProceeds, TesterTimesOut, WaitTimeout, Proceed, SendCF, SendFC,
         ReceiveUnknownState, TakeFrame, HandleFC, WaitSingleFrame, WaitFirstFrame,
         WaitOtherFrame, WaitCF, WaitCFError, Taken
<1>2. Stream'
  BY <1>0, <1>1, StreamLeft
<1>3. Response'
  <2>1. CASE call' = "receive"
    <3>1. TesterProceeds
      BY <2>1 DEF TesterTimesOut, WaitTimeout, GiveUp, Return
    <3> QED
      BY <2>1, <3>1, ResponseOn
  <2>2. CASE call' # "receive"
    BY <2>2 DEF Response
  <2> QED
    BY <2>1, <2>2
<1>4. PositiveIsWhole'
  <2>1. CASE call' = "none"
    BY <2>1, WholeConcluded
  <2>2. CASE call' # "none"
    BY <2>2 DEF PositiveIsWhole
  <2> QED
    BY <2>1, <2>2
<1> QED
  BY <1>2, <1>3, <1>4

LEMMA StreamAsk ==
  ASSUME Stream, Ask
  PROVE  Stream' /\ Response' /\ PositiveIsWhole'
<1>0. UNCHANGED <<replied, overrun, txbuf, send>>
  BY TesterLeaves
<1>1. PICK m \in Script : Transmit(m)
  BY DEF Ask
<1>2. inbox' = inbox /\ call' \in {"none", "waitSForFF", "schedule_tx"}
      /\ (call' = "none" => outcome'.res = None)
  BY <1>1 DEF Transmit, TransmitSingle, TransmitFirst, AwaitAnswer, Return
<1>3. Stream'
  BY <1>0, <1>2 DEF Stream, SentNext, Continues, Follows, Sending
<1> QED
  BY <1>2, <1>3 DEF Response, PositiveIsWhole

-----------------------------------------------------------------------------
(* The answer that a tester who is not hasty gets is the last one, and it    *)
(* gets it once.                                                             *)
LEMMA LastConcluded ==
  ASSUME ExchangeIInv, HistoryTypes, TesterInv, OneAnswer, Stream, Response,
         TesterProceeds \/ TesterTimesOut, call' = "none", outcome'.res # None
  PROVE  /\ replied # <<>> /\ Place(outcome'.res, replied) = Len(replied)
         /\ ~Blank /\ call # "none" /\ TesterProceeds
<1> DEFINE r == LastOf(replied)
<1>1. /\ inbox # <<>> /\ call # "none" /\ TesterProceeds
      /\ WaitSingleFrame(Head(inbox)) \/ LastPart(Head(inbox))
  BY AnsweredCases
<1>2. replied \in Seq(Messages)
  BY DEF HistoryTypes
<1>3. ASSUME replied # <<>>, IsAllOf(outcome'.res, r)
      PROVE  Place(outcome'.res, replied) = Len(replied)
  BY <1>2, <1>3, PlaceLast
<1>4. CASE WaitSingleFrame(Head(inbox))
  <2>1. PICK a \in Range(replied) :
           /\ Head(inbox).data = Start(a) /\ Head(inbox) \in Range(inbox)
           /\ Head(inbox).type = "SF"
           /\ \A m : Start(m) = Start(a) => IsAllOf(outcome'.res, m)
    BY <1>1, <1>4, SingleTaken
  <2>2. replied # <<>> /\ Head(inbox).data.msg = r.msg /\ ~Blank
    BY <2>1 DEF OneAnswer, Blank
  <2>3. Start(r) = Start(a)
    <3>1. Start(a).msg = a.msg
      BY DEF Start
    <3>2. a.msg = r.msg
      BY <2>1, <2>2, <3>1
    <3> QED
      BY <3>2 DEF Start
  <2> QED
    BY <1>1, <1>3, <2>1, <2>2, <2>3
<1>5. CASE LastPart(Head(inbox))
  <2>1. call = "receive" /\ tp.state = "WAIT_CF"
    BY <1>5 DEF LastPart, WaitCF
  <2>2. response # <<>> /\ response[1].type = "FF" /\ ~Blank
    BY <2>1 DEF TesterInv, Blank
  <2>3. /\ replied # <<>> /\ tp.t_size = r.length /\ response[1].data.msg = r.msg
    BY <2>1, <2>2 DEF OneAnswer
  <2>4. /\ After(LastOf(response), inbox) /\ response \in Seq(SegmentType)
        /\ \E a \in Messages :
             /\ a \in Range(replied) /\ a.length = tp.t_size /\ tp.t_size > ResponseSize
             /\ PartsOf(response, a) /\ (~overrun => InPlace(response))
    BY <2>1, <2>2, PartsOfAnswer, TesterTypes DEF ExchangeIInv
  <2>5. PICK a \in Messages :
             /\ a \in Range(replied) /\ a.length = tp.t_size /\ tp.t_size > ResponseSize
             /\ PartsOf(response, a) /\ (~overrun => InPlace(response))
    BY <2>4
  <2>6. \A m \in Messages : m.length = a.length /\ m.msg = a.msg
               => IsAllOf(outcome'.res, m)
    BY <1>1, <1>5, <2>2, <2>4, <2>5, LastTaken
  <2>7. response[1].data.msg = a.msg
    <3>1. 1 \in 1 .. Len(response)
      BY <2>2, <2>4
    <3> QED
      BY <2>5, <3>1 DEF PartsOf
  <2>8. r \in Messages
    BY <1>2, <2>3, LastIn
  <2>9. IsAllOf(outcome'.res, r)
    BY <2>3, <2>5, <2>6, <2>7, <2>8
  <2> QED
    BY <1>1, <1>3, <2>2, <2>3, <2>9
<1> QED
  BY <1>1, <1>4, <1>5

LEMMA PlacesAppended ==
  ASSUME NEW s \in Seq(Nat), NEW n \in Nat, \A i \in 1 .. Len(s) : s[i] <= n
  PROVE  /\ Append(s, n) \in Seq(Nat)
         /\ \A i \in 1 .. Len(Append(s, n)) : Append(s, n)[i] <= n
OBVIOUS

LEMMA GotProceeds ==
  ASSUME ExchangeIInv, HistoryTypes, TesterInv, OneAnswer, Stream, Response, NotGotYet,
         ~hasty, TesterProceeds \/ TesterTimesOut
  PROVE  /\ NotGotYet' /\ replied' = replied
         /\ \/ got' = got
            \/ /\ replied # <<>> /\ got' = Append(got, Len(replied))
               /\ \A i \in 1 .. Len(got) : got[i] < Len(replied)
<1>0. /\ replied' = replied /\ (SenderQuiet => SenderQuiet') /\ (Blank => Blank')
      /\ Len(replied) \in Nat /\ got \in Seq(Nat)
  BY TesterLeaves, BlankProceeds DEF HistoryTypes, NotGotYet
<1>1. CASE TesterProceeds /\ Answered
  <2>1. /\ replied # <<>> /\ Place(outcome'.res, replied) = Len(replied)
        /\ ~Blank /\ call # "none" /\ call' = "none"
    BY <1>1, LastConcluded DEF Answered
  <2>2. got' = Append(got, Len(replied))
    BY <1>1, <2>1 DEF TesterProceeds
  <2>3. /\ \A i \in 1 .. Len(got) : got[i] < Len(replied)
        /\ \A i \in 1 .. Len(got) : got[i] <= Len(replied)
    BY <2>1 DEF NotGotYet
  <2>4. got' \in Seq(Nat) /\ \A i \in 1 .. Len(got') : got'[i] <= Len(replied)
    BY <1>0, <2>2, <2>3, PlacesAppended
  <2>5. NotGotYet'
    BY <1>0, <2>1, <2>4 DEF NotGotYet
  <2> QED
    BY <1>0, <2>1, <2>2, <2>3, <2>5
<1>2. CASE ~(TesterProceeds /\ Answered)
  <2>1. got' = got
    BY <1>2 DEF TesterProceeds, TesterTimesOut
  <2>2. call' # "none" => call # "none"
    BY DEF TesterProceeds, TesterTimesOut, WaitTimeout, Proceed, SendCF, SendFC,
           ReceiveUnknownState, TakeFrame, HandleFC, WaitSingleFrame, WaitFirstFrame,
           WaitOtherFrame, WaitCF, WaitCFError, GiveUp, Return
  <2>3. NotGotYet'
    BY <1>0, <2>1, <2>2 DEF NotGotYet
  <2> QED
    BY <1>0, <2>1, <2>3
<1> QED
  BY <1>1, <1>2

(* The other steps.                                                          *)
LEMMA GotKeptOn ==
  ASSUME NotGotYet, HistoryTypes, UNCHANGED <<got, call>>,
         replied' = replied, SenderQuiet /\ Blank => SenderQuiet' /\ Blank'
  PROVE  NotGotYet'
BY DEF NotGotYet

LEMMA GotAnswers ==
  ASSUME ExchangeIInv, HistoryTypes, Phase, NotGotYet, AnswerRequest
  PROVE  NotGotYet'
<1>0. UserTypes /\ replied \in Seq(Messages) /\ Len(replied) \in Nat /\ got' = got
  BY DEF ExchangeIInv, HistoryTypes, AnswerRequest
<1>1. PICK m \in Msgs : poll = <<m>>
  BY <1>0 DEF AnswerRequest, UserTypes
<1>2. PICK a \in Answers[poll[1]] :
        IF send.status = "TX_IDLE" THEN replied' = Append(replied, a)
        ELSE UNCHANGED <<nodeVars, replied>>
  BY DEF AnswerRequest
<1>3. a \in Messages
  BY <1>1, ScriptAssumption
<1>4. CASE send.status = "TX_IDLE"
  <2>1. Len(replied') = Len(replied) + 1
    BY <1>0, <1>2, <1>3, <1>4
  <2>2. \A i \in 1 .. Len(got) : got[i] \in Nat /\ got[i] <= Len(replied)
    BY DEF NotGotYet
  <2>3. \A i \in 1 .. Len(got) : got[i] < Len(replied') /\ got[i] <= Len(replied')
    BY <1>0, <2>1, <2>2
  <2> QED
    BY <1>0, <2>3 DEF NotGotYet
<1>5. CASE send.status # "TX_IDLE"
  <2>1. UNCHANGED <<replied, txbuf, send, user>> /\ UNCHANGED <<call, response, inbox>>
    BY <1>2, <1>5 DEF nodeVars, vars, AnswerRequest, testerVars
  <2>2. SenderQuiet /\ Blank => SenderQuiet' /\ Blank'
    BY <2>1 DEF SenderQuiet, Blank
  <2> QED
    BY <1>0, <2>1, <2>2, GotKeptOn
<1> QED
  BY <1>4, <1>5

LEMMA GotOthers ==
  ASSUME ExchangeIInv, HistoryTypes, NotGotYet,
         RxNotification \/ Poll \/ InCall \/ TakeRequest \/ TakeNothing
  PROVE  NotGotYet'
<1>0. UserTypes /\ send \in TxRuntime
  BY DEF ExchangeIInv, SendTypeOK
<1>1. /\ UNCHANGED <<got, call, replied, response, inbox>>
  BY DEF RxNotification, Poll, InCall, TakeRequest, TakeNothing, testerVars, historyVars
<1>2. Blank => Blank'
  BY <1>1 DEF Blank
<1>3. SenderQuiet => SenderQuiet'
  <2>1. CASE RxNotification
    BY <2>1, Notified
  <2>2. CASE InCall /\ SendStores
    <3> SUFFICES ASSUME SenderQuiet PROVE SenderQuiet'
      OBVIOUS
    <3>1. SendResult
      BY <2>2 DEF SendStores, SendData, SendLength, Go, SenderQuiet
    <3>2. user'.at = "none" /\ txbuf' = txbuf /\ send'.status = send.status
      BY <1>0, <3>1 DEF SendResult, Go, UserTypes, TxRuntime
    <3> QED
      BY <3>2 DEF SenderQuiet
  <2>3. CASE Poll \/ TakeRequest \/ TakeNothing \/ (InCall /\ ReceiveLoads)
    <3>1. user'.at \notin {"send_data", "send_length"} /\ UNCHANGED <<txbuf, send>>
      BY <1>0, <2>3
      DEF Poll, BeginReceive, TakeRequest, TakeNothing, ReceiveResult, Go, ReceiveLoads,
          ReceiveData, ReceiveLength, ReceiveClear, UserTypes
    <3> QED
      BY <3>1 DEF SenderQuiet
  <2> QED
    BY <2>1, <2>2, <2>3 DEF InCall
<1> QED
  BY <1>1, <1>2, <1>3, GotKeptOn

-----------------------------------------------------------------------------
(* All of it.                                                                *)
PromiseIInv ==
    /\ ExchangeIInv /\ HistoryTypes /\ IdleType /\ WaitingEmpty
    /\ ~crossed => SenderInv
    /\ PatientInv /\ StreamInv

LEMMA PromiseInitially == ExchangeInit => PromiseIInv
<1> SUFFICES ASSUME ExchangeInit PROVE PromiseIInv
  OBVIOUS
<1>1. ExchangeIInv
  BY ExchangeInitially
<1>2. /\ poll = None /\ asked = <<>> /\ served = <<>> /\ replied = <<>> /\ got = <<>>
      /\ call = "none" /\ inbox = <<>> /\ bus = <<>> /\ outcome.res = None
      /\ user.at = "none" /\ txbuf.length = 0 /\ send.status = "TX_IDLE"
      /\ rcv.status = "RX_IDLE" /\ rcv.N_result = "N_INVALID" /\ mailbox = <<>>
      /\ ~Pdu.is_valid /\ frame_type = Unknown
  BY DEF ExchangeInit, Init, UserInit, TesterInit, SendInit, RcvInit, Pdu
<1>3. HistoryTypes /\ IdleType /\ WaitingEmpty
  BY <1>2 DEF HistoryTypes, IdleType, WaitingEmpty
<1>4. SenderInv
  BY <1>2 DEF SenderInv, LongMessage, SendAccounting, Sending
<1>5. Blank /\ SenderQuiet /\ NoStartOnBus
  BY <1>2, RangeEmpty DEF Blank, SenderQuiet, NoStartOnBus
<1>6. Dead
  BY <1>2, <1>5 DEF Dead, AtRest, NothingToRead, Reading
<1>7. TesterInv /\ OneAnswer /\ NotGotYet /\ ServedInv
  BY <1>2, <1>5, RangeEmpty DEF TesterInv, OneAnswer, NotGotYet, ServedInv
<1>8. ~crossed /\ ~hasty
  BY DEF ExchangeInit
<1>9. Stream /\ Response /\ PositiveIsWhole
  BY <1>2, RangeEmpty DEF Stream, Response, PositiveIsWhole
<1> QED
  BY <1>1, <1>3, <1>4, <1>6, <1>7, <1>8, <1>9 DEF PromiseIInv, PatientInv, StreamInv

LEMMA PhaseStep ==
  ASSUME ExchangeIInv, ExchangeIInv', HistoryTypes, IdleType, SenderInv, Phase, TesterInv,
         ServedInv, ExchangeNext, ~hasty'
  PROVE  Phase'
<1>1. CASE NodeTick
  BY <1>1, PhaseTx, PhaseFc, PhaseRx, PhaseTimer DEF NodeTick, MainNetworkLayer
<1>2. CASE InCall
  <2>1. UNCHANGED <<testerVars, poll, asked, served>>
    BY <1>2 DEF InCall, historyVars
  <2> QED
    BY <1>2, <2>1, PhaseSendStores, PhaseLoads DEF InCall
<1> QED
  BY <1>1, <1>2, PhaseNotified, PhasePoll, PhaseResult, PhaseAnswer, PhaseAsk, PhaseProceeds
  DEF ExchangeNext

LEMMA ServedStep ==
  ASSUME ExchangeIInv, HistoryTypes, SenderInv, Phase, TesterInv, ServedInv,
         ExchangeNext, ~hasty'
  PROVE  ServedInv'
<1>1. CASE Ask
  BY <1>1, PhaseAsk
<1>2. CASE TakeRequest
  <2>1. ~hasty
    BY <1>2 DEF TakeRequest
  <2> QED
    BY <1>2, <2>1, ServedTake
<1>3. CASE ~Ask /\ ~TakeRequest
  <2>1. UNCHANGED <<asked, served>>
    BY <1>3 DEF ExchangeNext, NodeTick, RxNotification, Poll, InCall, TakeNothing,
                AnswerRequest, TesterProceeds, TesterTimesOut, historyVars
  <2> QED
    BY <2>1 DEF ServedInv
<1> QED
  BY <1>1, <1>2, <1>3

LEMMA TickGot ==
  ASSUME ExchangeIInv, ExchangeIInv', HistoryTypes, SenderInv, NotGotYet, NodeTick
  PROVE  NotGotYet'
<1>1. UNCHANGED <<got, call>> /\ replied' = replied
  BY Received
<1>2. SenderQuiet /\ Blank => SenderQuiet' /\ Blank'
  BY QuietTick
<1> QED
  BY <1>1, <1>2, GotKeptOn

LEMMA PatientStep ==
  ASSUME ExchangeIInv, ExchangeIInv', HistoryTypes, IdleType, SenderInv, Phase, TesterInv,
         OneAnswer, NotGotYet, ServedInv, Stream, Response, ~crossed, ExchangeNext, ~hasty'
  PROVE  /\ Phase' /\ TesterInv' /\ OneAnswer' /\ NotGotYet' /\ ServedInv' /\ ~crossed'
<1>1. Phase' /\ ServedInv'
  BY PhaseStep, ServedStep
<1>2. ~crossed'
  <2>1. CASE AnswerRequest
    <3>1. send.status = "TX_IDLE" => txbuf.length = 0
      BY <2>1, AnswerAlone
    <3>2. PICK a \in Answers[poll[1]] :
            IF send.status = "TX_IDLE" THEN crossed' = (crossed \/ txbuf.length # 0)
            ELSE crossed' = crossed
      BY <2>1 DEF AnswerRequest
    <3> QED
      BY <3>1, <3>2
  <2>2. CASE ~AnswerRequest
    BY <2>2 DEF ExchangeNext, NodeTick, RxNotification, Poll, InCall, TakeRequest,
                TakeNothing, Ask, TesterProceeds, TesterTimesOut, historyVars
  <2> QED
    BY <2>1, <2>2
<1>3. CASE NodeTick
  BY <1>1, <1>2, <1>3, TesterTick, OneTick, TickGot
<1>4. CASE RxNotification \/ Poll \/ InCall \/ TakeRequest \/ TakeNothing
  BY <1>1, <1>2, <1>4, TesterOthers, OneOthers, GotOthers
<1>5. CASE AnswerRequest
  BY <1>1, <1>2, <1>5, TesterOthers, OneOthers, GotAnswers
<1>6. CASE TesterProceeds \/ TesterTimesOut
  <2>1. ~hasty
    BY <1>6 DEF TesterProceeds, TesterTimesOut
  <2> QED
    BY <1>1, <1>2, <1>6, <2>1, TesterProceedsInv, OneProceeds, GotProceeds
<1>7. CASE Ask
  <2>1. TesterInv' /\ SenderQuiet' /\ Blank'
    BY <1>7, PhaseAsk
  <2>2. OneAnswer'
    BY <2>1 DEF OneAnswer, Blank
  <2>3. UNCHANGED <<got, replied>>
    BY <1>7 DEF Ask
  <2>4. NotGotYet'
    BY <2>1, <2>3 DEF NotGotYet
  <2> QED
    BY <1>1, <1>2, <2>1, <2>2, <2>4
<1> QED
  BY <1>3, <1>4, <1>5, <1>6, <1>7 DEF ExchangeNext

LEMMA StreamStep ==
  ASSUME ExchangeIInv, ExchangeIInv', HistoryTypes, WaitingEmpty, SenderInv,
         Stream, Response, PositiveIsWhole, ~crossed, ~hasty => OneAnswer,
         ExchangeNext, ~overrun' \/ ~hasty'
  PROVE  Stream' /\ Response' /\ PositiveIsWhole'
<1>0. (~hasty' => ~hasty) /\ (~overrun' => ~overrun)
  BY HistoryStep
<1>1. CASE NodeTick
  BY <1>0, <1>1, StreamTick
<1>2. CASE RxNotification \/ Poll \/ InCall \/ TakeRequest \/ TakeNothing \/ AnswerRequest
  BY <1>2, StreamOthers
<1>3. CASE Ask
  BY <1>3, StreamAsk
<1>4. CASE TesterProceeds \/ TesterTimesOut
  BY <1>0, <1>4, StreamProceeds
<1> QED
  BY <1>1, <1>2, <1>3, <1>4 DEF ExchangeNext

LEMMA PromiseUnchanged ==
  ASSUME PromiseIInv, ExchangeIInv', UNCHANGED exchange
  PROVE  PromiseIInv'
<1>1. /\ UNCHANGED <<txbuf, send, sendFC, sendTimer, out, pc, user, poll>>
      /\ UNCHANGED <<rxbuf, rcv, rcvFC, rcvTimer, pdu, frame_type, mailbox>>
      /\ UNCHANGED <<tp, call, request, response, outcome, inbox, bus>>
      /\ UNCHANGED <<asked, served, replied, got, crossed, disturbed, overrun, hasty>>
      /\ Pdu' = Pdu
  BY PduKept DEF exchange, nodeVars, vars, testerVars, historyVars
<1>2. HistoryTypes' /\ IdleType' /\ WaitingEmpty' /\ (~crossed => SenderInv)'
  BY <1>1
  DEF PromiseIInv, HistoryTypes, IdleType, WaitingEmpty, SenderInv, LongMessage,
      SendAccounting, Sending
<1>3. /\ (Blank => Blank') /\ (SenderQuiet => SenderQuiet') /\ NextKept
      /\ (~Blank => ~Blank') /\ (~SenderQuiet => ~SenderQuiet')
  BY <1>1 DEF Blank, SenderQuiet, NextKept, Sending
<1>4. StreamInv'
  <2> SUFFICES ASSUME Stream, Response, PositiveIsWhole
               PROVE  Stream' /\ Response' /\ PositiveIsWhole'
    BY <1>1 DEF PromiseIInv, StreamInv
  <2>1. PositiveIsWhole'
    BY <1>1 DEF PositiveIsWhole
  <2>2. Range(replied) \subseteq Range(replied)'
    BY <1>1
  <2> QED
    BY <1>1, <1>3, <2>1, <2>2, StreamKept, ResponseKept
<1>5. PatientInv'
  <2> SUFFICES ASSUME Phase, TesterInv, OneAnswer, NotGotYet, ServedInv
               PROVE  Phase' /\ TesterInv' /\ OneAnswer' /\ NotGotYet' /\ ServedInv'
    BY <1>1 DEF PromiseIInv, PatientInv, Phase
  <2>1. TesterInv' /\ OneAnswer' /\ NotGotYet' /\ ServedInv'
    BY <1>1, <1>3 DEF TesterInv, OneAnswer, NotGotYet, ServedInv, Sending
  <2>2. CASE Live
    <3>1. (NotYetGranted => NotYetGranted') /\ SenderQuiet' /\ Blank'
      BY <1>1, <1>3, <2>2 DEF NotYetGranted, Live
    <3>2. Live'
      BY <1>1, <2>2, <3>1, LiveKept
    <3> QED
      BY <2>1, <3>2 DEF Phase
  <2>3. CASE Dead
    <3>1. Dead'
      BY <1>1, <1>3, <2>3, DeadKept DEF Dead
    <3> QED
      BY <2>1, <3>1 DEF Phase
  <2> QED
    BY <2>2, <2>3 DEF Phase
<1> QED
  BY <1>2, <1>4, <1>5 DEF PromiseIInv

LEMMA PromiseStep == PromiseIInv /\ [ExchangeNext]_exchange => PromiseIInv'
<1> SUFFICES ASSUME PromiseIInv, [ExchangeNext]_exchange
             PROVE  PromiseIInv'
  OBVIOUS
<1>1. ExchangeIInv /\ ExchangeIInv'
  BY ExchangeStep DEF PromiseIInv
<1>2. CASE UNCHANGED exchange
  BY <1>1, <1>2, PromiseUnchanged
<1>3. CASE ExchangeNext
  <2>1. /\ HistoryTypes' /\ (~hasty' => ~hasty) /\ (~crossed' => ~crossed)
        /\ (~overrun' => ~overrun)
    BY <1>1, <1>3, HistoryStep DEF PromiseIInv
  <2>2. IdleType' /\ WaitingEmpty'
    BY <1>1, <1>3, IdleTypeStep, WaitingEmptyStep DEF PromiseIInv, ExchangeIInv
  <2>3. ~crossed' => SenderInv'
    BY <1>1, <1>3, SenderStep DEF PromiseIInv
  <2>4. PatientInv'
    <3> SUFFICES ASSUME ~hasty'
                 PROVE  /\ Phase' /\ TesterInv' /\ OneAnswer' /\ NotGotYet' /\ ServedInv'
                        /\ ~crossed'
      BY DEF PatientInv, Phase
    <3>1. /\ Phase /\ TesterInv /\ OneAnswer /\ NotGotYet /\ ServedInv /\ ~crossed
          /\ ~hasty
      BY <2>1 DEF PromiseIInv, PatientInv, Phase
    <3>2. SenderInv /\ Stream /\ Response /\ HistoryTypes /\ IdleType
      BY <3>1 DEF PromiseIInv, StreamInv
    <3> QED
      BY <1>1, <1>3, <3>1, <3>2, PatientStep
  <2>5. StreamInv'
    <3> SUFFICES ASSUME ~crossed', ~overrun' \/ ~hasty'
                 PROVE  Stream' /\ Response' /\ PositiveIsWhole'
      BY DEF StreamInv
    <3>1. /\ SenderInv /\ Stream /\ Response /\ PositiveIsWhole /\ HistoryTypes /\ WaitingEmpty
          /\ ~crossed /\ (~hasty => OneAnswer)
      BY <2>1 DEF PromiseIInv, StreamInv, PatientInv
    <3> QED
      BY <1>1, <1>3, <3>1, StreamStep
  <2> QED
    BY <1>1, <2>1, <2>2, <2>3, <2>4, <2>5 DEF PromiseIInv
<1> QED
  BY <1>2, <1>3

-----------------------------------------------------------------------------
LEMMA PromiseHolds == ExchangeSpec => []PromiseIInv
BY PromiseInitially, PromiseStep, PTL DEF ExchangeSpec

(* A positive result of dcm.transmit is a whole answer of the server, of the *)
(* service that was asked for, for every tester, block size, buffer and      *)
(* queue; only a hasty one may get something else, if answers crossed or its *)
(* library had no room for a frame                                           *)
(* (dcm.py:117-142, cantp.py:254-350, can_tp.c:269-292).                     *)
THEOREM PositiveIsWholeHolds == ExchangeSpec => []PositiveIsWhole
<1>1. PromiseIInv => PositiveIsWhole
  BY DEF PromiseIInv, PatientInv, StreamInv, PositiveIsWhole
<1> QED
  BY <1>1, PromiseHolds, PTL

(* While the tester asks only when nothing of an earlier request can come,   *)
(* a request is either on its way to the server, whole or with a gap that    *)
(* is never closed, or it is lost and the node is ready for the next one; no *)
(* answer crosses another (can_tp.c:296-334, 571-740, cantp.py:154-350).     *)
THEOREM PatientHolds == ExchangeSpec => []PatientInv
<1>1. PromiseIInv => PatientInv
  BY DEF PromiseIInv
<1> QED
  BY <1>1, PromiseHolds, PTL

(* Frames of an answer that come to the tester follow each other, up to what *)
(* it returns, for a hasty tester too (can_tp.c:269-292, 397-542,            *)
(* cantp.py:254-350).                                                        *)
THEOREM StreamHolds == ExchangeSpec => []StreamInv
<1>1. PromiseIInv => StreamInv
  BY DEF PromiseIInv
<1> QED
  BY <1>1, PromiseHolds, PTL

LEMMA RequestsStep ==
  ASSUME PromiseIInv, [ExchangeNext]_exchange
  PROVE  [Requesting!Next]_Requesting!service
<1>0. ExchangeIInv /\ HistoryTypes /\ asked \in Seq(Script)
  BY DEF PromiseIInv, HistoryTypes
<1>1. CASE Ask
  <2>1. PICK m \in Script : asked' = Append(asked, m)
    BY <1>1 DEF Ask
  <2>2. served' = served
    BY <1>1 DEF Ask
  <2> QED
    BY <2>1, <2>2 DEF Requesting!Next, Requesting!Submit
<1>2. CASE TakeRequest /\ ~hasty
  <2> DEFINE n == Len(asked)
  <2>1. Phase /\ TesterInv /\ ServedInv
    BY <1>2 DEF PromiseIInv, PatientInv, Phase
  <2>2. Place(user.got.segs, asked) = n /\ NotServed /\ asked # <<>>
    BY <1>0, <1>2, <2>1, RequestTaken
  <2>3. served' = Append(served, n) /\ asked' = asked
    BY <1>2, <2>2 DEF TakeRequest
  <2>4. n \in DOMAIN asked
    BY <1>0, <2>2
  <2>5. \A j \in DOMAIN served : served[j] < n
    <3>1. DOMAIN served = 1 .. Len(served)
      BY <2>1 DEF ServedInv
    <3> QED
      BY <2>2, <3>1 DEF NotServed
  <2> HIDE DEF n
  <2> QED
    BY <2>3, <2>4, <2>5 DEF Requesting!Next, Requesting!Deliver
<1>3. CASE TakeRequest /\ hasty
  BY <1>3 DEF TakeRequest, Requesting!service
<1>4. CASE ~Ask /\ ~TakeRequest
  <2>1. UNCHANGED <<asked, served>>
    BY <1>4 DEF ExchangeNext, NodeTick, RxNotification, Poll, InCall, TakeNothing,
                AnswerRequest, TesterProceeds, TesterTimesOut, historyVars, exchange
  <2> QED
    BY <2>1 DEF Requesting!service
<1> QED
  BY <1>1, <1>2, <1>3, <1>4

(* What the server takes from receive_network_layer is what was promised of  *)
(* requests (can_tp.c:296-334, 571-740, cantp.py:154-184).                   *)
THEOREM RequestsDeliveredHolds == ExchangeSpec => RequestsDelivered
<1>1. ExchangeInit => Requesting!Init
  BY DEF ExchangeInit, Requesting!Init
<1>2. PromiseIInv /\ [ExchangeNext]_exchange => [Requesting!Next]_Requesting!service
  BY RequestsStep
<1> QED
  BY <1>1, <1>2, PromiseHolds, PTL DEF ExchangeSpec, RequestsDelivered, Requesting!Spec

LEMMA AnswersStep ==
  ASSUME PromiseIInv, [ExchangeNext]_exchange
  PROVE  [Answering!Next]_Answering!service
<1>0. ExchangeIInv /\ HistoryTypes /\ UserTypes /\ replied \in Seq(Messages)
  BY DEF PromiseIInv, HistoryTypes, ExchangeIInv
<1>1. CASE AnswerRequest
  <2>1. PICK m \in Msgs : poll = <<m>>
    BY <1>0, <1>1 DEF AnswerRequest, UserTypes
  <2>2. PICK a \in Answers[poll[1]] :
          IF send.status = "TX_IDLE" THEN replied' = Append(replied, a)
          ELSE replied' = replied
    BY <1>1 DEF AnswerRequest
  <2>3. a \in Messages /\ got' = got
    BY <1>1, <2>1, ScriptAssumption DEF AnswerRequest
  <2>4. replied' = Append(replied, a) \/ replied' = replied
    BY <2>2
  <2> QED
    BY <2>3, <2>4 DEF Answering!Next, Answering!Submit, Answering!service
<1>2. CASE (TesterProceeds \/ TesterTimesOut) /\ ~hasty
  <2> DEFINE n == Len(replied)
  <2>1. /\ TesterInv /\ OneAnswer /\ NotGotYet /\ Stream /\ Response
    BY <1>2 DEF PromiseIInv, PatientInv, StreamInv
  <2>2. /\ replied' = replied
        /\ \/ got' = got
           \/ /\ replied # <<>> /\ got' = Append(got, n)
              /\ \A i \in 1 .. Len(got) : got[i] < n
    BY <1>0, <1>2, <2>1, GotProceeds
  <2>3. CASE got' = got
    BY <2>2, <2>3 DEF Answering!service
  <2>4. CASE /\ replied # <<>> /\ got' = Append(got, n)
             /\ \A i \in 1 .. Len(got) : got[i] < n
    <3>1. n \in DOMAIN replied
      BY <1>0, <2>4
    <3>2. DOMAIN got = 1 .. Len(got)
      BY <2>1 DEF NotGotYet
    <3>3. \A j \in DOMAIN got : got[j] < n
      BY <2>4, <3>2
    <3> HIDE DEF n
    <3> QED
      BY <2>2, <2>4, <3>1, <3>3 DEF Answering!Next, Answering!Deliver
  <2> QED
    BY <2>2, <2>3, <2>4
<1>3. CASE TesterProceeds /\ hasty
  BY <1>3 DEF TesterProceeds, Answering!service
<1>4. CASE ~AnswerRequest /\ ~TesterProceeds
  <2>1. UNCHANGED <<replied, got>>
    BY <1>4 DEF ExchangeNext, NodeTick, RxNotification, Poll, InCall, TakeNothing,
                TakeRequest, Ask, TesterTimesOut, historyVars, exchange
  <2> QED
    BY <2>1 DEF Answering!service
<1> QED
  BY <1>1, <1>2, <1>3, <1>4

(* What dcm.transmit returns is what was promised of answers                 *)
(* (cantp.py:254-350, can_tp.c:269-292, 397-542).                            *)
THEOREM AnswersDeliveredHolds == ExchangeSpec => AnswersDelivered
<1>1. ExchangeInit => Answering!Init
  BY DEF ExchangeInit, Answering!Init
<1>2. PromiseIInv /\ [ExchangeNext]_exchange => [Answering!Next]_Answering!service
  BY AnswersStep
<1> QED
  BY <1>1, <1>2, PromiseHolds, PTL DEF ExchangeSpec, AnswersDelivered, Answering!Spec

-----------------------------------------------------------------------------
(* The frames of the tester that the node has not looked at (Flight).        *)

(* A frame before the others.                                                *)
LEMMA Led ==
  ASSUME NEW S, NEW s \in Seq(S), NEW x \in S
  PROVE  /\ <<x>> \o s \in Seq(S) /\ <<x>> \o s # <<>>
         /\ (<<x>> \o s)[1] = x /\ Tail(<<x>> \o s) = s
         /\ Len(<<x>> \o s) = Len(s) + 1
<1> DEFINE t == <<x>> \o s
<1>1. <<x>> \in Seq(S) /\ Len(<<x>>) = 1 /\ <<x>>[1] = x /\ Len(s) \in Nat
  OBVIOUS
<1>2. /\ t \in Seq(S) /\ Len(t) = 1 + Len(s)
      /\ \A i \in 1 .. 1 + Len(s) : t[i] = IF i <= 1 THEN x ELSE s[i - 1]
  BY <1>1, ConcatProperties
<1> HIDE DEF t
<1>3. t # <<>> /\ t[1] = x
  BY <1>1, <1>2
<1>4. Tail(t) \in Seq(S) /\ Len(Tail(t)) = Len(s) /\ \A i \in 1 .. Len(s) : Tail(t)[i] = s[i]
  BY <1>1, <1>2, <1>3, TailOf
<1>5. Tail(t) = s
  BY <1>4, SeqEqual
<1> QED
  BY <1>1, <1>2, <1>3, <1>5 DEF t

(* What is behind the bus are frames.                                        *)
LEMMA BehindType ==
  ASSUME ExchangeIInv
  PROVE  /\ bus \in Seq(Frame) /\ mailbox \in Seq(Frame) /\ pdu.f \in Frame
         /\ Unseen \in Seq(Frame) /\ pdu.is_valid \in BOOLEAN
         /\ mailbox # <<>> => mailbox[1] \in Frame /\ mailbox = <<mailbox[1]>>
<1>1. /\ bus \in Seq(Frame) /\ mailbox \in Seq(Frame) /\ Len(mailbox) <= 1
      /\ pdu \in [is_valid : BOOLEAN, f : Frame]
  BY DEF ExchangeIInv, RcvTypeOK, TesterTypeOK
<1>2. ASSUME mailbox # <<>>
      PROVE  mailbox[1] \in Frame /\ mailbox = <<mailbox[1]>>
  <2>1. Len(mailbox) = 1
    BY <1>1, <1>2, TailOf
  <2>5. mailbox[1] \in Frame
    BY <1>1, <2>1, ElementOfSeq
  <2> DEFINE g == mailbox[1]
             t == <<g>>
  <2>2. t \in Seq(Frame) /\ Len(t) = 1 /\ t[1] = g
    BY <2>5
  <2> HIDE DEF t
  <2>3. \A i \in 1 .. Len(mailbox) : mailbox[i] = t[i]
    BY <2>1, <2>2
  <2>4. mailbox = t
    BY <1>1, <2>1, <2>2, <2>3, SeqEqual
  <2> QED
    BY <2>4, <2>5 DEF t
<1>3. pdu.f \in Frame /\ pdu.is_valid \in BOOLEAN
  BY <1>1
<1>4. Unseen \in Seq(Frame)
  BY <1>3 DEF Unseen
<1> QED
  BY <1>1, <1>2, <1>3, <1>4

LEMMA FlightType ==
  ASSUME ExchangeIInv
  PROVE  Flight \in Seq(Frame) /\ Len(Flight) \in Nat
<1>1. mailbox \o bus \in Seq(Frame) /\ Flight \in Seq(Frame)
  BY BehindType, ConcatProperties DEF Flight
<1> QED
  BY <1>1

LEMMA FlightEmpty ==
  ASSUME ExchangeIInv
  PROVE  Flight = <<>> <=> ~pdu.is_valid /\ mailbox = <<>> /\ bus = <<>>
<1>1. Unseen = <<>> <=> ~pdu.is_valid
  BY DEF Unseen
<1>2. mailbox \o bus \in Seq(Frame)
  BY BehindType, ConcatProperties
<1>3. Flight = <<>> <=> Unseen = <<>> /\ mailbox \o bus = <<>>
  BY BehindType, <1>2, ConcatEqualIffEmpty DEF Flight
<1>4. mailbox \o bus = <<>> <=> mailbox = <<>> /\ bus = <<>>
  BY BehindType, ConcatEqualIffEmpty
<1> QED
  BY <1>1, <1>3, <1>4

(* What the tester writes comes last.                                        *)
LEMMA FlightWritten ==
  ASSUME ExchangeIInv, NEW f \in Frame, bus' = Append(bus, f), UNCHANGED <<pdu, mailbox>>
  PROVE  Flight' = Append(Flight, f)
<1>1. <<f>> \in Seq(Frame) /\ bus \in Seq(Frame) /\ mailbox \in Seq(Frame)
      /\ Unseen \in Seq(Frame)
  BY BehindType
<1>2. bus' = bus \o <<f>>
  BY <1>1, AppendIsConcat
<1>3. Flight' = Unseen \o (mailbox \o (bus \o <<f>>))
  BY <1>2 DEF Flight, Unseen
<1>4. mailbox \o (bus \o <<f>>) = (mailbox \o bus) \o <<f>>
  BY <1>1, ConcatAssociative
<1>5. mailbox \o bus \in Seq(Frame)
  BY <1>1, ConcatProperties
<1>6. Unseen \o ((mailbox \o bus) \o <<f>>) = Flight \o <<f>>
  BY <1>1, <1>5, ConcatAssociative DEF Flight
<1>7. Flight \o <<f>> = Append(Flight, f)
  BY FlightType, AppendIsConcat
<1> QED
  BY <1>3, <1>4, <1>6, <1>7

(* The driver hands a frame on.                                              *)
LEMMA FlightNotified ==
  ASSUME ExchangeIInv, RxNotification, ~disturbed'
  PROVE  Flight' = Flight /\ pdu' = pdu
<1>1. /\ mailbox = <<>> /\ mailbox' = <<Head(bus)>> /\ pdu' = pdu
      /\ bus # <<>> /\ bus' = Tail(bus)
  BY DEF RxNotification, Deliver, RxFrameData
<1>2. Head(bus) \in Frame /\ Tail(bus) \in Seq(Frame) /\ bus \in Seq(Frame)
  BY <1>1, BehindType, HeadTailProperties
<1>3. <<Head(bus)>> \o Tail(bus) = bus
  <2> DEFINE t == <<Head(bus)>> \o Tail(bus)
  <2>1. /\ t \in Seq(Frame) /\ Len(t) = Len(Tail(bus)) + 1 /\ t[1] = Head(bus)
        /\ Tail(t) = Tail(bus) /\ t # <<>>
    BY <1>2, Led
  <2> HIDE DEF t
  <2>2. /\ Len(bus) \in Nat /\ Len(Tail(bus)) = Len(bus) - 1 /\ Head(bus) = bus[1]
        /\ \A i \in 1 .. Len(bus) - 1 : Tail(bus)[i] = bus[i + 1]
    BY <1>1, <1>2, TailOf
  <2>3. \A i \in 1 .. Len(t) - 1 : Tail(t)[i] = t[i + 1]
    BY <2>1, TailOf
  <2>4. Len(t) = Len(bus)
    BY <2>1, <2>2
  <2>5. ASSUME NEW i \in 1 .. Len(t) PROVE t[i] = bus[i]
    <3>1. CASE i = 1
      BY <3>1, <2>1, <2>2
    <3>2. CASE i # 1
      <4>1. i - 1 \in 1 .. Len(t) - 1 /\ (i - 1) + 1 = i
        BY <3>2, <2>2, <2>4
      <4> QED
        BY <4>1, <2>1, <2>2, <2>3, <2>4
    <3> QED
      BY <3>1, <3>2
  <2> QED
    BY <1>2, <2>1, <2>4, <2>5, SeqEqual DEF t
<1>4. <<>> \o bus = bus
  BY <1>2, ConcatEmptySeq
<1>5. mailbox \o bus = bus /\ mailbox' \o bus' = bus /\ Unseen' = Unseen
  BY <1>1, <1>3, <1>4 DEF Unseen
<1>6. Flight = Unseen \o bus
  BY <1>5 DEF Flight
<1>7. Flight' = Unseen \o bus
  BY <1>5 DEF Flight
<1> QED
  BY <1>1, <1>6, <1>7

(* The receiver takes the first frame, and keeps it or not.                  *)
LEMMA FlightTaken ==
  ASSUME ExchangeIInv, bus' = bus, NEW v \in BOOLEAN, Take(v), ~(pdu.is_valid /\ mailbox # <<>>)
  PROVE  /\ pdu'.is_valid = (Pdu.is_valid /\ v)
         /\ ~Pdu.is_valid => Flight' = Flight /\ ~pdu.is_valid
         /\ Pdu.is_valid => /\ Flight # <<>> /\ Flight[1] = Pdu.f
                            /\ v => Flight' = Flight
                            /\ ~v => Flight' = Tail(Flight)
<1>1. mailbox' = <<>> /\ pdu' = [Pdu EXCEPT !.is_valid = @ /\ v]
  BY DEF Take
<1>2. Pdu \in [is_valid : BOOLEAN, f : Frame]
  <2>1. pdu \in [is_valid : BOOLEAN, f : Frame]
    BY DEF ExchangeIInv, RcvTypeOK
  <2> QED
    BY <2>1, BehindType DEF Pdu
<1>3. pdu'.is_valid = (Pdu.is_valid /\ v) /\ pdu'.f = Pdu.f
  BY <1>1, <1>2
<1>4. <<>> \o bus = bus /\ Pdu.f \in Frame /\ bus \in Seq(Frame)
  BY <1>2, BehindType, ConcatEmptySeq
<1>5. Flight' = IF Pdu.is_valid /\ v THEN <<Pdu.f>> \o bus ELSE bus
  <2>1. mailbox' \o bus' = bus
    BY <1>1, <1>4
  <2>2. Unseen' = IF Pdu.is_valid /\ v THEN <<Pdu.f>> ELSE <<>>
    BY <1>3 DEF Unseen
  <2>3. Flight' = (IF Pdu.is_valid /\ v THEN <<Pdu.f>> ELSE <<>>) \o bus
    BY <2>1, <2>2 DEF Flight
  <2> QED
    BY <2>3, <1>4
<1>6. CASE ~Pdu.is_valid
  <2>1. mailbox = <<>> /\ ~pdu.is_valid
    BY <1>6 DEF Pdu
  <2>2. Flight = bus
    BY <2>1, <1>4 DEF Flight, Unseen
  <2> QED
    BY <1>3, <1>5, <1>6, <2>1, <2>2
<1>7. CASE Pdu.is_valid
  <2>1. Flight = <<Pdu.f>> \o bus
    <3>1. CASE mailbox = <<>>
      BY <3>1, <1>4, <1>7 DEF Pdu, Flight, Unseen
    <3>2. CASE mailbox # <<>>
      <4>1. ~pdu.is_valid /\ mailbox = <<mailbox[1]>> /\ Pdu.f = mailbox[1]
        BY <3>2, BehindType DEF Pdu
      <4>2. <<>> \o (<<Pdu.f>> \o bus) = <<Pdu.f>> \o bus
        BY <1>4, Led, ConcatEmptySeq
      <4> QED
        BY <4>1, <4>2 DEF Flight, Unseen
    <3> QED
      BY <3>1, <3>2
  <2>2. /\ <<Pdu.f>> \o bus # <<>> /\ (<<Pdu.f>> \o bus)[1] = Pdu.f
        /\ Tail(<<Pdu.f>> \o bus) = bus
    BY <1>4, Led
  <2> QED
    BY <1>3, <1>5, <1>7, <2>1, <2>2
<1> QED
  BY <1>6, <1>7

-----------------------------------------------------------------------------
(* What leaves an exchange that nothing disturbs as it is.                   *)

(* What the steps of an exchange that nothing disturbs may rely on.          *)
Calm == ExchangeIInv /\ HistoryTypes /\ IdleType /\ SenderInv /\ Smooth /\ Unfailed

(* Where the last request can be on its way to the server.                   *)
Way == Between \/ Judges \/ Takes

(* What was disturbed stays disturbed.                                       *)
LEMMA SmoothBefore ==
  ASSUME HistoryTypes, ExchangeNext, Smooth'
  PROVE  Smooth
<1>1. ~disturbed' => ~disturbed
  BY DEF ExchangeNext, NodeTick, RxNotification, Poll, InCall, TakeRequest, TakeNothing,
         AnswerRequest, Ask, TesterProceeds, TesterTimesOut, historyVars
<1>2. asked' = asked \/ \E m \in Script : asked' = Append(asked, m)
  BY DEF ExchangeNext, NodeTick, RxNotification, Poll, InCall, TakeRequest, TakeNothing,
         AnswerRequest, Ask, TesterProceeds, TesterTimesOut, historyVars
<1>3. Range(asked) \subseteq Range(asked')
  <2>1. CASE asked' = asked
    BY <2>1
  <2>2. ASSUME NEW m \in Script, asked' = Append(asked, m)
        PROVE  Range(asked) \subseteq Range(asked')
    <3>1. Range(asked') = Range(asked) \cup {m}
      BY <2>2, RangeAppend DEF HistoryTypes
    <3> QED
      BY <3>1
  <2> QED
    BY <1>2, <2>1, <2>2
<1> QED
  BY <1>1, <1>3 DEF Smooth, EndsWrong

(* The request fits into Rx_buf, and its last frame ends no block.           *)
LEMMA RequestFits ==
  ASSUME Calm, asked # <<>>
  PROVE  request.length <= N_DATA_MAX /\ ~EndsBlock(request) /\ request.length \in 1 .. 4095
<1>1. asked \in Seq(Script) /\ request = LastOf(asked)
  BY DEF Calm, HistoryTypes, Unfailed
<1>2. asked[Len(asked)] \in Range(asked)
  BY <1>1, RangeTail
<1>3. ~EndsWrong(request)
  BY <1>1, <1>2 DEF Calm, Smooth, LastOf
<1>4. request \in Requests
  BY DEF Calm, ExchangeIInv, TesterTypeOK
<1>5. request.length \in 1 .. 4095
  BY <1>4 DEF Requests
<1>6. ~EndsBlock(request)
  BY <1>3 DEF EndsWrong
<1>7. request.length <= N_DATA_MAX
  <2>1. ~(request.length > N_DATA_MAX)
    BY <1>3, Zenon DEF EndsWrong
  <2>2. request.length \in Nat /\ N_DATA_MAX \in Nat
    BY <1>5, LengthType, BufferAssumption
  <2> QED
    BY <2>1, <2>2
<1> QED
  BY <1>5, <1>6, <1>7

(* The way of a request depends on these only.                               *)
LEMMA WayKept ==
  ASSUME Way, UNCHANGED <<Flight, call, tp, request, inbox, rcvFC>>,
         UNCHANGED <<rcv.status, rcv.length, rcv.CF_SN>>,
         rcv'.N_result \in {rcv.N_result, "N_INVALID"},
         rxbuf'.segs = rxbuf.segs, pdu'.is_valid = pdu.is_valid
  PROVE  Way'
<1>1. /\ \A k : Granted(k) <=> Granted(k)'
      /\ \A k : BeginsAfter(k) <=> BeginsAfter(k)'
      /\ \A k : Announces(k) <=> Announces(k)'
      /\ \A i : BeginsAt(i) <=> BeginsAt(i)'
  BY DEF Granted, Grants, BeginsAfter, Announces, BeginsAt, Announced
<1>2. Rests <=> Rests'
  BY DEF Rests
<1>3. Between => Between'
  BY <1>1, <1>2 DEF Between
<1>4. Judges => Judges'
  BY <1>1 DEF Judges
<1>5. Takes => Takes'
  <2>1. \A k : /\ NumberAfter(k)' = NumberAfter(k)
               /\ Writes(k) => Writes(k)'
               /\ Wrote(k) => Wrote(k)'
    BY <1>1 DEF NumberAfter, Writes, Wrote, Grants
  <2>2. (Receiving => Receiving') /\ (EndsWithin => EndsWithin')
    BY DEF Receiving, EndsWithin
  <2> QED
    BY <2>1, <2>2 DEF Takes
<1> QED
  BY <1>3, <1>4, <1>5 DEF Way

(* So does what the server has of it,                                        *)
LEMMA CopyKept ==
  ASSUME CopyInv, UNCHANGED <<Flight, call, request, rxbuf, rcv, user, poll>>,
         rcvFC'.FS = rcvFC.FS
  PROVE  CopyInv'
<1>1. /\ Receiving <=> Receiving'
      /\ Reading <=> Reading'
  BY DEF Receiving, Reading
<1>2. Fresh <=> Fresh'
  BY <1>1 DEF Fresh
<1>3. Mine => Mine'
  BY <1>1 DEF Mine, Drained
<1>4. CopyTrue => CopyTrue'
  BY <1>3 DEF CopyTrue
<1> QED
  BY <1>1, <1>2, <1>3, <1>4 DEF CopyInv

(* and so do both together.                                                  *)
LEMMA RequestKept ==
  ASSUME RequestSide, UNCHANGED <<Flight, call, request, rxbuf, rcv, rcvFC, user, poll,
                                  tp, inbox>>,
         pdu'.is_valid = pdu.is_valid, SenderQuiet'
  PROVE  RequestSide'
<1>1. Way'
  BY WayKept DEF RequestSide, Way
<1>2. CopyInv'
  BY CopyKept DEF RequestSide
<1>3. Somewhere => Somewhere'
  BY DEF Somewhere, Receiving, Reading, Grants
<1>4. Drained => Drained'
  BY DEF Drained
<1> QED
  BY <1>1, <1>2, <1>3, <1>4 DEF RequestSide, SenderQuiet, Way

(* The steps that leave the tester's side and the receiver alone.            *)
LEMMA UnfailedKept ==
  ASSUME Unfailed, UNCHANGED <<outcome, asked, request, call>>, sendFC'.FS = sendFC.FS
  PROVE  Unfailed'
BY DEF Unfailed

(* The request is on its way, or the answer.                                 *)
Sides == RequestSide \/ AnswerSide

(* The same for the answer.                                                  *)
LEMMA OverKept ==
  ASSUME RequestOver, UNCHANGED <<Flight, rcv, rcvFC, user, poll>>,
         pdu'.is_valid = pdu.is_valid
  PROVE  RequestOver'
BY DEF RequestOver, Rests, Granted, Grants, Reading

LEMMA SentFramesKept ==
  ASSUME SentFrames, UNCHANGED <<inbox, call, tp, response>>
  PROVE  SentFrames' /\ \A n : Lacks(n)' = Lacks(n) /\ ExpectedAfter(n)' = ExpectedAfter(n)
BY DEF SentFrames, Lacks, ExpectedAfter, ResponseSize

LEMMA AnswerKept ==
  ASSUME AnswerSide, RequestOver',
         UNCHANGED <<inbox, call, tp, response, user, txbuf>>,
         UNCHANGED <<send.status, send.length, send.CF_SN>>
  PROVE  AnswerSide'
<1>1. Prepared => Prepared'
  BY DEF Prepared
<1>2. SentSingle => SentSingle'
  BY DEF SentSingle, SenderQuiet
<1>3. SentMultiple => SentMultiple'
  BY SentFramesKept DEF SentMultiple, SenderQuiet, Sending
<1> QED
  BY <1>1, <1>2, <1>3 DEF AnswerSide

(* The node sends the frame that the tester expects after the others.        *)
LEMMA SentFramesAppended ==
  ASSUME SentFrames, inbox \in Seq(Frame), NEW g \in Frame, NEW n \in Nat, n = Len(inbox),
         g.type = "CF", g.lo = ExpectedAfter(n), Lacks(n) > 0,
         inbox' = Append(inbox, g), UNCHANGED <<call, tp, response>>
  PROVE  /\ SentFrames' /\ Len(inbox') = n + 1
         /\ Lacks(n + 1)' = Lacks(n + 1)
         /\ ExpectedAfter(n + 1)' = NextSN(g.lo)
<1>1. /\ Len(inbox') = n + 1 /\ inbox'[n + 1] = g /\ inbox' # <<>>
      /\ \A i \in 1 .. n : inbox'[i] = inbox[i]
  BY LastAppended
<1>2. call # "receive" => n >= 1 /\ inbox'[1] = inbox[1]
  <2>1. inbox # <<>> => n >= 1
    BY TailOf
  <2> QED
    BY <1>1, <2>1 DEF SentFrames
<1>3. \A i \in Nat : Lacks(i)' = Lacks(i)
  BY <1>2 DEF Lacks, ResponseSize
<1>4. \A i \in 0 .. n : ExpectedAfter(i)' = ExpectedAfter(i)
  BY <1>1 DEF ExpectedAfter
<1>5. ExpectedAfter(n + 1)' = NextSN(g.lo)
  BY <1>1 DEF ExpectedAfter
<1>6. \A i \in 1 .. n + 1 :
         \/ i = 1 /\ inbox'[1].type = "FF" /\ call' = "waitSForFF"
         \/ /\ inbox'[i].type = "CF" /\ inbox'[i].lo = ExpectedAfter(i - 1)'
            /\ Lacks(i - 1)' > 0
  <2> SUFFICES ASSUME NEW i \in 1 .. n + 1
               PROVE  \/ i = 1 /\ inbox'[1].type = "FF" /\ call' = "waitSForFF"
                      \/ /\ inbox'[i].type = "CF" /\ inbox'[i].lo = ExpectedAfter(i - 1)'
                         /\ Lacks(i - 1)' > 0
    OBVIOUS
  <2>0. i - 1 \in 0 .. n /\ i - 1 \in Nat
    OBVIOUS
  <2>1. Lacks(i - 1)' = Lacks(i - 1) /\ ExpectedAfter(i - 1)' = ExpectedAfter(i - 1)
    BY <2>0, <1>3, <1>4
  <2>2. CASE i = n + 1
    <3>1. i - 1 = n
      BY <2>2
    <3> QED
      BY <2>1, <2>2, <3>1, <1>1
  <2>3. CASE i # n + 1
    <3>1. i \in 1 .. n
      BY <2>3
    <3> QED
      BY <2>1, <3>1, <1>1 DEF SentFrames
  <2> QED
    BY <2>2, <2>3
<1>7. Lacks(0)' = Lacks(0) /\ Lacks(1)' = Lacks(1) /\ Lacks(n + 1)' = Lacks(n + 1)
  BY <1>3
<1>8. SentFrames'
  BY <1>1, <1>2, <1>6, <1>7 DEF SentFrames
<1> QED
  BY <1>1, <1>5, <1>7, <1>8

-----------------------------------------------------------------------------
(* The sender of the node in an exchange that nothing disturbs.              *)

(* What a tick leaves alone if it disturbs nothing.                          *)
LEMMA TickCalm ==
  ASSUME ExchangeIInv, NodeTick, Smooth'
  PROVE  /\ UNCHANGED <<tp, call, request, response, outcome, bus, user, poll, asked>>
         /\ out' = <<>> => inbox' = inbox
         /\ out' # <<>> => inbox' = Append(inbox, out'[1])
         /\ ~TimerRanOut /\ ~Swallowed /\ ~Overwritten
<1>1. /\ UNCHANGED <<tp, call, request, response, outcome, bus, user, poll, asked>>
      /\ ~TimerRanOut /\ ~Swallowed /\ ~Overwritten
      /\ ~(out' # <<>> /\ Len(inbox) = CAN_BUS_PDU_NUM)
  BY DEF NodeTick, Smooth
<1> QED
  BY <1>1, Received

LEMMA FSKept == ASSUME SendTypeOK, TxPart PROVE sendFC'.FS = sendFC.FS
BY DEF SendTypeOK, FCParam, TxPart, SendMultipleFrame, TxNothing, SendSingleFrame, StartMultipleFrame,
       SendFirstFrame, FlowControlPending, FlowControlArrived, FlowControlTimeout,
       SendConsecutiveFrame, SeparationWait, FlowWait, FlowOverflow, FlowReserved,
       FinishSend, sendVars

(* send_multiple_frame with an answer of which frames are still missing.     *)
LEMMA MultipleTx ==
  ASSUME Calm, ExchangeIInv', TxPart, Sending, ~TimerRanOut
  PROVE  \/ /\ out' = <<>> /\ Sending' /\ txbuf' = txbuf
            /\ send'.length = send.length /\ send'.CF_SN = send.CF_SN
         \/ /\ out' # <<>> /\ out'[1] \in Frame /\ out'[1].type = "CF"
            /\ out'[1].lo = send.CF_SN /\ txbuf' = txbuf
            /\ IF send.length <= CF_DATA THEN send'.status = "SEND_OK"
               ELSE /\ Sending' /\ send'.length = send.length - CF_DATA
                    /\ send'.CF_SN = NextSN(send.CF_SN)
<1>1. /\ txbuf.length \in Nat /\ txbuf.length >= CAN_FRAME_SIZE /\ sendFC.FS = CTS
      /\ send \in TxRuntime
  <2>1. LongMessage /\ sendFC.FS = CTS /\ SendTypeOK
    BY DEF Calm, SenderInv, Unfailed, ExchangeIInv
  <2>2. txbuf.length \in Nat
    BY <2>1, BufferAssumption DEF SendTypeOK, TxBuffer
  <2> QED
    BY <2>1, <2>2 DEF LongMessage, Sending, SendTypeOK
<1>2. send.status \in {"WAIT_FC", "SEND_CF"} /\ send.status # "TX_IDLE"
  BY DEF Sending
<1>3. ~TxNothing /\ ~SendSingleFrame /\ ~StartMultipleFrame /\ ~SendFirstFrame /\ ~FinishSend
  BY <1>1, <1>2 DEF TxNothing, SendSingleFrame, StartMultipleFrame, SendFirstFrame,
     FinishSend, InState, CAN_FRAME_SIZE
<1>4. ~FlowControlTimeout
  <2>1. FlowControlTimeout => TimerRanOut
    BY <1>1 DEF FlowControlTimeout, TimerRanOut, InState, TxRuntime
  <2> QED
    BY <2>1
<1>5. ~FlowWait /\ ~FlowOverflow /\ ~FlowReserved
  BY <1>1 DEF FlowWait, FlowOverflow, FlowReserved, CTS, WT, OVFLW, RESERVED
<1>6. CASE FlowControlPending \/ FlowControlArrived \/ SeparationWait
  BY <1>1, <1>2, <1>6 DEF FlowControlPending, FlowControlArrived, SeparationWait, Sending,
     TxRuntime, sendVars
<1>7. CASE SendConsecutiveFrame
  <2>1. PICK b1 \in DataBytes :
          out' = <<[type |-> "CF", lo |-> send.CF_SN, b1 |-> b1, b2 |-> 0,
                    id |-> txbuf.id, data |-> Segment]>>
    BY <1>7 DEF SendConsecutiveFrame
  <2>2. out' # <<>> /\ out'[1].type = "CF" /\ out'[1].lo = send.CF_SN
    BY <2>1
  <2>3. out'[1] \in Frame
    <3>1. out' \in Seq(Frame)
      BY DEF ExchangeIInv, SendTypeOK
    <3>2. Head(out') \in Frame /\ Head(out') = out'[1]
      BY <2>2, <3>1, RangeTail, HeadTailProperties
    <3> QED
      BY <3>2
  <2>4. /\ txbuf' = txbuf
        /\ send' = IF send.length <= CF_DATA
               THEN [send EXCEPT !.CF_SN = NextSN(@), !.status = "SEND_OK",
                                 !.N_result = "N_OK"]
               ELSE [send EXCEPT !.CF_SN = NextSN(@),
                                 !.status = IF sendFC.BS = 1 THEN "WAIT_FC" ELSE @,
                                 !.pos = @ + CF_DATA, !.length = @ - CF_DATA]
    BY <1>7 DEF SendConsecutiveFrame
  <2> QED
    BY <1>1, <1>2, <2>2, <2>3, <2>4 DEF TxRuntime, Sending
<1> QED
  BY <1>3, <1>4, <1>5, <1>6, <1>7 DEF TxPart, SendMultipleFrame

LEMMA LengthLeft == ASSUME SendTypeOK PROVE send.length \in Nat
<1>1. send.length \in 0 .. N_DATA_MAX /\ N_DATA_MAX \in Nat
  BY BufferAssumption DEF SendTypeOK, TxRuntime
<1> QED
  BY <1>1

(* What the tester lacks is a number that goes down by a frame's data.       *)
LEMMA LacksType ==
  ASSUME ExchangeIInv, SentFrames
  PROVE  \A n \in Nat : Lacks(n) \in Int /\ Lacks(n + 1) = Lacks(n) - CF_DATA
<1>1. CASE call = "receive"
  <2>1. tp.t_size \in Int
    <3>1. tp.t_size \in Offsets
      BY DEF ExchangeIInv, TesterTypeOK, Offsets
    <3> QED
      BY <3>1, OffsetNat
  <2>2. ResponseSize \in Int
    <3>1. response \in Seq(SegmentType)
      BY DEF ExchangeIInv, TesterTypeOK, SegmentType
    <3>2. Len(response) \in Nat
      BY <3>1
    <3> QED
      BY <3>2, Sizes DEF ResponseSize
  <2> QED
    BY <1>1, <2>1, <2>2, Sizes DEF Lacks
<1>2. CASE call # "receive"
  <2>1. inbox \in Seq(Frame) /\ inbox # <<>>
    BY <1>2 DEF ExchangeIInv, TesterTypeOK, SentFrames
  <2>2. inbox[1] \in Frame
    BY <2>1, RangeTail, HeadTailProperties
  <2>3. FF_DL(inbox[1]) \in Int
    BY <2>2, FirstLength, OffsetNat
  <2> QED
    BY <1>2, <2>3, Sizes DEF Lacks
<1> QED
  BY <1>1, <1>2

(* Frames of an answer follow one another to the tester.                     *)
LEMMA MultipleSent ==
  ASSUME Calm, ExchangeIInv', SentMultiple, TxPart, ~TimerRanOut,
         UNCHANGED <<tp, call, response, user>>,
         out' = <<>> => inbox' = inbox,
         out' # <<>> => inbox' = Append(inbox, out'[1])
  PROVE  SentMultiple'
<1>1. inbox \in Seq(Frame) /\ SendTypeOK /\ LongMessage
  BY DEF Calm, ExchangeIInv, TesterTypeOK, SenderInv
<1>2. CASE SenderQuiet /\ Lacks(Len(inbox)) <= 0
  <2>1. SenderQuiet' /\ inbox' = inbox
    BY <1>1, <1>2, QuietTx
  <2>2. SentFrames' /\ Lacks(Len(inbox))' = Lacks(Len(inbox))
    BY <2>1, SentFramesKept DEF SentMultiple
  <2> QED
    BY <1>2, <2>1, <2>2 DEF SentMultiple
<1>3. CASE /\ Sending /\ user.at \notin {"send_data", "send_length"}
           /\ send.length = Lacks(Len(inbox)) /\ send.length > 0
           /\ send.CF_SN = ExpectedAfter(Len(inbox))
  <2>1. CASE /\ out' = <<>> /\ Sending' /\ txbuf' = txbuf
             /\ send'.length = send.length /\ send'.CF_SN = send.CF_SN
    <3>1. /\ SentFrames' /\ inbox' = inbox
          /\ Lacks(Len(inbox))' = Lacks(Len(inbox))
          /\ ExpectedAfter(Len(inbox))' = ExpectedAfter(Len(inbox))
      BY <2>1, SentFramesKept DEF SentMultiple
    <3> QED
      BY <1>3, <2>1, <3>1 DEF SentMultiple
  <2>2. CASE /\ out' # <<>> /\ out'[1] \in Frame /\ out'[1].type = "CF"
             /\ out'[1].lo = send.CF_SN /\ txbuf' = txbuf
             /\ IF send.length <= CF_DATA THEN send'.status = "SEND_OK"
                ELSE /\ Sending' /\ send'.length = send.length - CF_DATA
                     /\ send'.CF_SN = NextSN(send.CF_SN)
    <3>1. PICK n \in Nat : n = Len(inbox)
      BY <1>1
    <3>2. /\ SentFrames' /\ Len(inbox') = n + 1
          /\ Lacks(n + 1)' = Lacks(n + 1)
          /\ ExpectedAfter(n + 1)' = NextSN(send.CF_SN)
      BY <1>1, <1>3, <2>2, <3>1, SentFramesAppended DEF SentMultiple
    <3>3. /\ Lacks(Len(inbox))' = Lacks(n + 1)'
          /\ ExpectedAfter(Len(inbox))' = ExpectedAfter(n + 1)'
      BY <3>2 DEF Lacks, ExpectedAfter
    <3>4. Lacks(n + 1) = send.length - CF_DATA
      <4>1. ExchangeIInv /\ SentFrames
        BY DEF Calm, SentMultiple
      <4> QED
        BY <1>3, <3>1, <4>1, LacksType
    <3>5. CASE send.length <= CF_DATA
      <4>1. SenderQuiet'
        BY <1>3, <2>2, <3>5 DEF SenderQuiet
      <4>2. send.length - CF_DATA <= 0
        BY <1>1, <3>5, LengthLeft, Sizes
      <4> QED
        BY <3>2, <3>3, <3>4, <4>1, <4>2 DEF SentMultiple
    <3>6. CASE ~(send.length <= CF_DATA)
      <4>1. send.length - CF_DATA > 0
        BY <1>1, <3>6, LengthLeft, Sizes
      <4> QED
        BY <1>3, <2>2, <3>2, <3>3, <3>4, <3>6, <4>1 DEF SentMultiple
    <3> QED
      BY <3>5, <3>6
  <2> QED
    BY <1>3, <2>1, <2>2, MultipleTx
<1> QED
  BY <1>2, <1>3 DEF SentMultiple

LEMMA Singleton == ASSUME NEW f PROVE <<f>> # <<>>
OBVIOUS

(* An answer that is prepared is sent, in one frame or in several.           *)
LEMMA PreparedTx ==
  ASSUME Calm, Prepared, TxPart, UNCHANGED <<tp, call, response, user>>,
         out' = <<>> => inbox' = inbox,
         out' # <<>> => inbox' = Append(inbox, out'[1])
  PROVE  Prepared' \/ SentSingle' \/ SentMultiple'
<1>1. /\ SendTypeOK /\ LongMessage /\ txbuf.length \in Nat /\ SenderInv
      /\ inbox = <<>> /\ call = "waitSForFF"
  <2>1. SendTypeOK /\ LongMessage /\ SenderInv
    BY DEF Calm, ExchangeIInv, SenderInv
  <2>2. txbuf.length \in 0 .. N_DATA_MAX /\ N_DATA_MAX \in Nat
    BY <2>1, BufferAssumption DEF SendTypeOK, TxBuffer
  <2> QED
    BY <2>1, <2>2 DEF Prepared
<1>2. CASE /\ user.at \in {"send_data", "send_length"} /\ send.status = "TX_IDLE"
           /\ txbuf.length = 0
  <2>1. TxNothing
    BY <1>2, Sizes DEF TxPart, SendSingleFrame, SendMultipleFrame, StartMultipleFrame,
       SendFirstFrame, FlowControlPending, FlowControlArrived, FlowControlTimeout,
       SendConsecutiveFrame, SeparationWait, FlowWait, FlowOverflow, FlowReserved,
       FinishSend, InState
  <2> QED
    BY <1>1, <1>2, <2>1 DEF TxNothing, sendVars, Prepared
<1>3. CASE /\ user.at \notin {"send_data", "send_length"} /\ txbuf.length > 0
           /\ send.status \in {"TX_IDLE", "SEND_FF"}
  <2>1. SendSingleFrame \/ StartMultipleFrame \/ SendFirstFrame
    BY <1>1, <1>3 DEF TxPart, TxNothing, SendMultipleFrame,
       FlowControlPending, FlowControlArrived, FlowControlTimeout,
       SendConsecutiveFrame, SeparationWait, FlowWait, FlowOverflow, FlowReserved,
       FinishSend, InState
  <2>2. CASE SendSingleFrame
    <3>1. /\ out' # <<>> /\ out'[1].type = "SF" /\ txbuf'.length = 0
      BY <1>1, <2>2 DEF SendSingleFrame, SendTypeOK, TxBuffer
    <3>2. Len(inbox') = 1 /\ inbox'[1].type = "SF"
      BY <1>1, <3>1, Alone
    <3> QED
      BY <1>1, <1>3, <3>1, <3>2 DEF SentSingle, SenderQuiet
  <2>3. CASE StartMultipleFrame
    <3>1. out' = <<>> /\ txbuf' = txbuf /\ send'.status = "SEND_FF"
      BY <1>1, <2>3 DEF StartMultipleFrame, SendTypeOK, TxRuntime
    <3> QED
      BY <1>1, <1>3, <3>1 DEF Prepared
  <2>4. CASE SendFirstFrame
    <3>1. /\ out' # <<>> /\ out'[1].type = "FF" /\ out'[1].lo = txbuf.length \div 256
          /\ out'[1].b1 = txbuf.length % 256 /\ txbuf.length >= 8
          /\ send'.status = "WAIT_FC" /\ send'.CF_SN = 1
          /\ send'.length = txbuf.length - 6
      BY <1>1, <2>4, Sizes DEF SendFirstFrame, InState, SendTypeOK, TxRuntime
    <3>2. FF_DL(out'[1]) = txbuf.length
      BY <1>1, <3>1, FF_DLOf DEF FF_DL
    <3>3. inbox' # <<>> /\ Len(inbox') = 1 /\ inbox'[1] = out'[1]
      <4>1. inbox' = <<out'[1]>>
        BY <1>1, <3>1, Alone
      <4>2. Len(inbox') = 1 /\ inbox'[1] = out'[1]
        BY <4>1, Alone
      <4> QED
        BY <4>1, <4>2, Singleton
    <3>4. call' = "waitSForFF" /\ FF_DL(inbox'[1]) = txbuf.length
      BY <1>1, <3>2, <3>3
    <3>5. Lacks(1)' = txbuf.length - 6 /\ ExpectedAfter(1)' = 1
      <4>1. Lacks(1)' = FF_DL(inbox'[1]) - FF_DATA - CF_DATA * (1 - 1)
        BY <3>4 DEF Lacks
      <4>2. ExpectedAfter(1)' = 1
        BY <3>1, <3>3 DEF ExpectedAfter
      <4> QED
        BY <1>1, <3>4, <4>1, <4>2, Sizes
    <3>6. txbuf.length - 6 > 0
      BY <1>1, <3>1
    <3>7. SentFrames'
      <4>1. \A i \in 1 .. Len(inbox') : i = 1
        BY <3>3
      <4> QED
        BY <3>1, <3>3, <3>4, <3>5, <3>6, <4>1 DEF SentFrames
    <3>8. /\ Sending' /\ user'.at \notin {"send_data", "send_length"}
          /\ send'.length = Lacks(1)' /\ send'.length > 0 /\ send'.CF_SN = ExpectedAfter(1)'
      BY <1>3, <3>1, <3>5, <3>6 DEF Sending
    <3>9. Lacks(Len(inbox))' = Lacks(1)' /\ ExpectedAfter(Len(inbox))' = ExpectedAfter(1)'
      BY <3>3 DEF Lacks, ExpectedAfter
    <3> QED
      BY <3>7, <3>8, <3>9 DEF SentMultiple
  <2> QED
    BY <2>1, <2>2, <2>3, <2>4
<1> QED
  BY <1>2, <1>3 DEF Prepared

(* The parts of a tick, one after the other.                                 *)
LEMMA SmoothTx ==
  ASSUME Calm, ExchangeIInv', Sides, NodeTick, Tx, Smooth'
  PROVE  Unfailed' /\ Sides'
<1>1. /\ UNCHANGED <<tp, call, request, response, outcome, bus, user, poll, asked>>
      /\ out' = <<>> => inbox' = inbox
      /\ out' # <<>> => inbox' = Append(inbox, out'[1])
      /\ ~TimerRanOut
  BY TickCalm DEF Calm
<1>2. TxPart /\ UNCHANGED <<rxbuf, rcv, rcvFC, pdu, mailbox>> /\ SendTypeOK /\ LongMessage
  BY DEF Tx, rcvVars, Calm, ExchangeIInv, SenderInv
<1>3. Flight' = Flight
  BY <1>1, <1>2 DEF Flight, Unseen
<1>4. Unfailed'
  BY <1>1, <1>2, FSKept, UnfailedKept DEF Calm
<1>5. SenderQuiet => SenderQuiet' /\ inbox' = inbox
  BY <1>1, <1>2, QuietTx
<1>6. RequestSide => RequestSide'
  <2>1. RequestSide => SenderQuiet
    BY DEF RequestSide
  <2> QED
    BY <1>1, <1>2, <1>3, <1>5, <2>1, RequestKept
<1>7. CASE AnswerSide
  <2>1. RequestOver'
    BY <1>1, <1>2, <1>3, <1>7, OverKept DEF AnswerSide
  <2>2. Prepared => Prepared' \/ SentSingle' \/ SentMultiple'
    BY <1>1, <1>2, PreparedTx
  <2>3. SentSingle => SentSingle'
    BY <1>1, <1>5 DEF SentSingle
  <2>4. SentMultiple => SentMultiple'
    BY <1>1, <1>2, MultipleSent
  <2> QED
    BY <1>4, <1>7, <2>1, <2>2, <2>3, <2>4 DEF AnswerSide, Sides
<1> QED
  BY <1>4, <1>6, <1>7 DEF Sides

LEMMA SmoothFc ==
  ASSUME Calm, Sides, NodeTick, Fc, Smooth'
  PROVE  Unfailed' /\ Sides'
<1>1. /\ UNCHANGED <<tp, call, request, response, outcome, bus, user, poll, asked>>
      /\ out' = <<>> => inbox' = inbox
      /\ out' # <<>> => inbox' = Append(inbox, out'[1])
  BY TickCalm DEF Calm
<1>2. UNCHANGED <<txbuf, send, sendFC, rxbuf, rcv, pdu, mailbox>>
  BY DEF Fc, SendFlowCtrlFrame, NoFlowCtrlFrame, sendVars, rcvVars
<1>3. Flight' = Flight
  BY <1>1, <1>2 DEF Flight, Unseen
<1>4. Unfailed'
  BY <1>1, <1>2, UnfailedKept DEF Calm
<1>5. CASE NoFlowCtrlFrame
  <2>1. rcvFC' = rcvFC /\ inbox' = inbox
    BY <1>1, <1>5 DEF NoFlowCtrlFrame, rcvVars
  <2>2. RequestSide => RequestSide'
    <3>1. RequestSide => SenderQuiet'
      BY <1>1, <1>2 DEF RequestSide, SenderQuiet
    <3> QED
      BY <1>1, <1>2, <1>3, <2>1, <3>1, RequestKept
  <2>3. AnswerSide => AnswerSide'
    BY <1>1, <1>2, <1>3, <2>1, OverKept, AnswerKept DEF AnswerSide
  <2> QED
    BY <1>4, <2>2, <2>3 DEF Sides
<1>6. CASE SendFlowCtrlFrame
  <2>1. /\ rcvFC.is_valid /\ ~rcvFC'.is_valid
        /\ rcvFC'.FS = rcvFC.FS /\ rcvFC'.BS = rcvFC.BS
        /\ out' # <<>> /\ out'[1].type = "FC" /\ out'[1].lo = rcvFC.FS /\ out'[1].b1 = rcvFC.BS
    BY <1>6 DEF SendFlowCtrlFrame, Calm, ExchangeIInv, RcvTypeOK, FCParam
  <2>2. ~Between /\ ~Judges /\ ~AnswerSide /\ \A k : ~Wrote(k)
    BY <2>1 DEF Between, Judges, AnswerSide, RequestOver, Rests, Wrote
  <2>3. RequestSide /\ Takes
    BY <2>2 DEF Sides, RequestSide
  <2>4. PICK k \in 0 .. Len(Flight) :
          /\ \A i \in 1 .. k : Flight[i].type = "CF" /\ Flight[i].lo = NumberAfter(i - 1)
          /\ Writes(k)
    BY <2>2, <2>3 DEF Takes
  <2>5. /\ k = 0 /\ tp.state = "WAIT_FC" /\ inbox = <<>> /\ rcv.status = "SEND_FC"
        /\ rcvFC.FS = CTS
    BY <2>1, <2>3, <2>4 DEF Writes, Takes, Receiving
  <2>6. inbox' = <<out'[1]>> /\ Len(inbox') = 1 /\ inbox'[1] = out'[1]
    BY <1>1, <2>1, <2>5, Alone
  <2>7. Writes(k)'
    <3>1. NumberAfter(k)' = NumberAfter(k)
      BY <1>2, <1>3 DEF NumberAfter
    <3>2. Grants(inbox'[1]) /\ inbox'[1].b1 = rcvFC'.BS
      BY <2>1, <2>5, <2>6 DEF Grants
    <3> QED
      BY <1>1, <1>2, <1>3, <2>1, <2>4, <2>5, <2>6, <3>1, <3>2 DEF Writes, Grants
  <2>8. Takes'
    <3>1. EndsWithin' /\ Receiving'
      BY <1>2, <2>1, <2>3 DEF EndsWithin, Takes, Receiving
    <3>2. \A i \in 1 .. k : Flight'[i].type = "CF" /\ Flight'[i].lo = NumberAfter(i - 1)'
      BY <2>5
    <3> QED
      BY <1>2, <1>3, <2>1, <2>3, <2>7, <3>1, <3>2 DEF Takes
  <2>9. CopyInv'
    BY <1>1, <1>2, <1>3, <2>1, <2>3, CopyKept DEF RequestSide
  <2>10. (Somewhere => Somewhere') /\ (Drained => Drained') /\ (SenderQuiet => SenderQuiet')
    BY <1>1, <1>2, <1>3, <2>1 DEF Somewhere, Drained, SenderQuiet, Receiving, Reading, Grants
  <2>11. RequestSide'
    BY <1>1, <1>2, <2>3, <2>8, <2>9, <2>10 DEF RequestSide
  <2> QED
    BY <1>4, <2>11 DEF Sides
<1> QED
  BY <1>5, <1>6 DEF Fc

-----------------------------------------------------------------------------
(* The receiver of the node: between messages, when it judges a first frame, *)
(* and while it takes the frames of a message.                               *)

(* The receiver took the first frame in flight, to look at it again or not.  *)
Untouched(v) ==
    /\ pdu'.is_valid = (Pdu.is_valid /\ v)
    /\ ~Pdu.is_valid => Flight' = Flight /\ ~pdu.is_valid
    /\ Pdu.is_valid => /\ Flight # <<>> /\ Flight[1] = Pdu.f
                       /\ v => Flight' = Flight
                       /\ ~v => Flight' = Tail(Flight)

(* What the receiver leaves alone if it disturbs nothing.                    *)
LEMMA RxCalm ==
  ASSUME Calm, NodeTick, Rx, Smooth'
  PROVE  /\ RcvTypeOK /\ rcv \in RxRuntime /\ rcvFC \in FCParam /\ IdleType
         /\ UNCHANGED <<bus, tp, call, request, response, outcome, user, poll, asked, inbox>>
         /\ UNCHANGED <<txbuf, send.status, send.length, send.CF_SN>>
         /\ ~(rcv.status = "RCV_OK" /\ Pdu.is_valid) /\ ~TimerRanOut
         /\ Keep => Untouched(TRUE)
         /\ Consume => Untouched(FALSE)
<1>1. RcvTypeOK /\ rcv \in RxRuntime /\ rcvFC \in FCParam /\ IdleType /\ ExchangeIInv
      /\ SendTypeOK
  BY DEF Calm, ExchangeIInv, RcvTypeOK
<1>2. /\ UNCHANGED <<tp, call, request, response, outcome, bus, user, poll, asked>>
      /\ ~TimerRanOut /\ ~Swallowed /\ ~Overwritten
  BY <1>1, TickCalm
<1>3. pc = "rx" /\ out' = <<>>
  BY DEF Rx, Step
<1>4. inbox' = inbox
  BY <1>1, <1>3, TickCalm
<1>5. ~(rcv.status = "RCV_OK" /\ Pdu.is_valid) /\ ~(pdu.is_valid /\ mailbox # <<>>)
  BY <1>2, <1>3 DEF Swallowed, Overwritten
<1>6. UNCHANGED <<txbuf, send.status, send.length, send.CF_SN>>
  <2>1. send \in TxRuntime
    BY <1>1 DEF SendTypeOK
  <2> QED
    BY <2>1 DEF Rx, RcvFlowCtrlFrame, TxRuntime, sendVars
<1>7. Keep => Untouched(TRUE)
  BY <1>1, <1>2, <1>5, FlightTaken DEF Keep, Untouched
<1>8. Consume => Untouched(FALSE)
  BY <1>1, <1>2, <1>5, FlightTaken DEF Consume, Untouched
<1> QED
  BY <1>1, <1>2, <1>4, <1>5, <1>6, <1>7, <1>8

(* Nothing but a frame wakes a receiver at rest.                             *)
Wakes ==
    /\ Flight # <<>>
    /\ \/ /\ Flight[1].type = "FC" /\ Flight' = Tail(Flight) /\ Rests'
          /\ UNCHANGED <<rxbuf, rcv>> /\ sendFC'.FS = Flight[1].lo
       \/ /\ Flight[1].type = "SF" /\ Flight' = Tail(Flight) /\ Rests'
          /\ rxbuf' = [length |-> Flight[1].lo, id |-> Flight[1].id,
                       segs |-> <<Copied(Flight[1])>>]
          /\ rcv' = [rcv EXCEPT !.N_result = "N_OK"] /\ sendFC' = sendFC
       \/ Flight[1].type = "SF" /\ Flight[1].lo \notin 1 .. CF_DATA
       \/ /\ Flight[1].type = "FF" /\ Flight' = Flight /\ pdu'.is_valid
          /\ rcv'.status = "RCV_FF" /\ rcv'.N_result = rcv.N_result
          /\ UNCHANGED <<rxbuf, rcvFC, sendFC>>
       \/ Flight[1].type = "CF"

LEMMA RestsRx ==
  ASSUME Calm, NodeTick, Rx, Smooth', Rests
  PROVE  \/ /\ Rests' /\ Flight' = Flight /\ rxbuf' = rxbuf
            /\ rcv'.N_result = rcv.N_result /\ sendFC' = sendFC
         \/ Wakes
<1>1. /\ RcvTypeOK /\ rcv \in RxRuntime /\ rcvFC \in FCParam /\ IdleType
      /\ ~(rcv.status = "RCV_OK" /\ Pdu.is_valid)
      /\ Keep => Untouched(TRUE)
      /\ Consume => Untouched(FALSE)
  BY RxCalm
<1>2. rcv.status \in {"RX_IDLE", "RCV_OK"} /\ ~rcvFC.is_valid
  BY DEF Rests
<1>3. CASE ~Pdu.is_valid
  <2>1. Kind = frame_type /\ (rcv.status = "RX_IDLE" => Kind = Unknown)
        /\ Kind \notin {"SF", "FC"}
    BY <1>1, <1>3, KindOfPdu DEF IdleType
  <2>2. RcvUnknown \/ FinishReceive
    BY <1>2, <1>3, <2>1
    DEF Rx, RxPart, RcvSingleFrame, RcvSingleFrameError, RcvMultipleFrame, IdleFirstFrame,
        FirstFrame, FirstFrameTooLong, FirstFrameTooShort, TakeFlowCtrlFrame,
        FlowControlSent, FlowControlLate, FlowControlUnsent, ConsecutiveFrame,
        WrongSequenceNumber, ConsecutiveFrameTimeout, ConsecutiveFramePending, InFlow, Unknown
  <2>3. sendFC' = sendFC
    BY <2>1 DEF Rx, TakeFlowCtrlFrame, sendVars
  <2>4. Flight' = Flight /\ ~pdu'.is_valid
    BY <1>1, <1>3, <2>2 DEF RcvUnknown, FinishReceive, Untouched
  <2>5. /\ rcv'.status \in {"RX_IDLE", "RCV_OK"} /\ ~rcvFC'.is_valid /\ rxbuf' = rxbuf
        /\ rcv'.N_result = rcv.N_result
    BY <1>1, <1>2, <2>2 DEF RcvUnknown, FinishReceive, RxRuntime, FCParam
  <2> QED
    BY <2>3, <2>4, <2>5 DEF Rests
<1>4. CASE Pdu.is_valid
  <2>1. rcv.status = "RX_IDLE" /\ Kind = Pdu.f.type
    BY <1>1, <1>2, <1>4, KindOfPdu
  <2>2. CASE TakeFlowCtrlFrame /\ RcvFlowCtrlFrame(Pdu.f)
    <3>1. /\ Flight # <<>> /\ Flight[1] = Pdu.f /\ Flight' = Tail(Flight) /\ ~pdu'.is_valid
          /\ UNCHANGED <<rxbuf, rcv, rcvFC>> /\ Pdu.f.type = "FC" /\ sendFC'.FS = Pdu.f.lo
      BY <1>1, <1>4, <2>1, <2>2 DEF TakeFlowCtrlFrame, RcvFlowCtrlFrame, Untouched
    <3> QED
      BY <1>2, <3>1 DEF Wakes, Rests
  <2>3. CASE RxPart /\ UNCHANGED sendVars
    <3>0. sendFC' = sendFC
      BY <2>3 DEF sendVars
    <3>1. CASE RcvSingleFrame
      <4>1. /\ Flight # <<>> /\ Flight[1] = Pdu.f /\ Flight' = Tail(Flight) /\ ~pdu'.is_valid
            /\ UNCHANGED rcvFC /\ Pdu.f.type = "SF"
            /\ rxbuf' = [length |-> Pdu.f.lo, id |-> Pdu.f.id, segs |-> <<Copied(Pdu.f)>>]
            /\ rcv' = [rcv EXCEPT !.N_result = "N_OK"]
        BY <1>1, <1>4, <2>1, <3>1 DEF RcvSingleFrame, Untouched
      <4>2. rcv'.status = rcv.status
        BY <1>1, <4>1 DEF RxRuntime
      <4> QED
        BY <1>2, <3>0, <4>1, <4>2 DEF Wakes, Rests
    <3>2. CASE RcvSingleFrameError
      BY <1>1, <1>4, <2>1, <3>2 DEF RcvSingleFrameError, Untouched, Wakes
    <3>3. CASE IdleFirstFrame
      <4>1. /\ Flight # <<>> /\ Flight[1] = Pdu.f /\ Flight' = Flight /\ pdu'.is_valid
            /\ UNCHANGED <<rxbuf, rcvFC>> /\ Pdu.f.type \in {"FF", "CF"}
        BY <1>1, <1>4, <2>1, <3>3 DEF IdleFirstFrame, InFlow, Untouched
      <4>2. Pdu.f.type = "FF" => rcv'.status = "RCV_FF" /\ rcv'.N_result = rcv.N_result
        BY <1>1, <3>3 DEF IdleFirstFrame, RxRuntime
      <4> QED
        BY <3>0, <4>1, <4>2 DEF Wakes
    <3>4. Kind # Unknown
      BY <1>1, <1>4, <2>1, KindOfPdu, PduFrame DEF Frame
    <3> QED
      BY <2>1, <2>3, <3>1, <3>2, <3>3, <3>4
      DEF RxPart, RcvUnknown, RcvMultipleFrame,
        FirstFrame, FirstFrameTooLong, FirstFrameTooShort, FinishReceive,
        FlowControlSent, FlowControlLate, FlowControlUnsent, ConsecutiveFrame,
        WrongSequenceNumber, ConsecutiveFrameTimeout, ConsecutiveFramePending, InFlow
  <2> QED
    BY <2>2, <2>3 DEF Rx
<1> QED
  BY <1>3, <1>4

(* The first frame in flight is taken.                                       *)
LEMMA Shifted ==
  ASSUME ExchangeIInv, Flight # <<>>, Flight' = Tail(Flight)
  PROVE  /\ Flight \in Seq(Frame) /\ Flight[1] \in Frame
         /\ Len(Flight) \in Nat /\ Len(Flight) >= 1 /\ Len(Flight') = Len(Flight) - 1
         /\ \A i \in 1 .. Len(Flight) - 1 : Flight'[i] = Flight[i + 1]
         /\ Len(Flight) = 1 => Flight' = <<>>
         /\ Len(Flight) > 1 => /\ Flight' # <<>>
                               /\ Flight'[Len(Flight')] = Flight[Len(Flight)]
<1> DEFINE fs == Flight
           gs == Flight'
<1>1. fs \in Seq(Frame) /\ fs # <<>> /\ gs = Tail(fs)
  BY FlightType
<1> HIDE DEF fs, gs
<1>2. /\ Len(fs) \in Nat /\ Len(fs) >= 1 /\ Len(gs) = Len(fs) - 1 /\ gs \in Seq(Frame)
      /\ \A i \in 1 .. Len(fs) - 1 : gs[i] = fs[i + 1]
      /\ gs = <<>> => Len(fs) = 1
  BY <1>1, TailOf
<1>3. fs[1] \in Frame
  BY <1>1, <1>2, ElementOfSeq
<1>4. Len(fs) = 1 => gs = <<>>
  BY <1>2, EmptySeq
<1>5. Len(fs) > 1 => gs # <<>> /\ gs[Len(gs)] = fs[Len(fs)]
  BY <1>2
<1> QED
  BY <1>1, <1>2, <1>3, <1>4, <1>5 DEF fs, gs

(* The flight without its first frame.                                       *)
LEMMA ShiftedWay ==
  ASSUME ExchangeIInv, Flight # <<>>, Flight' = Tail(Flight),
         UNCHANGED <<call, tp, request, inbox>>, NEW k \in Nat, k >= 1
  PROVE  /\ Granted(k) /\ k <= Len(Flight) => Granted(k - 1)'
         /\ BeginsAfter(k) => BeginsAfter(k - 1)'
         /\ Announces(k) => Announces(k - 1)'
<1>1. /\ Len(Flight) \in Nat /\ Len(Flight) >= 1 /\ Len(Flight') = Len(Flight) - 1
      /\ \A i \in 1 .. Len(Flight) - 1 : Flight'[i] = Flight[i + 1]
      /\ Len(Flight) > 1 => Flight'[Len(Flight')] = Flight[Len(Flight)]
  BY Shifted, Zenon
<1>2. PICK n \in Nat : n = Len(Flight)
  BY <1>1
<1>3. Granted(k) /\ k <= n => Granted(k - 1)'
  <2> SUFFICES ASSUME Granted(k), k <= n, NEW i \in 1 .. k - 1 PROVE Grants(Flight'[i])
    BY <1>2 DEF Granted
  <2>1. i \in 1 .. n - 1 /\ i + 1 \in 1 .. k
    OBVIOUS
  <2>2. Flight'[i] = Flight[i + 1]
    BY <1>1, <1>2, <2>1
  <2> QED
    BY <2>1, <2>2 DEF Granted
<1>4. BeginsAfter(k) => BeginsAfter(k - 1)'
  <2> SUFFICES ASSUME BeginsAfter(k), NEW i \in (k - 1) + 1 .. n - 1 PROVE BeginsAt(i)'
    BY <1>1, <1>2 DEF BeginsAfter
  <2>1. i \in 1 .. n - 1 /\ i + 1 \in k + 1 .. n
    OBVIOUS
  <2>2. Flight'[i] = Flight[i + 1] /\ BeginsAt(i + 1) /\ Len(Flight') = n - 1
    BY <1>1, <1>2, <2>1 DEF BeginsAfter
  <2>3. i + 1 = n <=> i = n - 1
    BY <2>1
  <2> QED
    BY <1>2, <2>2, <2>3 DEF BeginsAt, Announced
<1>5. Announces(k) => Announces(k - 1)'
  <2> SUFFICES ASSUME k < n, Flight[n].type = "FF"
               PROVE  k - 1 < n - 1 /\ Flight'[n - 1].type = "FF"
    BY <1>1, <1>2 DEF Announces
  <2> QED
    BY <1>1, <1>2
<1> QED
  BY <1>2, <1>3, <1>4, <1>5

(* The copy of a message, while none comes in.                               *)
LEMMA CopyRests ==
  ASSUME CopyInv, ~Receiving, ~Receiving', Drained => Drained',
         UNCHANGED <<request, rxbuf, user, poll>>, rcv'.N_result = rcv.N_result
  PROVE  CopyInv'
<1>1. (Reading <=> Reading') /\ (Fresh <=> Fresh')
  BY DEF Reading, Fresh
<1>2. Mine => Mine'
  BY DEF Mine
<1>3. CopyTrue => CopyTrue'
  BY <1>2 DEF CopyTrue
<1> QED
  BY <1>1, <1>2, <1>3 DEF CopyInv

(* The flow control for an answer passes a receiver at rest.                 *)
LEMMA AnswerRx ==
  ASSUME Calm, NodeTick, Rx, Smooth', AnswerSide
  PROVE  Unfailed' /\ AnswerSide'
<1>1. /\ UNCHANGED <<bus, tp, call, request, response, outcome, user, poll, asked, inbox>>
      /\ UNCHANGED <<txbuf, send.status, send.length, send.CF_SN>>
  BY RxCalm
<1>2. Rests /\ Granted(Len(Flight)) /\ RequestOver /\ ExchangeIInv /\ Unfailed
  BY DEF AnswerSide, RequestOver, Calm
<1>3. CASE /\ Rests' /\ Flight' = Flight /\ rxbuf' = rxbuf
           /\ rcv'.N_result = rcv.N_result /\ sendFC' = sendFC
  <2>1. RequestOver'
    BY <1>1, <1>2, <1>3 DEF RequestOver, Granted, Grants, Reading
  <2> QED
    BY <1>1, <1>2, <1>3, <2>1, AnswerKept, UnfailedKept
<1>4. CASE Wakes
  <2>1. Flight # <<>> /\ Len(Flight) \in Nat /\ Len(Flight) >= 1
    BY <1>2, <1>4, FlightType, TailOf DEF Wakes
  <2>2. Grants(Flight[1])
    BY <1>2, <2>1 DEF Granted
  <2>3. /\ Flight' = Tail(Flight) /\ Rests' /\ UNCHANGED <<rxbuf, rcv>>
        /\ sendFC'.FS = CTS
    BY <1>4, <2>2 DEF Wakes, Grants
  <2>0. PICK n \in Nat : n = Len(Flight)
    BY <2>1
  <2>4. Granted(n - 1)' /\ Len(Flight') = n - 1
    BY <1>1, <1>2, <2>0, <2>1, <2>3, Shifted, ShiftedWay
  <2>5. Granted(Len(Flight))'
    BY <2>4 DEF Granted
  <2>6. RequestOver'
    BY <1>1, <1>2, <2>3, <2>5 DEF RequestOver, Reading
  <2>7. sendFC'.FS = sendFC.FS
    BY <1>2, <2>3 DEF Unfailed
  <2> QED
    BY <1>1, <1>2, <2>6, <2>7, AnswerKept, UnfailedKept
<1> QED
  BY <1>2, <1>3, <1>4, RestsRx

(* So do the single frames before the request; its first frame wakes it.     *)
LEMMA BetweenRx ==
  ASSUME Calm, NodeTick, Rx, Smooth', RequestSide, Between
  PROVE  Unfailed' /\ RequestSide'
<1>1. /\ UNCHANGED <<bus, tp, call, request, response, outcome, user, poll, asked, inbox>>
      /\ UNCHANGED <<txbuf, send.status, send.length, send.CF_SN>>
      /\ rcv \in RxRuntime
  BY RxCalm
<1>2. /\ Rests /\ inbox = <<>> /\ ExchangeIInv /\ Unfailed /\ CopyInv
      /\ call # "receive" /\ SenderQuiet'
  BY <1>1 DEF Calm, Between, RequestSide, SenderQuiet
<1>3. PICK k \in 0 .. Len(Flight) : Granted(k) /\ BeginsAfter(k) /\ Announces(k)
  BY DEF Between
<1>4. ~Receiving /\ (Rests' => ~Receiving')
  BY <1>2 DEF Rests, Receiving
<1>5. CASE /\ Rests' /\ Flight' = Flight /\ rxbuf' = rxbuf
           /\ rcv'.N_result = rcv.N_result /\ sendFC' = sendFC
  <2>1. Between'
    <3>1. Granted(k)' /\ BeginsAfter(k)' /\ Announces(k)'
      BY <1>1, <1>3, <1>5 DEF Granted, Grants, BeginsAfter, Announces, BeginsAt, Announced
    <3>2. k \in 0 .. Len(Flight') /\ inbox' = <<>>
      BY <1>1, <1>2, <1>3, <1>5
    <3> QED
      BY <1>5, <3>1, <3>2 DEF Between
  <2>2. Drained => Drained'
    BY <1>1, <1>5 DEF Drained, Rests
  <2>3. CopyInv'
    BY <1>1, <1>2, <1>4, <1>5, <2>2, CopyRests
  <2>4. Somewhere => Somewhere'
    BY <1>1, <1>2, <1>4, <1>5 DEF Somewhere, Rests, Reading, Grants
  <2>5. RequestSide'
    BY <1>1, <1>2, <1>5, <2>1, <2>2, <2>3, <2>4 DEF RequestSide
  <2> QED
    BY <1>1, <1>2, <1>5, <2>5, UnfailedKept
<1>6. CASE Wakes
  <2>1. Flight # <<>> /\ Flight \in Seq(Frame) /\ Flight[1] \in Frame
    BY <1>2, <1>6, FlightType, TailOf, ElementOfSeq DEF Wakes
  <2>0. PICK n \in Nat : n = Len(Flight)
    BY <2>1
  <2>2. n >= 1
    BY <2>1, <2>0, TailOf
  <2>3. k >= 1 => Grants(Flight[1]) /\ Flight[1].type = "FC" /\ Flight[1].lo = CTS
    BY <2>0, <2>2, <1>3 DEF Granted, Grants
  <2>4. k = 0 => BeginsAt(1) /\ Flight[1].type \in {"SF", "FF"}
    <3>1. k = 0 => BeginsAt(1)
      BY <2>0, <2>2, <1>3 DEF BeginsAfter
    <3> QED
      BY <3>1 DEF BeginsAt
  <2>5. ~Drained /\ ~(Mine /\ ~Receiving) /\ ~Mine /\ ~CopyTrue
    BY <2>1, <1>4 DEF Drained, Mine, CopyTrue
  <2>6. poll # None => poll[1] \in Quiet
    BY <2>5 DEF RequestSide
  <2>7. CASE k >= 1
    <3>1. /\ Flight' = Tail(Flight) /\ Rests' /\ UNCHANGED <<rxbuf, rcv>>
          /\ sendFC'.FS = CTS
      BY <1>6, <2>3, <2>7 DEF Wakes
    <3>2. Granted(k - 1)' /\ BeginsAfter(k - 1)' /\ Announces(k - 1)' /\ Len(Flight') = n - 1
      BY <1>1, <1>2, <1>3, <2>0, <2>1, <2>7, <3>1, Shifted, ShiftedWay
    <3>3. Between'
      <4>1. k - 1 \in 0 .. Len(Flight') /\ inbox' = <<>>
        BY <1>1, <1>2, <1>3, <2>0, <2>7, <3>2
      <4> QED
        BY <3>1, <3>2, <4>1 DEF Between
    <3>4. CopyInv'
      BY <1>1, <1>2, <1>4, <2>5, <3>1, CopyRests
    <3>5. Somewhere => Somewhere'
      <4>1. CASE Flight # <<>> /\ ~Grants(Flight[Len(Flight)])
        <5>1. n # 1
          BY <2>0, <2>3, <2>7, <4>1
        <5>2. Flight' # <<>> /\ Flight'[Len(Flight')] = Flight[Len(Flight)]
          BY <1>2, <2>0, <2>1, <2>2, <3>1, <5>1, Shifted
        <5> QED
          BY <4>1, <5>2 DEF Somewhere, Grants
      <4>2. CASE ~(Flight # <<>> /\ ~Grants(Flight[Len(Flight)]))
        BY <1>1, <1>4, <3>1, <4>2 DEF Somewhere, Reading
      <4> QED
        BY <4>1, <4>2
    <3>6. RequestSide'
      BY <1>1, <1>2, <2>6, <3>3, <3>4, <3>5 DEF RequestSide
    <3>7. sendFC'.FS = sendFC.FS
      BY <1>2, <3>1 DEF Unfailed
    <3> QED
      BY <1>1, <1>2, <3>6, <3>7, UnfailedKept
  <2>8. CASE k = 0 /\ Flight[1].type = "SF"
    <3>0. Flight[1].lo \in 1 .. CF_DATA
      BY <2>4, <2>8 DEF BeginsAt
    <3>1. /\ Flight' = Tail(Flight) /\ Rests'
          /\ rxbuf' = [length |-> Flight[1].lo, id |-> Flight[1].id,
                       segs |-> <<Copied(Flight[1])>>]
          /\ rcv' = [rcv EXCEPT !.N_result = "N_OK"] /\ sendFC' = sendFC
      BY <1>6, <2>8, <3>0 DEF Wakes
    <3>2. /\ rxbuf'.segs # <<>> /\ rxbuf'.segs[1].data = Flight[1].data
          /\ rxbuf'.length = Flight[1].lo /\ rxbuf'.segs[1].type = "SF"
          /\ rcv'.N_result = "N_OK"
      <4>1. rxbuf'.segs = <<Copied(Flight[1])>> /\ rxbuf'.length = Flight[1].lo
        BY <3>1
      <4>2. Copied(Flight[1]).data = Flight[1].data /\ Copied(Flight[1]).type = "SF"
        BY <2>8 DEF Copied
      <4>3. rcv'.N_result = "N_OK"
        BY <1>1, <3>1 DEF RxRuntime
      <4> QED
        BY <4>1, <4>2, <4>3, Singleton
    <3>3. Between'
      <4>1. Len(Flight') = n - 1 /\ \A i \in 1 .. n - 1 : Flight'[i] = Flight[i + 1]
        BY <1>2, <2>0, <2>1, <3>1, Shifted
      <4>2. BeginsAfter(0)'
        <5> SUFFICES ASSUME NEW i \in 1 .. n - 1 PROVE BeginsAt(i)'
          BY <4>1 DEF BeginsAfter
        <5>1. i + 1 \in 0 + 1 .. n /\ (i + 1 = n <=> i = n - 1)
          OBVIOUS
        <5>2. BeginsAt(i + 1) /\ Flight'[i] = Flight[i + 1]
          BY <1>3, <2>0, <2>8, <4>1, <5>1 DEF BeginsAfter
        <5> QED
          BY <1>1, <2>0, <4>1, <5>1, <5>2 DEF BeginsAt, Announced
      <4>3. Announces(0)'
        <5> SUFFICES ASSUME call = "schedule_tx"
                     PROVE  0 < n - 1 /\ Flight'[n - 1].type = "FF"
          BY <1>1, <4>1 DEF Announces
        <5>1. Flight[n].type = "FF"
          BY <1>3, <2>0, <2>8 DEF Announces
        <5>2. n # 1
          BY <2>8, <5>1
        <5> QED
          BY <2>2, <4>1, <5>1, <5>2
      <4>4. Granted(0)' /\ inbox' = <<>> /\ 0 \in 0 .. Len(Flight')
        BY <1>1, <1>2, <2>2, <4>1 DEF Granted
      <4> QED
        BY <3>1, <4>2, <4>3, <4>4 DEF Between
    <3>4. ASSUME rxbuf'.segs[1].data.msg \notin Quiet PROVE Mine'
      <4>1. 1 = n /\ call = "waitSForFF" /\ Flight[1].lo = request.length
        BY <2>0, <2>4, <2>8, <3>2, <3>4 DEF BeginsAt
      <4>2. Drained'
        BY <1>1, <1>2, <2>0, <2>1, <3>1, <4>1, Shifted DEF Drained, Rests
      <4> QED
        BY <1>1, <3>0, <3>2, <4>1, <4>2 DEF Mine
    <3>5. CopyInv'
      <4>1. Reading' => poll' = None
        BY <1>1, <1>2 DEF CopyInv, Reading
      <4>2. user'.at \in {"rcv_clear", "rcv_result"} => user'.got.length > 0
        BY <1>1, <1>2 DEF CopyInv
      <4>3. Reading' /\ (user'.at = "rcv_data" => user'.n > 0) =>
              /\ user'.n > 0 /\ user'.got.segs # <<>>
              /\ user'.got.segs[1].data.msg \in Quiet
        BY <1>1, <1>2, <2>5 DEF CopyInv, Reading
      <4>4. rxbuf'.segs # <<>> /\ rxbuf'.length > 0
        BY <3>0, <3>2, Sizes
      <4> QED
        BY <3>4, <4>1, <4>2, <4>3, <4>4 DEF CopyInv
    <3>6. RequestSide'
      BY <1>1, <1>2, <2>6, <3>2, <3>3, <3>5 DEF RequestSide, Somewhere
    <3> QED
      BY <1>1, <1>2, <3>1, <3>6, UnfailedKept
  <2>9. CASE k = 0 /\ Flight[1].type = "FF"
    <3>1. /\ Flight' = Flight /\ pdu'.is_valid
          /\ rcv'.status = "RCV_FF" /\ rcv'.N_result = rcv.N_result
          /\ UNCHANGED <<rxbuf, rcvFC, sendFC>>
      BY <1>6, <2>9 DEF Wakes
    <3>2. Len(Flight) = 1
      BY <2>4, <2>9 DEF BeginsAt
    <3>3. Judges'
      <4>1. BeginsAt(1)'
        BY <1>1, <2>4, <2>9, <3>1 DEF BeginsAt, Announced
      <4> QED
        BY <1>2, <2>9, <3>1, <3>2, <4>1 DEF Judges, Rests
    <3>4. CopyInv'
      <4>1. ~Receiving'
        BY <3>1 DEF Receiving
      <4> QED
        BY <1>1, <1>2, <1>4, <2>5, <3>1, <4>1, CopyRests
    <3>5. RequestSide'
      BY <1>1, <1>2, <2>6, <3>1, <3>3, <3>4 DEF RequestSide, Somewhere
    <3> QED
      BY <1>1, <1>2, <3>1, <3>5, UnfailedKept
  <2> QED
    BY <1>3, <2>4, <2>7, <2>8, <2>9
<1> QED
  BY <1>2, <1>5, <1>6, RestsRx

(* A message whose last frame does not end a block fails to do so with every *)
(* block.                                                                    *)
LEMMA EndsInside ==
  ASSUME NEW L \in Nat, L >= 7, ~((1 + Consecutives(L)) % FC_BS = 0), NEW j \in Nat
  PROVE  \/ L - 6 <= 7 * ((FC_BS - 1) + j * FC_BS) - 7
         \/ 7 * ((FC_BS - 1) + j * FC_BS) < L - 6
<1>1. FC_BS \in Nat /\ FC_BS > 0
  BY BlockAssumption
<1>2. PICK B \in Nat : B = (FC_BS - 1) + j * FC_BS
  <2>1. j * FC_BS \in Nat
    BY <1>1
  <2>2. (FC_BS - 1) + j * FC_BS \in Nat
    BY <1>1, <2>1
  <2> QED
    BY <2>2
<1>3. (1 + B) % FC_BS = 0
  <2>1. 1 + B = (j + 1) * FC_BS
    BY <1>1, <1>2
  <2>2. \A q \in Nat : (q * FC_BS) % FC_BS = 0
    BY <1>1
  <2> QED
    BY <2>1, <2>2
<1>4. ASSUME 7 * B - 7 < L - 6, L - 6 <= 7 * B
      PROVE  FALSE
  <2>1. L \div 7 = B
    BY <1>2, <1>4
  <2>2. Consecutives(L) = L \div 7
    BY Sizes DEF Consecutives
  <2> QED
    BY <1>3, <2>1, <2>2
<1> QED
  BY <1>2, <1>4

(* A first frame is judged and granted a block.                              *)
LEMMA JudgesRx ==
  ASSUME Calm, NodeTick, Rx, Smooth', RequestSide, Judges
  PROVE  Unfailed' /\ RequestSide'
<1>1. /\ UNCHANGED <<bus, tp, call, request, response, outcome, user, poll, asked, inbox>>
      /\ UNCHANGED <<txbuf, send.status, send.length, send.CF_SN>>
      /\ rcv \in RxRuntime /\ RcvTypeOK
      /\ Consume => Untouched(FALSE)
  BY RxCalm
<1>2. /\ rcv.status = "RCV_FF" /\ pdu.is_valid /\ ~rcvFC.is_valid
      /\ Len(Flight) = 1 /\ Flight[1].type = "FF" /\ ExchangeIInv /\ Unfailed /\ CopyInv
      /\ call # "receive" /\ SenderQuiet'
  BY <1>1 DEF Calm, Judges, RequestSide, SenderQuiet
<1>3. /\ Announced /\ FF_DL(Flight[1]) = request.length
      /\ Flight[1].data.msg = request.msg
  BY <1>2 DEF Judges, BeginsAt
<1>4. Pdu.is_valid /\ Flight[1] = Pdu.f /\ Flight # <<>> /\ Kind = "FF"
  <2>1. Pdu.is_valid
    BY <1>2 DEF Pdu
  <2>2. Keep \/ Consume
    BY DEF Rx, RxPart, RcvUnknown, RcvSingleFrame, RcvSingleFrameError, RcvMultipleFrame,
        IdleFirstFrame, FirstFrame, FirstFrameTooLong, FirstFrameTooShort, TakeFlowCtrlFrame,
        FlowControlSent, FlowControlLate, FlowControlUnsent, ConsecutiveFrame, FinishReceive,
        WrongSequenceNumber, ConsecutiveFrameTimeout, ConsecutiveFramePending
  <2>3. Flight[1] = Pdu.f /\ Flight # <<>>
    BY <2>1, <2>2, RxCalm DEF Untouched
  <2> QED
    BY <1>1, <1>2, <2>1, <2>3, KindOfPdu
<1>5. /\ request.length \in Nat /\ request.length >= 7 /\ request.length <= N_DATA_MAX
      /\ ~EndsBlock(request) /\ N_DATA_MAX \in Nat
  <2>1. asked # <<>>
    BY <1>2, <1>3 DEF Unfailed, Announced
  <2>2. request.length <= N_DATA_MAX /\ ~EndsBlock(request)
    BY <2>1, RequestFits
  <2>3. request.length \in Nat
    BY <1>2, RequestType
  <2>4. N_DATA_MAX \in Nat
    BY BufferAssumption
  <2> QED
    BY <1>3, <2>2, <2>3, <2>4, Sizes DEF Announced
<1>6. FirstFrame /\ sendFC' = sendFC
  <2>1. FF_DL(Pdu.f) \in FF_DATA + 1 .. N_DATA_MAX
    BY <1>3, <1>4, <1>5, Sizes
  <2>2. ~FirstFrameTooLong /\ ~FirstFrameTooShort
    BY <2>1, <1>5, Sizes DEF FirstFrameTooLong, FirstFrameTooShort
  <2>3. RxPart /\ UNCHANGED sendVars
    BY <1>4 DEF Rx, TakeFlowCtrlFrame
  <2> QED
    BY <1>2, <1>4, <2>2, <2>3 DEF RxPart, RcvUnknown, RcvSingleFrame, RcvSingleFrameError,
       RcvMultipleFrame, IdleFirstFrame, FlowControlSent, FlowControlLate, FlowControlUnsent,
       ConsecutiveFrame, FinishReceive, WrongSequenceNumber, ConsecutiveFrameTimeout,
       ConsecutiveFramePending, InFlow, Unknown, sendVars
<1>7. /\ Flight' = <<>> /\ ~pdu'.is_valid
  <2>1. Untouched(FALSE)
    BY <1>1, <1>6 DEF FirstFrame
  <2> QED
    BY <1>2, <1>4, <2>1, Shifted DEF Untouched
<1>8. /\ rxbuf'.length = request.length /\ rxbuf'.segs = <<Copied(Flight[1])>>
      /\ rcv'.status = "SEND_FC" /\ rcv'.N_result = "N_INVALID" /\ rcv'.CF_SN = 1
      /\ rcv'.length = request.length - FF_DATA
      /\ rcvFC'.is_valid /\ rcvFC'.FS = CTS /\ rcvFC'.BS = FC_BS - 1
  BY <1>1, <1>3, <1>4, <1>6 DEF FirstFrame, ResultCleared, FlowControl, RxRuntime
<1>9. /\ rxbuf'.segs # <<>> /\ rxbuf'.segs[1].type = "FF" /\ Len(rxbuf'.segs) = 1
      /\ rxbuf'.segs[1].data.msg = request.msg
  <2>1. Copied(Flight[1]).type = "FF" /\ Copied(Flight[1]).data = Flight[1].data
    BY <1>2 DEF Copied
  <2> QED
    BY <1>3, <1>8, <2>1, Singleton, Alone
<1>10. Receiving'
  BY <1>8 DEF Receiving
<1>11. EndsWithin'
  <2>1. ~((1 + Consecutives(request.length)) % FC_BS = 0)
    BY <1>5, Sizes DEF EndsBlock
  <2> SUFFICES ASSUME NEW j \in Nat
               PROVE  LET left == CF_DATA * (rcvFC'.BS + j * FC_BS)
                      IN  rcv'.length <= left - CF_DATA \/ left < rcv'.length
    BY DEF EndsWithin
  <2> QED
    BY <1>5, <1>8, <2>1, EndsInside, Sizes
<1>12. Writes(0)'
  <2>1. NextSN(0) = 1
    BY SequenceAssumption DEF NextSN
  <2>2. 0 = Len(Flight')
    BY <1>7, EmptySeq
  <2>3. /\ call' = "schedule_tx" /\ tp'.state = "WAIT_FC" /\ inbox' = <<>> /\ tp'.SN = 0
        /\ tp'.t_size = FF_DATA
    BY <1>1, <1>3 DEF Announced
  <2>4. NumberAfter(0)' = 1
    BY <1>8 DEF NumberAfter
  <2>5. /\ request.length - FF_DATA > CF_DATA * 0
        /\ request.length - FF_DATA = (request.length - FF_DATA) - CF_DATA * 0
    BY <1>5, Sizes
  <2> QED
    BY <1>1, <1>8, <1>9, <2>1, <2>2, <2>3, <2>4, <2>5 DEF Writes
<1>13. Takes'
  <2>1. rcvFC'.BS \in 1 .. FC_BS /\ rcv'.length > 0
    BY <1>5, <1>8, Sizes, BlockAssumption
  <2>2. 0 \in 0 .. Len(Flight') /\ 1 .. 0 = {}
    BY <1>7, EmptySeq
  <2> QED
    BY <1>8, <1>9, <1>10, <1>11, <1>12, <2>1, <2>2 DEF Takes
<1>14. CopyInv'
  <2>1. ~Mine /\ ~CopyTrue
    BY <1>2, <1>4 DEF Mine, Drained, CopyTrue, Receiving
  <2>2. Mine'
    <3>1. \A i \in 1 .. Len(Flight') : Flight'[i].type = "CF"
      BY <1>7, EmptySeq
    <3>2. rcv'.length + Expected(Len(rxbuf'.segs)) = request.length
      BY <1>5, <1>8, <1>9, Sizes DEF Expected
    <3>3. call' # "none"
      BY <1>1, <1>3 DEF Announced
    <3> QED
      BY <1>1, <1>8, <1>9, <1>10, <3>1, <3>2, <3>3 DEF Mine
  <2>3. rxbuf'.segs # <<>> /\ rxbuf'.length > 0
    BY <1>5, <1>8, <1>9
  <2> QED
    BY <1>1, <1>2, <2>1, <2>2, <2>3 DEF CopyInv, Reading
<1>15. poll # None => poll[1] \in Quiet
  BY <1>4 DEF RequestSide, Drained
<1>16. RequestSide'
  BY <1>1, <1>2, <1>3, <1>13, <1>14, <1>15 DEF RequestSide, Announced
<1> QED
  BY <1>1, <1>2, <1>6, <1>16, UnfailedKept

(* The first k frames in flight are those that the receiver expects.         *)
InFlight(k) == \A i \in 1 .. k : Flight[i].type = "CF" /\ Flight[i].lo = NumberAfter(i - 1)

(* The next frame of the message is taken.                                   *)
TakesNext ==
    /\ rcv.status = "RCV_CF" /\ ConsecutiveFrame /\ UNCHANGED sendFC
    /\ Flight # <<>> /\ Flight' = Tail(Flight) /\ ~pdu'.is_valid /\ Pdu.f = Flight[1]

(* What the receiver does while it takes a message: wait, or take a frame.   *)
LEMMA TakesRxCases ==
  ASSUME Calm, NodeTick, Rx, Smooth', Takes, NEW k \in Nat, k <= Len(Flight),
         InFlight(k), Writes(k) \/ Wrote(k)
  PROVE  \/ /\ Flight' = Flight /\ UNCHANGED <<rxbuf, rcvFC, sendFC>>
            /\ \/ rcv' = rcv
               \/ rcv' = [rcv EXCEPT !.status = "RCV_CF"] /\ ~rcvFC.is_valid
         \/ TakesNext /\ k >= 1
<1>1. /\ RcvTypeOK /\ rcv \in RxRuntime /\ rcvFC \in FCParam /\ ~TimerRanOut
      /\ Keep => Untouched(TRUE)
      /\ Consume => Untouched(FALSE)
  BY RxCalm
<1>2. /\ rcv.status \in {"RCV_CF", "SEND_FC"} /\ rcv.N_result = "N_INVALID"
      /\ rcv.status = "SEND_FC" => rcvFC.FS = CTS
  BY DEF Takes, Receiving
<1>3. ~FlowControlLate /\ ~ConsecutiveFrameTimeout
  <2>1. FlowControlLate => rcv'.N_result = "N_ERROR"
    BY <1>1 DEF FlowControlLate, RcvOK, RxRuntime
  <2>2. ConsecutiveFrameTimeout => rcv'.N_result = "N_TIMEOUT_Cr"
    BY <1>1 DEF ConsecutiveFrameTimeout, RcvOK, RxRuntime
  <2> QED
    BY <1>1, <1>2, <2>1, <2>2 DEF TimerRanOut
<1>4. Keep \/ Consume
  BY DEF Rx, RxPart, RcvUnknown, RcvSingleFrame, RcvSingleFrameError, RcvMultipleFrame,
      IdleFirstFrame, FirstFrame, FirstFrameTooLong, FirstFrameTooShort, TakeFlowCtrlFrame,
      FlowControlSent, FlowControlLate, FlowControlUnsent, ConsecutiveFrame, FinishReceive,
      WrongSequenceNumber, ConsecutiveFrameTimeout, ConsecutiveFramePending
<1>5. ASSUME Pdu.is_valid
      PROVE  /\ Flight # <<>> /\ Pdu.f = Flight[1] /\ k >= 1
             /\ Pdu.f.type = "CF" /\ Pdu.f.lo = rcv.CF_SN /\ Kind = "CF"
  <2>1. Flight # <<>> /\ Pdu.f = Flight[1]
    BY <1>1, <1>4, <1>5 DEF Untouched
  <2>2. Len(Flight) \in Nat /\ Len(Flight) >= 1
    BY <2>1, FlightType, TailOf DEF Calm
  <2>3. k # 0
    BY <2>2 DEF Writes, Wrote
  <2>4. k >= 1 /\ 1 \in 1 .. k
    BY <2>3
  <2>5. Flight[1].type = "CF" /\ Flight[1].lo = NumberAfter(1 - 1)
    BY <2>4 DEF InFlight
  <2>6. NumberAfter(1 - 1) = rcv.CF_SN
    BY DEF NumberAfter
  <2> QED
    BY <1>1, <1>5, <2>1, <2>4, <2>5, <2>6, KindOfPdu
<1>6. Kind \notin {"SF", "FC"}
  BY <1>1, <1>5, KindOfPdu
<1>7. RxPart /\ UNCHANGED sendFC /\ ~RcvSingleFrame /\ ~RcvSingleFrameError
  BY <1>6 DEF Rx, TakeFlowCtrlFrame, RcvSingleFrame, RcvSingleFrameError, sendVars
<1>8. ~WrongSequenceNumber
  BY <1>5 DEF WrongSequenceNumber
<1>9. RcvUnknown \/ FlowControlSent \/ FlowControlUnsent \/ ConsecutiveFrame
      \/ ConsecutiveFramePending
  BY <1>2, <1>3, <1>7, <1>8 DEF RxPart, RcvMultipleFrame, IdleFirstFrame, FirstFrame,
     FirstFrameTooLong, FirstFrameTooShort, FinishReceive, InFlow
<1>10. CASE RcvUnknown \/ FlowControlUnsent \/ ConsecutiveFramePending
  <2>1. UNCHANGED <<rxbuf, rcv, rcvFC>> /\ Keep
    BY <1>10 DEF RcvUnknown, FlowControlUnsent, ConsecutiveFramePending
  <2> QED
    BY <1>1, <1>7, <2>1 DEF Untouched
<1>11. CASE FlowControlSent
  <2>1. /\ UNCHANGED <<rxbuf, rcvFC>> /\ Keep /\ ~rcvFC.is_valid
        /\ rcv' = [rcv EXCEPT !.status = "RCV_CF"]
    BY <1>2, <1>11 DEF FlowControlSent, InFlow
  <2> QED
    BY <1>1, <1>7, <2>1 DEF Untouched
<1>12. CASE ConsecutiveFrame
  <2>1. rcv.status = "RCV_CF" /\ Pdu.is_valid /\ Consume
    BY <1>12 DEF ConsecutiveFrame, InFlow
  <2> QED
    BY <1>1, <1>5, <1>7, <1>12, <2>1 DEF Untouched, TakesNext
<1> QED
  BY <1>9, <1>10, <1>11, <1>12

(* Nothing is taken; at most it is seen that flow control was sent.          *)
LEMMA TakesWaits ==
  ASSUME Calm, RequestSide, Takes, NEW k \in Nat, k <= Len(Flight),
         InFlight(k), Writes(k) \/ Wrote(k),
         UNCHANGED <<tp, call, request, user, poll, inbox, rxbuf, rcvFC>>, SenderQuiet',
         Flight' = Flight,
         rcv' = rcv \/ (rcv' = [rcv EXCEPT !.status = "RCV_CF"] /\ ~rcvFC.is_valid)
  PROVE  RequestSide'
<1>1. rcv \in RxRuntime /\ CopyInv /\ call # "receive"
  BY DEF Calm, ExchangeIInv, RcvTypeOK, RequestSide
<1>2. /\ rcv'.N_result = rcv.N_result /\ rcv'.length = rcv.length /\ rcv'.CF_SN = rcv.CF_SN
      /\ rcv'.status = rcv.status \/ (rcv'.status = "RCV_CF" /\ ~rcvFC.is_valid)
  BY <1>1 DEF RxRuntime
<1>3. Receiving /\ Receiving'
  BY <1>2 DEF Takes, Receiving
<1>4. EndsWithin'
  BY <1>2 DEF Takes, EndsWithin
<1>5. \A i \in Nat : NumberAfter(i)' = NumberAfter(i)
  BY <1>2 DEF NumberAfter
<1>6. Writes(k) => Writes(k)'
  BY <1>2, <1>5 DEF Writes, Grants
<1>7. Wrote(k) => Wrote(k)'
  BY <1>2 DEF Wrote, BeginsAfter, BeginsAt, Announced, Announces
<1>8. Takes'
  <2>1. \A i \in 1 .. k : Flight'[i].type = "CF" /\ Flight'[i].lo = NumberAfter(i - 1)'
    BY <1>5 DEF InFlight
  <2>2. k \in 0 .. Len(Flight')
    BY FlightType DEF Calm
  <2> QED
    BY <1>2, <1>3, <1>4, <1>6, <1>7, <2>1, <2>2 DEF Takes
<1>9. ~Drained /\ ~Drained'
  BY <1>3 DEF Drained, Receiving
<1>10. CopyInv'
  <2>1. (Reading <=> Reading') /\ (Fresh <=> Fresh')
    BY <1>2, <1>3 DEF Reading, Fresh
  <2>2. Mine => Mine'
    BY <1>2, <1>3, <1>9 DEF Mine
  <2>3. CopyTrue => CopyTrue'
    BY <2>2 DEF CopyTrue
  <2> QED
    BY <1>1, <2>1, <2>2, <2>3 DEF CopyInv
<1> QED
  BY <1>1, <1>3, <1>8, <1>9, <1>10 DEF RequestSide, Somewhere

(* The frame that is taken is one of the message that comes in.              *)
LEMMA TakesMore ==
  ASSUME Calm, RequestSide, Takes, TakesNext, UNCHANGED user
  PROVE  /\ rcv.length \in Nat /\ rcv.length > 0 /\ rcvFC.BS \in Nat /\ rcvFC.BS >= 1
         /\ Len(rxbuf.segs) \in Nat /\ Len(rxbuf'.segs) = Len(rxbuf.segs) + 1
         /\ rxbuf'.segs # <<>> /\ rxbuf'.segs[1] = rxbuf.segs[1]
         /\ \A i \in 1 .. Len(rxbuf.segs) : rxbuf'.segs[i] = rxbuf.segs[i]
         /\ rxbuf'.length = rxbuf.length /\ ~Drained
         /\ rcvFC.BS = 1 => rcvFC' = FlowControl(CTS, FC_BS)
         /\ rcvFC.BS # 1 => /\ rcvFC'.BS = rcvFC.BS - 1
                            /\ rcvFC'.is_valid = rcvFC.is_valid
         /\ LastMissing => rcv'.status = "RCV_OK" /\ rcv'.N_result = "N_OK"
         /\ ~LastMissing =>
              /\ rcv'.N_result = rcv.N_result /\ rcv'.length = rcv.length - CF_DATA
              /\ rcv'.CF_SN = NextSN(Flight[1].lo)
              /\ rcv'.status = IF rcvFC.BS = 1 THEN "SEND_FC" ELSE "RCV_CF"
<1>1. RcvTypeOK /\ rcv \in RxRuntime /\ rcvFC \in FCParam /\ rxbuf \in RxBuffer
  BY DEF Calm, ExchangeIInv, RcvTypeOK
<1>2. rcv.length \in Nat /\ rcvFC.BS \in Nat
  <2>1. rcv.length \in 0 .. N_DATA_MAX /\ N_DATA_MAX \in Nat
    BY <1>1, BufferAssumption DEF RxRuntime
  <2> QED
    BY <1>1, <2>1 DEF FCParam
<1>3. rcv.length > 0 /\ rcvFC.BS >= 1 /\ rxbuf.segs # <<>>
  BY <1>2 DEF Takes
<1>4. ~(rcv.length = 0)
  BY <1>2, <1>3
<1>5. rxbuf' = [rxbuf EXCEPT !.segs = Append(@, Copied(Pdu.f))]
  BY <1>4 DEF TakesNext, ConsecutiveFrame
<1>6. rxbuf'.segs = Append(rxbuf.segs, Copied(Pdu.f)) /\ rxbuf'.length = rxbuf.length
      /\ rxbuf.segs \in Seq(SegmentType) /\ Copied(Pdu.f) \in SegmentType
  BY <1>1, <1>5, PduFrame DEF RxBuffer, Segments, SegmentType
<1>7. /\ Len(rxbuf.segs) \in Nat /\ Len(rxbuf.segs) >= 1
      /\ Len(rxbuf'.segs) = Len(rxbuf.segs) + 1 /\ rxbuf'.segs # <<>>
      /\ \A i \in 1 .. Len(rxbuf.segs) : rxbuf'.segs[i] = rxbuf.segs[i]
  BY <1>3, <1>6, LastAppended, TailOf
<1>8. rxbuf'.segs[1] = rxbuf.segs[1]
  BY <1>7
<1>9. ~Drained
  BY DEF TakesNext, Drained
<1>10. /\ rcvFC.BS = 1 => rcvFC' = FlowControl(CTS, FC_BS)
       /\ rcvFC.BS # 1 => rcvFC'.BS = rcvFC.BS - 1 /\ rcvFC'.is_valid = rcvFC.is_valid
  BY <1>1, <1>2, <1>3 DEF TakesNext, ConsecutiveFrame, DecByte, FCParam
<1>11. LastMissing => rcv'.status = "RCV_OK" /\ rcv'.N_result = "N_OK"
  BY <1>1 DEF TakesNext, ConsecutiveFrame, RcvOK, RxRuntime
<1>12. ~LastMissing =>
          /\ rcv'.N_result = rcv.N_result /\ rcv'.length = rcv.length - CF_DATA
          /\ rcv'.CF_SN = NextSN(Flight[1].lo)
          /\ rcv'.status = IF rcvFC.BS = 1 THEN "SEND_FC" ELSE "RCV_CF"
  BY <1>1 DEF TakesNext, ConsecutiveFrame, RxRuntime
<1> QED
  BY <1>2, <1>3, <1>6, <1>7, <1>8, <1>9, <1>10, <1>11, <1>12

(* With the last frame the request is whole.                                 *)
LEMMA TakesLast ==
  ASSUME Calm, RequestSide, Takes, TakesNext, NEW k \in Nat, k >= 1, k <= Len(Flight),
         InFlight(k), Writes(k) \/ Wrote(k), LastMissing,
         UNCHANGED <<tp, call, request, user, poll, inbox>>, SenderQuiet'
  PROVE  RequestSide'
<1>1. /\ rcv.length \in Nat /\ rcv.length > 0 /\ rcvFC.BS \in Nat /\ rcvFC.BS >= 1
      /\ Len(rxbuf.segs) \in Nat /\ Len(rxbuf'.segs) = Len(rxbuf.segs) + 1
      /\ rxbuf'.segs # <<>> /\ rxbuf'.segs[1] = rxbuf.segs[1]
      /\ \A i \in 1 .. Len(rxbuf.segs) : rxbuf'.segs[i] = rxbuf.segs[i]
      /\ rxbuf'.length = rxbuf.length /\ ~Drained
      /\ rcvFC.BS # 1 => rcvFC'.BS = rcvFC.BS - 1 /\ rcvFC'.is_valid = rcvFC.is_valid
      /\ rcv'.status = "RCV_OK" /\ rcv'.N_result = "N_OK"
  BY TakesMore
<1>2. rcv.length <= 7 /\ ExchangeIInv /\ CopyInv /\ call # "receive"
  BY Sizes DEF LastMissing, Calm, RequestSide
<1>3. Wrote(k) /\ k = 1
  <2>1. ~Writes(k)
    BY <1>1, <1>2, Sizes DEF Writes
  <2>2. CF_DATA * (k - 1) < rcv.length
    BY <2>1 DEF Wrote
  <2> QED
    BY <1>1, <1>2, <2>1, <2>2, Sizes
<1>4. rcvFC.BS # 1
  <2>1. LET left == CF_DATA * (rcvFC.BS + 0 * FC_BS)
        IN  rcv.length <= left - CF_DATA \/ left < rcv.length
    BY DEF Takes, EndsWithin
  <2>2. rcvFC.BS + 0 * FC_BS = rcvFC.BS
    BY <1>1, BlockAssumption
  <2> QED
    BY <1>1, <1>2, <2>1, <2>2, Sizes
<1>5. PICK n \in Nat : n = Len(Flight)
  BY <1>2, FlightType
<1>6. /\ Flight # <<>> /\ Flight' = Tail(Flight) /\ ~pdu'.is_valid /\ Len(Flight') = n - 1
  BY <1>2, <1>5, Shifted DEF TakesNext
<1>7. BeginsAfter(0)' /\ Announces(0)'
  <2>1. BeginsAfter(k - 1)' /\ Announces(k - 1)'
    BY <1>2, <1>3, <1>6, ShiftedWay DEF Wrote
  <2> QED
    BY <1>3, <2>1
<1>8. Between'
  <2>1. ~rcvFC'.is_valid /\ inbox' = <<>>
    BY <1>1, <1>3, <1>4 DEF Wrote
  <2>2. 0 \in 0 .. Len(Flight') /\ Granted(0)'
    BY <1>3, <1>5, <1>6 DEF Granted
  <2> QED
    BY <1>1, <1>6, <1>7, <2>1, <2>2 DEF Between, Rests
<1>9. ASSUME Mine PROVE Mine' /\ Drained'
  <2>1. /\ Receiving /\ call # "none" /\ \A i \in 1 .. Len(Flight) : Flight[i].type = "CF"
    BY <1>1, <1>9 DEF Mine
  <2>2. n = 1
    <3>1. ASSUME n # 1 PROVE FALSE
      <4>1. 2 \in k + 1 .. n /\ 2 \in 1 .. Len(Flight)
        BY <1>3, <1>5, <3>1
      <4>2. BeginsAt(2)
        BY <1>3, <1>5, <4>1 DEF Wrote, BeginsAfter
      <4> QED
        BY <2>1, <4>1, <4>2 DEF BeginsAt
    <3> QED
      BY <3>1
  <2>3. Flight' = <<>>
    BY <1>2, <1>5, <1>6, <2>2, Shifted
  <2>4. call = "waitSForFF"
    <3>1. call # "schedule_tx"
      BY <1>3, <1>5, <2>2 DEF Wrote, Announces
    <3>2. call \in Calls
      BY <1>2 DEF ExchangeIInv, TesterTypeOK
    <3> QED
      BY <1>2, <2>1, <3>1, <3>2 DEF Calls
  <2>5. Drained'
    BY <1>1, <2>3, <2>4 DEF Drained
  <2> QED
    BY <1>1, <1>9, <2>5 DEF Mine
<1>10. CopyTrue => CopyTrue'
  BY <1>1, <1>9 DEF CopyTrue
<1>11. CopyInv'
  <2>1. Receiving
    BY DEF Takes
  <2>2. Fresh /\ (Reading <=> Reading')
    BY <2>1 DEF Fresh, Reading
  <2>3. /\ Reading' => poll' = None
        /\ user'.at \in {"rcv_clear", "rcv_result"} => user'.got.length > 0
    BY <1>2 DEF CopyInv, Reading
  <2>4. poll' = None /\ user'.at # "rcv_result" => rxbuf'.length > 0
    BY <1>1, <1>2, <2>2 DEF CopyInv
  <2>5. poll' = None /\ rxbuf'.segs[1].data.msg \notin Quiet => Mine'
    BY <1>1, <1>2, <1>9, <2>2 DEF CopyInv
  <2>6. Reading' /\ (user'.at = "rcv_data" => user'.n > 0) =>
         /\ user'.n > 0 /\ user'.got.segs # <<>>
         /\ user'.got.segs[1].data.msg \notin Quiet => CopyTrue'
    BY <1>2, <1>10, <2>2 DEF CopyInv
  <2> QED
    BY <1>1, <2>3, <2>4, <2>5, <2>6 DEF CopyInv
<1>12. poll # None => poll[1] \in Quiet
  BY <1>1 DEF RequestSide
<1> QED
  BY <1>1, <1>2, <1>8, <1>11, <1>12 DEF RequestSide, Somewhere

(* The end of a message stays within a block when a frame is taken.          *)
LEMMA EndsShifted ==
  ASSUME EndsWithin, rcv.length \in Nat, rcvFC.BS \in Nat, rcvFC.BS >= 1,
         rcv'.length = rcv.length - CF_DATA,
         rcvFC'.BS = IF rcvFC.BS = 1 THEN FC_BS ELSE rcvFC.BS - 1
  PROVE  EndsWithin'
<1> SUFFICES ASSUME NEW j \in Nat
             PROVE  LET left == CF_DATA * (rcvFC'.BS + j * FC_BS)
                    IN  rcv'.length <= left - CF_DATA \/ left < rcv'.length
  BY DEF EndsWithin
<1>1. FC_BS \in Nat
  BY BlockAssumption
<1>2. PICK x \in Nat : x = j * FC_BS
  <2>1. j * FC_BS \in Nat
    BY <1>1
  <2> QED
    BY <2>1
<1>3. CASE rcvFC.BS = 1
  <2>1. (j + 1) * FC_BS = x + FC_BS /\ j + 1 \in Nat
    BY <1>1, <1>2
  <2>2. LET left == CF_DATA * (rcvFC.BS + (j + 1) * FC_BS)
        IN  rcv.length <= left - CF_DATA \/ left < rcv.length
    BY <2>1 DEF EndsWithin
  <2>3. LET left == 7 * (1 + (x + FC_BS))
        IN  rcv.length <= left - 7 \/ left < rcv.length
    BY <1>3, <2>1, <2>2, Sizes
  <2>4. LET left == 7 * (FC_BS + x)
        IN  rcv.length - 7 <= left - 7 \/ left < rcv.length - 7
    BY <1>1, <2>3
  <2> QED
    BY <1>2, <1>3, <2>4, Sizes
<1>4. CASE rcvFC.BS # 1
  <2>1. LET left == 7 * (rcvFC.BS + x)
        IN  rcv.length <= left - 7 \/ left < rcv.length
    BY <1>2, Sizes DEF EndsWithin
  <2>2. LET left == 7 * ((rcvFC.BS - 1) + x)
        IN  rcv.length - 7 <= left - 7 \/ left < rcv.length - 7
    BY <2>1
  <2> QED
    BY <1>2, <1>4, <2>2, Sizes
<1> QED
  BY <1>3, <1>4

(* A frame that is not the last of its message.                              *)
LEMMA TakesOne ==
  ASSUME Calm, RequestSide, Takes, TakesNext, NEW k \in Nat, k >= 1, k <= Len(Flight),
         InFlight(k), Writes(k) \/ Wrote(k), ~LastMissing,
         UNCHANGED <<tp, call, request, user, poll, inbox>>, SenderQuiet'
  PROVE  RequestSide'
<1>1. /\ rcv.length \in Nat /\ rcv.length > 0 /\ rcvFC.BS \in Nat /\ rcvFC.BS >= 1
      /\ Len(rxbuf.segs) \in Nat /\ Len(rxbuf'.segs) = Len(rxbuf.segs) + 1
      /\ rxbuf'.segs # <<>> /\ rxbuf'.segs[1] = rxbuf.segs[1]
      /\ \A i \in 1 .. Len(rxbuf.segs) : rxbuf'.segs[i] = rxbuf.segs[i]
      /\ rxbuf'.length = rxbuf.length /\ ~Drained
      /\ rcvFC.BS = 1 => rcvFC' = FlowControl(CTS, FC_BS)
      /\ rcvFC.BS # 1 => rcvFC'.BS = rcvFC.BS - 1 /\ rcvFC'.is_valid = rcvFC.is_valid
      /\ rcv'.N_result = rcv.N_result /\ rcv'.length = rcv.length - CF_DATA
      /\ rcv'.CF_SN = NextSN(Flight[1].lo)
      /\ rcv'.status = IF rcvFC.BS = 1 THEN "SEND_FC" ELSE "RCV_CF"
  BY TakesMore
<1>2. ~(rcv.length <= CF_DATA)
  BY DEF LastMissing
<1>3. rcv.length > 7 /\ rcv'.length > 0 /\ rcv'.length = rcv.length - 7
  BY <1>1, <1>2, Sizes
<1>4. ExchangeIInv /\ CopyInv /\ call # "receive" /\ Receiving
  BY DEF Calm, RequestSide, Takes
<1>5. PICK n \in Nat : n = Len(Flight)
  BY <1>4, FlightType
<1>6. /\ Flight # <<>> /\ Flight' = Tail(Flight) /\ Len(Flight') = n - 1
      /\ \A i \in 1 .. n - 1 : Flight'[i] = Flight[i + 1]
  BY <1>4, <1>5, Shifted DEF TakesNext
<1>7. rcvFC.BS = 1 => rcvFC'.is_valid /\ rcvFC'.FS = CTS /\ rcvFC'.BS = FC_BS
  BY <1>1 DEF FlowControl
<1>8. Receiving'
  BY <1>1, <1>7 DEF Receiving
<1>9. EndsWithin'
  BY <1>1, <1>7, EndsShifted DEF Takes
<1>10. rcvFC'.BS \in 1 .. FC_BS
  <2>1. rcvFC.BS \in 1 .. FC_BS
    BY DEF Takes
  <2>2. FC_BS \in Nat /\ FC_BS >= 1
    BY BlockAssumption
  <2>3. CASE rcvFC.BS = 1
    BY <1>7, <2>2, <2>3
  <2>4. CASE rcvFC.BS # 1
    BY <1>1, <2>1, <2>2, <2>4
  <2> QED
    BY <2>3, <2>4
<1>11. \A i \in 0 .. k - 1 : NumberAfter(i)' = NumberAfter(i + 1)
  <2> SUFFICES ASSUME NEW i \in 0 .. k - 1 PROVE NumberAfter(i)' = NumberAfter(i + 1)
    OBVIOUS
  <2>1. CASE i = 0
    BY <1>1, <2>1 DEF NumberAfter
  <2>2. CASE i # 0
    <3>1. i \in 1 .. n - 1 /\ i + 1 # 0
      BY <1>5, <2>2
    <3>2. Flight'[i] = Flight[i + 1]
      BY <1>6, <3>1
    <3> QED
      BY <2>2, <3>1, <3>2 DEF NumberAfter
  <2> QED
    BY <2>1, <2>2
<1>12. \A i \in 1 .. k - 1 :
           Flight'[i].type = "CF" /\ Flight'[i].lo = NumberAfter(i - 1)'
  <2> SUFFICES ASSUME NEW i \in 1 .. k - 1
               PROVE  Flight'[i].type = "CF" /\ Flight'[i].lo = NumberAfter(i - 1)'
    OBVIOUS
  <2>1. i \in 1 .. n - 1 /\ i + 1 \in 1 .. k /\ i - 1 \in 0 .. k - 1 /\ (i + 1) - 1 = i
        /\ (i - 1) + 1 = i
    BY <1>5
  <2>2. Flight[i + 1].type = "CF" /\ Flight[i + 1].lo = NumberAfter(i)
    BY <2>1 DEF InFlight
  <2>3. NumberAfter(i - 1)' = NumberAfter(i)
    BY <1>11, <2>1
  <2> QED
    BY <1>6, <2>1, <2>2, <2>3
<1>13. ASSUME Writes(k) PROVE Writes(k - 1)'
  <2>1. k - 1 = Len(Flight') /\ call' = "schedule_tx" /\ rxbuf'.segs[1].data.msg = request.msg
    BY <1>1, <1>5, <1>6, <1>13 DEF Writes
  <2>2. /\ request.length - tp.t_size = rcv'.length - CF_DATA * (k - 1)
        /\ rcv'.length > CF_DATA * (k - 1)
    BY <1>1, <1>3, <1>13, Sizes DEF Writes
  <2>3. NextSN(tp.SN) = NumberAfter(k - 1)'
    <3>1. k - 1 \in 0 .. k - 1 /\ (k - 1) + 1 = k
      OBVIOUS
    <3>2. NumberAfter(k - 1)' = NumberAfter(k)
      BY <1>11, <3>1
    <3> QED
      BY <1>13, <3>2 DEF Writes
  <2>4. tp.BS \in Int
    <3>1. tp.BS \in 0 .. 255
      BY <1>4 DEF ExchangeIInv, TesterTypeOK
    <3>2. \A b : b \in 0 .. 255 => b \in Int
      OBVIOUS
    <3> QED
      BY <3>1, <3>2
  <2>5. CASE /\ tp.state = "SEND_CF" /\ ~rcvFC.is_valid /\ inbox = <<>>
             /\ tp.BS = rcvFC.BS - k /\ tp.BS > 0
    <3>1. rcvFC.BS # 1 /\ tp.BS = (rcvFC.BS - 1) - (k - 1)
      BY <1>1, <2>4, <2>5
    <3> QED
      BY <1>1, <2>1, <2>2, <2>3, <2>5, <3>1 DEF Writes
  <2>6. CASE tp.state = "WAIT_FC" /\ ~rcvFC.is_valid /\ inbox = <<>> /\ k = rcvFC.BS
    <3>1. CASE rcvFC.BS = 1
      <4>1. k - 1 = 0 /\ rcv'.status = "SEND_FC"
        BY <1>1, <2>6, <3>1
      <4> QED
        BY <1>7, <2>1, <2>2, <2>3, <2>6, <3>1, <4>1 DEF Writes
    <3>2. CASE rcvFC.BS # 1
      BY <1>1, <2>1, <2>2, <2>3, <2>6, <3>2 DEF Writes
    <3> QED
      BY <3>1, <3>2
  <2> QED
    BY <1>13, <2>5, <2>6 DEF Writes
<1>14. ASSUME Wrote(k) PROVE Wrote(k - 1)'
  <2>1. /\ ~rcvFC.is_valid /\ inbox = <<>> /\ k <= rcvFC.BS
        /\ rcv.length <= CF_DATA * k /\ CF_DATA * (k - 1) < rcv.length
        /\ BeginsAfter(k) /\ Announces(k)
    BY <1>14 DEF Wrote
  <2>2. k >= 2 /\ rcvFC.BS # 1
    <3>1. rcv.length <= 7 * k
      BY <2>1, Sizes
    <3>2. k # 1
      BY <1>1, <1>3, <3>1
    <3> QED
      BY <1>1, <2>1, <3>2
  <2>3. BeginsAfter(k - 1)' /\ Announces(k - 1)'
    BY <1>4, <1>6, <2>1, ShiftedWay
  <2>4. /\ 1 <= k - 1 /\ k - 1 <= rcvFC'.BS
        /\ rcv'.length <= CF_DATA * (k - 1) /\ CF_DATA * ((k - 1) - 1) < rcv'.length
    BY <1>1, <1>3, <2>1, <2>2, Sizes, SMTT(30)
  <2>5. ~rcvFC'.is_valid /\ inbox' = <<>>
    BY <1>1, <2>1, <2>2
  <2> QED
    BY <2>3, <2>4, <2>5 DEF Wrote
<1>15. Takes'
  <2>1. k - 1 \in 0 .. Len(Flight')
    BY <1>5, <1>6
  <2>2. rcv'.N_result = "N_INVALID" /\ rxbuf'.segs[1].type = "FF"
    BY <1>1 DEF Takes
  <2> QED
    BY <1>1, <1>3, <1>8, <1>9, <1>10, <1>12, <1>13, <1>14, <2>1, <2>2 DEF Takes
<1>16. Mine => Mine'
  <2>1. Mine => \A i \in 1 .. Len(Flight') : Flight'[i].type = "CF"
    <3> SUFFICES ASSUME Mine, NEW i \in 1 .. n - 1 PROVE Flight'[i].type = "CF"
      BY <1>6
    <3>1. i + 1 \in 1 .. n /\ Flight'[i] = Flight[i + 1]
      BY <1>6
    <3> QED
      BY <1>1, <1>5, <3>1 DEF Mine
  <2>2. Expected(Len(rxbuf'.segs)) = Expected(Len(rxbuf.segs)) + 7
        /\ Expected(Len(rxbuf.segs)) \in Int
    BY <1>1, Sizes DEF Expected
  <2>3. Mine => rcv'.length + Expected(Len(rxbuf'.segs)) = request.length
    <3>1. Mine => rcv.length + Expected(Len(rxbuf.segs)) = request.length
      BY <1>1 DEF Mine
    <3>2. rcv'.length + Expected(Len(rxbuf'.segs)) = rcv.length + Expected(Len(rxbuf.segs))
      BY <1>1, <1>3, <2>2
    <3> QED
      BY <3>1, <3>2
  <2> QED
    BY <1>1, <1>8, <2>1, <2>3 DEF Mine
<1>17. CopyTrue => CopyTrue'
  BY <1>1, <1>16 DEF CopyTrue
<1>18. CopyInv'
  <2>1. Fresh /\ Fresh' /\ (Reading <=> Reading')
    BY <1>4, <1>8 DEF Fresh, Reading
  <2> QED
    BY <1>1, <1>4, <1>16, <1>17, <2>1 DEF CopyInv
<1>19. poll # None => poll[1] \in Quiet
  BY <1>1 DEF RequestSide
<1> QED
  BY <1>4, <1>8, <1>15, <1>18, <1>19 DEF RequestSide, Somewhere

(* While it takes the frames of a request.                                   *)
LEMMA TakesRx ==
  ASSUME Calm, NodeTick, Rx, Smooth', RequestSide, Takes
  PROVE  Unfailed' /\ RequestSide'
<1>1. /\ UNCHANGED <<bus, tp, call, request, response, outcome, user, poll, asked, inbox>>
      /\ UNCHANGED <<txbuf, send.status, send.length, send.CF_SN>>
  BY RxCalm
<1>2. PICK k \in 0 .. Len(Flight) : InFlight(k) /\ (Writes(k) \/ Wrote(k))
  BY DEF Takes, InFlight
<1>3. k \in Nat /\ k <= Len(Flight)
  BY <1>2, FlightType DEF Calm
<1>4. SenderQuiet'
  BY <1>1 DEF RequestSide, SenderQuiet
<1>5. CASE /\ Flight' = Flight /\ UNCHANGED <<rxbuf, rcvFC, sendFC>>
           /\ \/ rcv' = rcv
              \/ rcv' = [rcv EXCEPT !.status = "RCV_CF"] /\ ~rcvFC.is_valid
  <2>0. UNCHANGED <<tp, call, request, user, poll, inbox, rxbuf, rcvFC>>
    BY <1>1, <1>5
  <2>1. RequestSide'
    BY <1>2, <1>3, <1>4, <1>5, <2>0, TakesWaits
  <2> QED
    BY <1>1, <1>5, <2>1, UnfailedKept DEF Calm
<1>6. CASE TakesNext /\ k >= 1
  <2>1. RequestSide'
    BY <1>1, <1>2, <1>3, <1>4, <1>6, TakesLast, TakesOne
  <2>2. sendFC' = sendFC
    BY <1>6 DEF TakesNext
  <2> QED
    BY <1>1, <2>1, <2>2, UnfailedKept DEF Calm
<1> QED
  BY <1>2, <1>3, <1>5, <1>6, TakesRxCases

LEMMA SmoothRx ==
  ASSUME Calm, Sides, NodeTick, Rx, Smooth'
  PROVE  Unfailed' /\ Sides'
BY AnswerRx, BetweenRx, JudgesRx, TakesRx DEF Sides, RequestSide

LEMMA SmoothTimer ==
  ASSUME Calm, Sides, NodeTick, TimerCtrl, Smooth'
  PROVE  Unfailed' /\ Sides'
<1>1. /\ UNCHANGED <<tp, call, request, response, outcome, bus, user, poll, asked>>
      /\ out' = <<>> /\ inbox' = inbox
  BY TickCalm DEF Calm, TimerCtrl
<1>2. UNCHANGED <<txbuf, send, sendFC, rxbuf, rcv, rcvFC, pdu, mailbox>>
  BY DEF TimerCtrl, SendTimerCtrl, RcvTimerCtrl
<1>3. Flight' = Flight
  BY <1>1, <1>2 DEF Flight, Unseen
<1>4. SenderQuiet => SenderQuiet'
  BY <1>1, <1>2 DEF SenderQuiet
<1>5. RequestSide => RequestSide'
  BY <1>1, <1>2, <1>3, <1>4, RequestKept DEF RequestSide
<1>6. AnswerSide => AnswerSide'
  BY <1>1, <1>2, <1>3, OverKept, AnswerKept DEF AnswerSide
<1> QED
  BY <1>1, <1>2, <1>5, <1>6, UnfailedKept DEF Calm, Sides

(* A tick as a whole.                                                        *)
LEMMA SmoothTick ==
  ASSUME Calm, ExchangeIInv', Sides, NodeTick, Smooth'
  PROVE  Unfailed' /\ Sides'
BY SmoothTx, SmoothFc, SmoothRx, SmoothTimer DEF NodeTick, MainNetworkLayer

-----------------------------------------------------------------------------
(* The driver and the thread of the server.                                  *)

LEMMA SmoothNotification ==
  ASSUME Calm, Sides, RxNotification, Smooth'
  PROVE  Unfailed' /\ Sides'
<1>1. Flight' = Flight /\ pdu' = pdu
  BY FlightNotified DEF Calm, Smooth
<1>2. /\ UNCHANGED <<rcv, rcvFC, rxbuf, txbuf, send, sendFC, user>>
      /\ UNCHANGED <<tp, call, request, response, outcome, inbox, poll, asked>>
  BY DEF RxNotification, Deliver, RxFrameData, sendVars, nodeVars, vars
<1>3. SenderQuiet => SenderQuiet'
  BY <1>2 DEF SenderQuiet
<1>4. RequestSide => RequestSide'
  BY <1>1, <1>2, <1>3, RequestKept DEF RequestSide
<1>5. AnswerSide => AnswerSide'
  BY <1>1, <1>2, OverKept, AnswerKept DEF AnswerSide
<1> QED
  BY <1>2, <1>4, <1>5, UnfailedKept DEF Calm, Sides

(* What the server's thread leaves alone.                                    *)
LEMMA UserLeaves ==
  ASSUME Calm, UserStep, UNCHANGED testerVars
  PROVE  /\ Flight' = Flight /\ pdu' = pdu
         /\ UNCHANGED <<call, tp, request, response, outcome, inbox, rcvFC, sendFC>>
         /\ asked' = asked => Unfailed'
<1>1. UNCHANGED <<pdu, mailbox, bus, rcvFC, sendFC>>
      /\ UNCHANGED <<call, tp, request, response, outcome, inbox>>
  BY DEF UserStep, testerVars
<1>2. Flight' = Flight
  BY <1>1 DEF Flight, Unseen
<1> QED
  BY <1>1, <1>2, UnfailedKept DEF Calm

(* The server looks for a request.                                           *)
LEMMA SmoothPoll ==
  ASSUME Calm, Sides, Poll
  PROVE  Unfailed' /\ Sides'
<1>1. /\ poll = None /\ poll' = poll /\ asked' = asked
      /\ user.at = "none" /\ rcv.N_result = "N_OK"
      /\ user' = [user EXCEPT !.at = "rcv_data", !.n = 0]
      /\ UserStep /\ UNCHANGED <<txbuf, send, rxbuf, rcv, testerVars>>
  BY DEF Poll, BeginReceive, historyVars
<1>2. /\ Flight' = Flight /\ pdu' = pdu /\ Unfailed'
      /\ UNCHANGED <<call, tp, request, response, outcome, inbox, rcvFC, sendFC>>
  BY <1>1, UserLeaves
<1>3. user'.at = "rcv_data" /\ user'.n = 0 /\ user'.got = user.got
  <2>1. UserTypes
    BY DEF Calm, ExchangeIInv
  <2> QED
    BY <1>1, <2>1 DEF UserTypes
<1>4. RequestSide /\ CopyInv
  BY <1>1 DEF Sides, AnswerSide, RequestOver, RequestSide
<1>5. Way'
  BY <1>1, <1>2, <1>4, WayKept DEF RequestSide, Way
<1>6. CopyInv'
  <2>1. Fresh /\ (Mine => Mine')
    BY <1>1, <1>2, <1>3 DEF Fresh, Mine, Drained, Receiving
  <2> QED
    BY <1>1, <1>3, <1>4, <2>1 DEF CopyInv
<1>7. SenderQuiet'
  BY <1>1, <1>3, <1>4 DEF RequestSide, SenderQuiet
<1> QED
  BY <1>1, <1>2, <1>4, <1>5, <1>6, <1>7 DEF RequestSide, Somewhere, Way, Sides

(* It stores an answer,                                                      *)
LEMMA SmoothStores ==
  ASSUME Calm, Sides, InCall, SendStores
  PROVE  Unfailed' /\ Sides'
<1>1. /\ UserStep /\ UNCHANGED <<rxbuf, rcv, testerVars, poll, asked>>
  BY DEF InCall, SendStores, SendData, SendLength, SendResult, historyVars
<1>2. /\ Flight' = Flight /\ pdu' = pdu /\ Unfailed'
      /\ UNCHANGED <<call, tp, request, response, outcome, inbox, rcvFC, sendFC>>
  BY <1>1, UserLeaves
<1>3. UserTypes /\ SendTypeOK /\ SenderInv /\ HistoryTypes
  BY DEF Calm, ExchangeIInv
<1>4. CASE SendData \/ SendLength
  <2>1. user.at \in {"send_data", "send_length"}
    BY <1>4 DEF SendData, SendLength, Go
  <2>2. AnswerSide /\ Prepared /\ send.status = "TX_IDLE" /\ txbuf.length = 0
    BY <2>1 DEF Sides, RequestSide, SenderQuiet, AnswerSide, SentSingle, SentMultiple, Prepared
  <2>3. /\ send' = send
        /\ \/ user'.at = "send_length" /\ txbuf'.length = 0
           \/ user'.at = "send_result" /\ txbuf'.length = user.m.length
    BY <1>3, <1>4, <2>2 DEF SendData, SendLength, Go, UserTypes, TxBuffer, SendTypeOK
  <2>4. user.m.length > 0
    <3>1. replied # <<>> /\ user.m = LastOf(replied) /\ replied \in Seq(Messages)
      BY <1>3, <2>1 DEF SenderInv, HistoryTypes
    <3>2. user.m \in Messages
      <4>1. replied[Len(replied)] \in Messages
        BY <3>1, RangeTail, ElementOfSeq, TailOf
      <4> QED
        BY <3>1, <4>1 DEF LastOf
    <3>3. \A a \in Messages : a.length \in 1 .. N_DATA_MAX
      BY MessagesAssumption
    <3>4. \A l : l \in 1 .. N_DATA_MAX => l > 0
      BY BufferAssumption
    <3> QED
      BY <3>2, <3>3, <3>4
  <2>5. RequestOver'
    BY <1>1, <1>2, <2>2, <2>3 DEF AnswerSide, RequestOver, Rests, Granted, Grants, Reading
  <2>6. Prepared'
    BY <1>2, <2>2, <2>3, <2>4 DEF Prepared
  <2> QED
    BY <1>2, <2>5, <2>6 DEF AnswerSide, Sides
<1>5. CASE SendResult
  <2>1. /\ user.at = "send_result" /\ user'.at = "none"
        /\ user'.n = user.n /\ user'.got = user.got
        /\ txbuf' = txbuf /\ send'.status = send.status /\ send'.length = send.length
        /\ send'.CF_SN = send.CF_SN
    BY <1>3, <1>5 DEF SendResult, Go, UserTypes, SendTypeOK, TxRuntime
  <2>2. ~Reading /\ ~Reading' /\ (SenderQuiet <=> SenderQuiet')
    BY <2>1 DEF Reading, SenderQuiet
  <2>3. RequestSide => RequestSide'
    <3>1. Way => Way'
      BY <1>1, <1>2, WayKept
    <3>2. (Mine => Mine') /\ (Fresh <=> Fresh') /\ (Drained <=> Drained')
      BY <1>1, <1>2, <2>1, <2>2 DEF Mine, Fresh, Drained, Receiving
    <3>3. CopyInv => CopyInv'
      BY <1>1, <2>1, <2>2, <3>2 DEF CopyInv
    <3>4. Somewhere => Somewhere'
      BY <1>1, <1>2, <2>2 DEF Somewhere, Receiving, Grants
    <3> QED
      BY <1>1, <1>2, <2>2, <3>1, <3>2, <3>3, <3>4 DEF RequestSide, Way
  <2>4. AnswerSide => AnswerSide'
    <3>1. RequestOver => RequestOver'
      BY <1>1, <1>2, <2>2 DEF RequestOver, Rests, Granted, Grants
    <3>2. Prepared => Prepared'
      BY <1>2, <2>1 DEF Prepared
    <3>3. SentSingle => SentSingle'
      BY <1>2, <2>2 DEF SentSingle
    <3>4. SentMultiple => SentMultiple'
      BY <1>2, <2>1, <2>2, SentFramesKept DEF SentMultiple, Sending
    <3> QED
      BY <3>1, <3>2, <3>3, <3>4 DEF AnswerSide
  <2> QED
    BY <1>2, <2>3, <2>4 DEF Sides
<1> QED
  BY <1>4, <1>5 DEF SendStores

(* and copies a request.                                                     *)
LEMMA SmoothLoads ==
  ASSUME Calm, Sides, InCall, ReceiveLoads
  PROVE  Unfailed' /\ Sides'
<1>1. /\ UserStep /\ UNCHANGED <<txbuf, send, rcv, testerVars, poll, asked>>
      /\ rxbuf' = rxbuf \/ rxbuf' = [rxbuf EXCEPT !.length = 0]
  BY DEF InCall, ReceiveLoads, ReceiveData, ReceiveLength, ReceiveClear, historyVars
<1>2. /\ Flight' = Flight /\ pdu' = pdu /\ Unfailed'
      /\ UNCHANGED <<call, tp, request, response, outcome, inbox, rcvFC, sendFC>>
  BY <1>1, UserLeaves
<1>3. UserTypes /\ RcvTypeOK /\ user.n \in Nat /\ user.got.segs \in Seq(SegmentType)
  BY DEF Calm, ExchangeIInv, UserTypes
<1>4. rxbuf'.segs = rxbuf.segs /\ rxbuf.length \in Nat /\ rxbuf.segs \in Seq(SegmentType)
  <2>1. rxbuf \in RxBuffer
    BY <1>3 DEF RcvTypeOK
  <2>2. rxbuf.length \in 0 .. N_DATA_MAX /\ N_DATA_MAX \in Nat
    BY <2>1, BufferAssumption DEF RxBuffer
  <2> QED
    BY <1>1, <2>1, <2>2 DEF RxBuffer, Segments, SegmentType
<1>5. user.at \in {"rcv_data", "rcv_length", "rcv_clear"} /\ Reading
  BY DEF ReceiveLoads, ReceiveData, ReceiveLength, ReceiveClear, Go, Reading
<1>6. RequestSide /\ CopyInv /\ poll = None /\ Fresh
  BY <1>5 DEF Sides, AnswerSide, RequestOver, RequestSide, CopyInv, Fresh
<1>7. rxbuf.segs # <<>> /\ rxbuf.length > 0
  BY <1>5, <1>6 DEF CopyInv
<1>8. Way'
  BY <1>1, <1>2, <1>4, <1>6, WayKept DEF RequestSide, Way
<1>9. rxbuf.segs[1].data.msg \notin Quiet => Mine
  BY <1>6 DEF CopyInv
<1>10. \/ user.at = "rcv_data" /\ user.n = 0
       \/ /\ user.n > 0 /\ user.got.segs # <<>>
          /\ user.got.segs[1].data.msg \notin Quiet => CopyTrue
  BY <1>3, <1>5, <1>6 DEF CopyInv
<1>11. /\ Reading' /\ SenderQuiet' /\ Fresh'
       /\ user'.at \in {"rcv_data", "rcv_length", "rcv_clear", "rcv_result"}
       /\ user'.at # "rcv_result" => rxbuf' = rxbuf
  BY <1>1, <1>3, <1>6
  DEF ReceiveLoads, ReceiveData, ReceiveLength, ReceiveClear, Go, Reading, RequestSide,
      SenderQuiet, Fresh, UserTypes
<1>12. Mine => Mine'
  <2>1. (Drained <=> Drained') /\ (Receiving <=> Receiving')
    BY <1>1, <1>2 DEF Drained, Receiving
  <2> QED
    BY <1>1, <1>2, <1>4, <1>5, <1>11, <2>1 DEF Mine
<1>13. SegmentsIn(rxbuf.length, rxbuf.segs[1].type) > 0
  <2>1. rxbuf.length \in 0 .. N_DATA_MAX
    BY <1>3 DEF RcvTypeOK, RxBuffer
  <2>2. SegmentsIn(rxbuf.length, rxbuf.segs[1].type) \in Nat \ {0}
    BY <1>7, <2>1, SegmentsType
  <2> QED
    BY <2>2
<1>14. /\ user'.at \in {"rcv_clear", "rcv_result"} => user'.got.length > 0
       /\ (user'.at = "rcv_data" => user'.n > 0) =>
            /\ user'.n > 0 /\ user'.got.segs # <<>>
            /\ user'.got.segs[1].data.msg \notin Quiet => CopyTrue'
  <2>1. CASE /\ user.at = "rcv_data"
             /\ user.n < SegmentsIn(rxbuf.length, rxbuf.segs[1].type)
    <3> DEFINE s == IF user.n < Len(rxbuf.segs) THEN rxbuf.segs[user.n + 1] ELSE LeftOver
    <3>1. ReceiveData
      BY <2>1 DEF ReceiveLoads, ReceiveLength, ReceiveClear, Go
    <3>2. user' = [user EXCEPT !.n = @ + 1,
                       !.got.segs = IF user.n = 0 THEN <<s>> ELSE Append(@, s)]
      BY <2>1, <3>1 DEF ReceiveData
    <3>3. s \in SegmentType
      <4>1. LeftOver \in SegmentType
        BY Defaults DEF LeftOver, SegmentType, FrameTypes
      <4>2. user.n < Len(rxbuf.segs) => rxbuf.segs[user.n + 1] \in SegmentType
        BY <1>3, <1>4, ElementOfSeq
      <4> QED
        BY <4>1, <4>2
    <3> HIDE DEF s
    <3>4. /\ user'.at = "rcv_data" /\ user'.n = user.n + 1
          /\ user'.got.segs = IF user.n = 0 THEN <<s>> ELSE Append(user.got.segs, s)
      BY <1>3, <2>1, <3>2 DEF UserTypes
    <3>5. user'.n > 0 /\ user'.got.segs # <<>>
      BY <1>3, <3>3, <3>4, LastAppended, Singleton
    <3>6. ASSUME user'.got.segs[1].data.msg \notin Quiet PROVE CopyTrue'
      <4>1. CASE user.n = 0
        <5>1. s = rxbuf.segs[1] /\ Len(rxbuf.segs) >= 1
          BY <1>4, <1>7, <4>1, TailOf DEF s
        <5>2. Len(user'.got.segs) = 1 /\ user'.got.segs[1] = s /\ user'.n = 1
          BY <3>4, <4>1, Alone
        <5>3. Mine'
          BY <1>9, <1>12, <3>6, <5>1, <5>2
        <5> QED
          BY <1>4, <3>4, <5>1, <5>2, <5>3 DEF CopyTrue
      <4>2. CASE user.n # 0
        <5>1. user.got.segs # <<>> /\ user.got.segs[1].data.msg \notin Quiet => CopyTrue
          BY <1>10, <4>2
        <5>2. /\ user'.got.segs = Append(user.got.segs, s)
              /\ Len(user'.got.segs) = Len(user.got.segs) + 1
              /\ user'.got.segs[Len(user.got.segs) + 1] = s
              /\ \A i \in 1 .. Len(user.got.segs) : user'.got.segs[i] = user.got.segs[i]
          BY <1>3, <3>3, <3>4, <4>2, LastAppended
        <5>3. user'.got.segs[1] = user.got.segs[1]
          BY <1>3, <5>1, <5>2, TailOf, <1>10, <4>2
        <5>4. CopyTrue /\ Len(user.got.segs) = user.n
          BY <1>10, <3>6, <4>2, <5>3 DEF CopyTrue
        <5>5. \A i \in 1 .. user.n + 1 :
                 \/ i <= Len(rxbuf'.segs) /\ user'.got.segs[i] = rxbuf'.segs[i]
                 \/ i > 1 /\ user'.got.segs[i] = LeftOver
          <6> SUFFICES ASSUME NEW i \in 1 .. user.n + 1
                       PROVE  \/ i <= Len(rxbuf.segs) /\ user'.got.segs[i] = rxbuf.segs[i]
                              \/ i > 1 /\ user'.got.segs[i] = LeftOver
            BY <1>4
          <6>1. CASE i = user.n + 1
            <7>1. user'.got.segs[i] = s /\ i > 1
              BY <1>3, <4>2, <5>2, <5>4, <6>1
            <7>2. CASE user.n < Len(rxbuf.segs)
              BY <1>3, <1>4, <6>1, <7>1, <7>2 DEF s
            <7>3. CASE ~(user.n < Len(rxbuf.segs))
              BY <7>1, <7>3 DEF s
            <7> QED
              BY <7>2, <7>3
          <6>2. CASE i # user.n + 1
            <7>1. i \in 1 .. user.n
              BY <1>3, <6>2
            <7> QED
              BY <5>2, <5>4, <7>1 DEF CopyTrue
          <6> QED
            BY <6>1, <6>2
        <5> QED
          BY <1>12, <3>4, <5>2, <5>4, <5>5 DEF CopyTrue
      <4> QED
        BY <4>1, <4>2
    <3> QED
      BY <3>4, <3>5, <3>6
  <2>2. CASE /\ user.at = "rcv_data"
             /\ ~(user.n < SegmentsIn(rxbuf.length, rxbuf.segs[1].type))
    <3>1. user' = [user EXCEPT !.at = "rcv_length"]
      BY <2>2 DEF ReceiveLoads, ReceiveData, ReceiveLength, ReceiveClear, Go
    <3>2. user'.at = "rcv_length" /\ user'.n = user.n /\ user'.got = user.got
      BY <1>3, <3>1 DEF UserTypes
    <3>3. user.n # 0
      BY <1>13, <2>2
    <3>4. user.n > 0 /\ user.got.segs # <<>>
          /\ (user.got.segs[1].data.msg \notin Quiet => CopyTrue)
      BY <1>10, <3>3
    <3>5. CopyTrue => user.n >= SegmentsIn(request.length, rxbuf.segs[1].type)
      <4>1. CopyTrue => rxbuf.length = request.length
        BY <1>5 DEF CopyTrue, Mine
      <4>2. SegmentsIn(rxbuf.length, rxbuf.segs[1].type) \in Nat
        <5>1. rxbuf.length \in 0 .. N_DATA_MAX
          BY <1>3 DEF RcvTypeOK, RxBuffer
        <5> QED
          BY <1>7, <5>1, SegmentsType
      <4>3. user.n >= SegmentsIn(rxbuf.length, rxbuf.segs[1].type)
        BY <1>3, <2>2, <4>2
      <4> QED
        BY <4>1, <4>3
    <3>6. CopyTrue => CopyTrue'
      BY <1>2, <1>4, <1>12, <3>2, <3>5 DEF CopyTrue
    <3> QED
      BY <3>2, <3>4, <3>6
  <2>3. CASE user.at \in {"rcv_length", "rcv_clear"}
    <3>1. /\ user'.n = user.n /\ user'.got.segs = user.got.segs
          /\ user'.at \in {"rcv_clear", "rcv_result"}
          /\ IF user.at = "rcv_length" THEN user'.got.length = rxbuf.length
             ELSE user'.got.length = user.got.length
      <4>1. CASE user.at = "rcv_length"
        <5>1. user' = [user EXCEPT !.at = "rcv_clear", !.got.length = rxbuf.length]
          BY <4>1 DEF ReceiveLoads, ReceiveData, ReceiveLength, ReceiveClear, Go
        <5> QED
          BY <1>3, <4>1, <5>1 DEF UserTypes
      <4>2. CASE user.at = "rcv_clear"
        <5>1. user' = [user EXCEPT !.at = "rcv_result"]
          BY <4>2 DEF ReceiveLoads, ReceiveData, ReceiveLength, ReceiveClear, Go
        <5> QED
          BY <1>3, <4>2, <5>1 DEF UserTypes
      <4> QED
        BY <2>3, <4>1, <4>2
    <3>2. user'.got.length > 0
      BY <1>6, <1>7, <2>3, <3>1 DEF CopyInv
    <3>3. CopyTrue => CopyTrue'
      <4>1. CopyTrue => user'.n >= SegmentsIn(request.length, rxbuf.segs[1].type)
        BY <2>3, <3>1 DEF CopyTrue
      <4> QED
        BY <1>2, <1>4, <1>12, <3>1, <4>1 DEF CopyTrue
    <3>4. /\ user.n > 0 /\ user.got.segs # <<>>
          /\ user.got.segs[1].data.msg \notin Quiet => CopyTrue
      BY <1>10, <2>3
    <3> QED
      BY <3>1, <3>2, <3>3, <3>4
  <2> QED
    BY <1>5, <2>1, <2>2, <2>3
<1>15. CopyInv'
  <2>1. rxbuf'.segs[1].data.msg \notin Quiet => Mine'
    BY <1>4, <1>9, <1>12
  <2> QED
    BY <1>1, <1>4, <1>6, <1>7, <1>11, <1>14, <2>1 DEF CopyInv
<1> QED
  BY <1>1, <1>2, <1>6, <1>8, <1>11, <1>15 DEF RequestSide, Somewhere, Way, Sides

(* A request is asked for whose copy the server has put together.            *)
LEMMA TakenIsAsked ==
  ASSUME Calm, ~hasty => Phase /\ TesterInv, TakeRequest, ~disturbed'
  PROVE  \E m : IsAllOf(user.got.segs, m)
<1>1. Place(user.got.segs, asked) # 0
  <2>1. CASE hasty
    BY <2>1 DEF TakeRequest
  <2>2. CASE ~hasty
    <3>1. Place(user.got.segs, asked) = Len(asked) /\ asked # <<>> /\ asked \in Seq(Script)
      BY <2>2, RequestTaken DEF Calm, HistoryTypes
    <3> QED
      BY <3>1, TailOf
  <2> QED
    BY <2>1, <2>2
<1>2. {i \in DOMAIN asked : IsAllOf(user.got.segs, asked[i])} # {}
  BY <1>1 DEF Place
<1> QED
  BY <1>2

(* It is the whole of what was put together in Rx_buf.                       *)
LEMMA CopyIsWhole ==
  ASSUME Calm, RequestSide, CopyTrue, user.at = "rcv_result", user.n > 0,
         NEW m, IsAllOf(user.got.segs, m)
  PROVE  Drained
<1>1. /\ rcv \in RxRuntime /\ rxbuf.segs \in Seq(SegmentType) /\ user.n \in Nat
      /\ user.got.segs \in Seq(SegmentType) /\ ExchangeIInv
  BY DEF Calm, ExchangeIInv, RcvTypeOK, RxBuffer, Segments, SegmentType, UserTypes
<1>2. /\ Mine /\ Len(user.got.segs) = user.n
      /\ user.n >= SegmentsIn(request.length, rxbuf.segs[1].type)
  BY DEF CopyTrue
<1> SUFFICES ASSUME ~Drained PROVE FALSE
  OBVIOUS
<1>3. Receiving /\ rcv.length + Expected(Len(rxbuf.segs)) = request.length
  BY <1>2 DEF Mine
<1>4. Takes /\ rcv.length > 0 /\ rxbuf.segs[1].type = "FF" /\ rxbuf.segs # <<>>
  BY <1>3 DEF RequestSide, Between, Rests, Judges, Takes, Receiving
<1>5. \A i \in 1 .. user.n : i <= Len(rxbuf.segs)
  <2> SUFFICES ASSUME NEW i \in 1 .. user.n, i > 1, user.got.segs[i] = LeftOver PROVE FALSE
    BY DEF CopyTrue
  <2>1. i \in DOMAIN user.got.segs
    <3>1. DOMAIN user.got.segs = 1 .. Len(user.got.segs)
      BY <1>1
    <3>2. Len(user.got.segs) = user.n
      BY <1>2
    <3> QED
      BY <3>1, <3>2
  <2>2. user.got.segs[i].data =
            [msg |-> m.msg, pos |-> IF i = 1 THEN 0 ELSE FF_DATA + CF_DATA * (i - 2)]
    BY <2>1 DEF IsAllOf
  <2>3. user.got.segs[i].data.pos = FF_DATA + CF_DATA * (i - 2)
    BY <2>2
  <2>4. LeftOver.data.pos = 0
    BY DEF LeftOver, NoData
  <2> QED
    BY <2>3, <2>4, Sizes
<1>6. PICK n \in Nat : n = Len(rxbuf.segs)
  BY <1>1
<1>7. n >= 1 /\ user.n <= n
  BY <1>1, <1>4, <1>5, <1>6, TailOf
<1>8. rcv.length \in Nat
  <2>1. rcv.length \in 0 .. N_DATA_MAX /\ N_DATA_MAX \in Nat
    BY <1>1, BufferAssumption DEF RxRuntime
  <2> QED
    BY <2>1
<1>9. PICK l \in Nat : l = request.length
  BY <1>1, RequestType
<1>10. l = rcv.length + (6 + 7 * (n - 1)) /\ l >= 7 * n
  BY <1>3, <1>4, <1>6, <1>8, <1>9, Sizes DEF Expected
<1>11. Consecutives(l) = l \div 7
  BY Sizes DEF Consecutives
<1>12. l \div 7 >= n
  BY <1>10
<1>13. SegmentsIn(l, "FF") = 1 + (l \div 7) /\ l \div 7 \in Nat
  <2>1. l # 0
    BY <1>7, <1>10
  <2> QED
    BY <1>11, <2>1 DEF SegmentsIn
<1>14. user.n >= 1 + (l \div 7)
  BY <1>2, <1>4, <1>9, <1>13
<1> QED
  BY <1>1, <1>7, <1>12, <1>13, <1>14

(* It takes the request for whose answer the tester waits, or another.       *)
LEMMA SmoothTaken ==
  ASSUME Calm, Sides, ~hasty => Phase /\ TesterInv, TakeRequest, ~disturbed'
  PROVE  Unfailed' /\ Sides'
<1>1. /\ UserStep /\ UNCHANGED <<txbuf, send, rxbuf, testerVars, asked>>
      /\ user.at = "rcv_result" /\ user' = [user EXCEPT !.at = "none"]
      /\ rcv' = [rcv EXCEPT !.N_result = "N_INVALID"]
      /\ poll' = <<user.got.segs[1].data.msg>>
  BY DEF TakeRequest, ReceiveResult, Go
<1>2. /\ Flight' = Flight /\ pdu' = pdu /\ Unfailed'
      /\ UNCHANGED <<call, tp, request, response, outcome, inbox, rcvFC, sendFC>>
  BY <1>1, UserLeaves
<1>3. /\ user'.at = "none" /\ rcv'.N_result = "N_INVALID"
      /\ rcv'.status = rcv.status /\ rcv'.length = rcv.length /\ rcv'.CF_SN = rcv.CF_SN
  <2>1. UserTypes /\ rcv \in RxRuntime
    BY DEF Calm, ExchangeIInv, RcvTypeOK
  <2> QED
    BY <1>1, <2>1 DEF UserTypes, RxRuntime
<1>4. Reading /\ ~Reading' /\ poll' # None /\ poll'[1] = user.got.segs[1].data.msg
  BY <1>1, <1>3, Singleton, Alone DEF Reading, None
<1>5. RequestSide /\ CopyInv
  BY <1>4 DEF Sides, AnswerSide, RequestOver, RequestSide
<1>6. Way'
  BY <1>1, <1>2, <1>3, <1>5, WayKept DEF RequestSide, Way
<1>7. CopyInv'
  BY <1>3, <1>4 DEF CopyInv
<1>8. SenderQuiet'
  BY <1>1, <1>3, <1>5 DEF RequestSide, SenderQuiet
<1>9. poll'[1] \notin Quiet => Drained'
  <2>1. user.n > 0 /\ (poll'[1] \notin Quiet => CopyTrue)
    BY <1>1, <1>4, <1>5 DEF CopyInv
  <2>2. poll'[1] \notin Quiet => Drained
    BY <1>1, <1>5, <2>1, CopyIsWhole, TakenIsAsked
  <2> QED
    BY <1>2, <1>3, <2>2 DEF Drained
<1> QED
  BY <1>2, <1>3, <1>4, <1>5, <1>6, <1>7, <1>8, <1>9 DEF RequestSide, Somewhere, Way, Sides

(* It never finds N_OK without a message.                                    *)
LEMMA SmoothNothing ==
  ASSUME Calm, Sides, TakeNothing
  PROVE  FALSE
<1>1. user.at = "rcv_result" /\ user.got.length = 0
  BY DEF TakeNothing, ReceiveResult, Go
<1> QED
  BY <1>1 DEF Sides, AnswerSide, RequestOver, RequestSide, CopyInv, Reading

(* It answers.                                                               *)
LEMMA SmoothAnswer ==
  ASSUME Calm, Sides, AnswerRequest, ~disturbed'
  PROVE  Unfailed' /\ Sides'
<1>1. poll # None /\ poll' = None /\ asked' = asked /\ UNCHANGED testerVars
  BY DEF AnswerRequest
<1>2. PICK a \in Answers[poll[1]] :
        /\ send.status = "TX_IDLE" /\ BeginSend(a) /\ txbuf.length = 0 /\ poll[1] \notin Quiet
  BY DEF AnswerRequest
<1>3. /\ UserStep /\ UNCHANGED <<txbuf, send, rxbuf, rcv>>
      /\ user' = [user EXCEPT !.at = "send_data", !.m = a]
  BY <1>2 DEF BeginSend
<1>4. /\ Flight' = Flight /\ pdu' = pdu /\ Unfailed'
      /\ UNCHANGED <<call, tp, request, response, outcome, inbox, rcvFC, sendFC>>
  BY <1>1, <1>3, UserLeaves
<1>5. user'.at = "send_data"
  <2>1. UserTypes
    BY DEF Calm, ExchangeIInv
  <2> QED
    BY <1>3, <2>1 DEF UserTypes
<1>6. RequestSide /\ Drained /\ rcv.N_result # "N_OK"
  BY <1>1, <1>2 DEF Sides, AnswerSide, RequestOver, RequestSide
<1>7. Between
  BY <1>6 DEF RequestSide, Drained, Judges, Takes, Receiving
<1>8. Rests /\ inbox = <<>> /\ call = "waitSForFF" /\ Flight = <<>>
  BY <1>6, <1>7 DEF Between, Drained
<1>9. RequestOver'
  <2>1. Granted(Len(Flight))'
    BY <1>4, <1>8, EmptySeq DEF Granted
  <2> QED
    BY <1>1, <1>3, <1>4, <1>5, <1>6, <1>8, <2>1 DEF RequestOver, Rests, Reading
<1>10. Prepared'
  BY <1>2, <1>3, <1>4, <1>5, <1>8 DEF Prepared
<1> QED
  BY <1>4, <1>9, <1>10 DEF AnswerSide, Sides

-----------------------------------------------------------------------------
(* The tester.                                                               *)

(* A frame that the tester writes is the last in flight.                     *)
LEMMA FlightGrows ==
  ASSUME ExchangeIInv, ExchangeIInv', NEW f, bus' = Append(bus, f),
         UNCHANGED <<pdu, mailbox>>, NEW n \in Nat, n = Len(Flight)
  PROVE  /\ f \in Frame /\ Flight' \in Seq(Frame) /\ Flight' # <<>>
         /\ Len(Flight') = n + 1 /\ Flight'[n + 1] = f
         /\ \A i \in 1 .. n : Flight'[i] = Flight[i]
<1>1. bus \in Seq(Frame) /\ bus' \in Seq(Frame)
  BY DEF ExchangeIInv, TesterTypeOK
<1>2. f \in Frame
  <2>1. /\ bus \in Seq(Frame \cup {f}) /\ f \in Frame \cup {f}
    BY <1>1
  <2>2. LastOf(bus') = f /\ bus' # <<>>
    BY <2>1, LastAppended
  <2>3. bus'[Len(bus')] \in Frame
    BY <1>1, <2>2, TailOf, ElementOfSeq
  <2> QED
    BY <2>2, <2>3 DEF LastOf
<1>3. Flight' = Append(Flight, f)
  BY <1>2, FlightWritten
<1>4. Flight \in Seq(Frame)
  BY FlightType
<1>5. Append(Flight, f) \in Seq(Frame)
  BY <1>2, <1>4
<1> QED
  BY <1>2, <1>3, <1>4, <1>5, LastAppended

(* While no call is under way, what is left in flight asks for no answer.    *)
LEMMA AskBefore ==
  ASSUME Calm, Sides, call = "none"
  PROVE  /\ RequestSide /\ (Between \/ Takes)
         /\ inbox = <<>> /\ ~rcvFC.is_valid
         /\ ~Mine /\ ~CopyTrue /\ ~Drained /\ (poll # None => poll[1] \in Quiet)
         /\ \A k : ~Writes(k)
         /\ \A i : BeginsAt(i) => /\ Flight[i].type = "SF" /\ Flight[i].lo \in 1 .. CF_DATA
                                  /\ Flight[i].data.msg \in Quiet
<1>1. RequestSide
  BY DEF Sides, AnswerSide, Prepared, SentSingle, SentMultiple, SentFrames
<1>2. ~Announced /\ \A k : ~Writes(k)
  BY DEF Announced, Writes
<1>3. \A i : BeginsAt(i) => /\ Flight[i].type = "SF" /\ Flight[i].lo \in 1 .. CF_DATA
                            /\ Flight[i].data.msg \in Quiet
  BY <1>2 DEF BeginsAt
<1>4. ~Judges
  BY <1>3 DEF Judges
<1>5. inbox = <<>> /\ ~rcvFC.is_valid
  BY <1>1, <1>2, <1>4 DEF RequestSide, Between, Rests, Takes, Wrote
<1>6. ~Mine /\ ~CopyTrue /\ ~Drained
  BY DEF Mine, Drained, CopyTrue
<1> QED
  BY <1>1, <1>2, <1>3, <1>4, <1>5, <1>6 DEF RequestSide

(* A request begins where nothing is left that would be taken for it.        *)
LEMMA SmoothAsk ==
  ASSUME Calm, ExchangeIInv', Sides, Ask
  PROVE  Unfailed' /\ Sides'
<1>1. PICK m \in Script : Transmit(m) /\ asked' = Append(asked, m)
  BY DEF Ask
<1>2. /\ UNCHANGED <<rcv, rcvFC, rxbuf, pdu, mailbox, txbuf, send, sendFC, user, poll>>
      /\ ExchangeIInv /\ TesterTypeOK /\ call = "none"
  <2>1. UNCHANGED <<rcv, rcvFC, rxbuf, pdu, mailbox, txbuf, send, sendFC, user, poll>>
    BY DEF Ask, nodeVars, vars
  <2>2. call = "none"
    BY <1>1 DEF Transmit, TransmitSingle, TransmitFirst
  <2> QED
    BY <2>1, <2>2 DEF Calm, ExchangeIInv
<1>3. m.length \in Nat /\ m.length >= 1
  <2>1. m \in Requests
    BY ScriptAssumption
  <2>2. m.length \in 1 .. 4095
    BY <2>1 DEF Requests
  <2> QED
    BY <2>2, LengthType
<1>4. /\ RequestSide /\ (Between \/ Takes)
      /\ inbox = <<>> /\ ~rcvFC.is_valid /\ CopyInv
      /\ ~Mine /\ ~CopyTrue /\ ~Drained /\ (poll # None => poll[1] \in Quiet)
      /\ \A k : ~Writes(k)
      /\ \A i : BeginsAt(i) => /\ Flight[i].type = "SF" /\ Flight[i].lo \in 1 .. CF_DATA
                               /\ Flight[i].data.msg \in Quiet
  BY <1>2, AskBefore DEF RequestSide
<1>5. PICK f : /\ bus' = Append(bus, f) /\ f.data.msg = m.msg /\ request' = m /\ inbox' = <<>>
               /\ \/ /\ f.type = "SF" /\ f.lo = m.length /\ m.length < CF_DATA
                     /\ IF m.msg \in Quiet
                        THEN call' = "none" /\ outcome' = [ercd |-> TRUE, res |-> None]
                        ELSE call' = "waitSForFF" /\ outcome' = outcome
                  \/ /\ f.type = "FF" /\ FF_DL(f) = m.length /\ m.length >= CF_DATA
                     /\ call' = "schedule_tx" /\ outcome' = outcome
                     /\ tp'.state = "WAIT_FC" /\ tp'.t_size = FF_DATA /\ tp'.SN = 0
  <2>1. CASE TransmitSingle(m)
    <3> DEFINE f == [type |-> "SF", lo |-> m.length, b1 |-> 0, b2 |-> 0,
                     id |-> TxId, data |-> [msg |-> m.msg, pos |-> 0]]
    <3>1. bus' = Append(bus, f) /\ request' = m /\ inbox' = <<>> /\ m.length < CF_DATA
          /\ IF m.msg \in Quiet
             THEN call' = "none" /\ outcome' = [ercd |-> TRUE, res |-> None]
             ELSE call' = "waitSForFF" /\ outcome' = outcome
      BY <1>4, <2>1 DEF TransmitSingle, Write, AwaitAnswer, Return
    <3>2. f.type = "SF" /\ f.lo = m.length /\ f.data.msg = m.msg
      OBVIOUS
    <3> QED
      BY <3>1, <3>2
  <2>2. CASE TransmitFirst(m)
    <3> DEFINE f == [type |-> "FF", lo |-> m.length \div 256, b1 |-> m.length % 256, b2 |-> 0,
                     id |-> TxId, data |-> [msg |-> m.msg, pos |-> 0]]
    <3>1. /\ bus' = Append(bus, f) /\ request' = m /\ inbox' = <<>> /\ m.length >= CF_DATA
          /\ call' = "schedule_tx" /\ outcome' = outcome
          /\ tp' = [tp EXCEPT !.SN = 0, !.t_size = FF_DATA, !.state = "WAIT_FC"]
      BY <1>4, <2>2 DEF TransmitFirst, Write
    <3>2. tp'.state = "WAIT_FC" /\ tp'.t_size = FF_DATA /\ tp'.SN = 0
      BY <1>2, <3>1 DEF TesterTypeOK
    <3>3. f.type = "FF" /\ FF_DL(f) = m.length /\ f.data.msg = m.msg
      BY <1>3, FF_DLOf DEF FF_DL
    <3> QED
      BY <3>1, <3>2, <3>3
  <2> QED
    BY <1>1, <2>1, <2>2 DEF Transmit
<1>6. PICK n \in Nat : n = Len(Flight)
  BY <1>2, FlightType
<1>7. /\ Flight' # <<>> /\ Len(Flight') = n + 1 /\ Flight'[n + 1] = f
      /\ \A i \in 1 .. n : Flight'[i] = Flight[i]
  BY <1>2, <1>5, <1>6, FlightGrows
<1>8. \A i \in 1 .. n : BeginsAt(i) => BeginsAt(i)'
  BY <1>4, <1>7 DEF BeginsAt
<1>9. BeginsAt(n + 1)'
  <2>1. f.type = "FF" => Announced'
    BY <1>5 DEF Announced
  <2>2. f.type = "SF" => f.lo \in 1 .. CF_DATA
    BY <1>3, <1>5, Sizes
  <2>3. f.data.msg \notin Quiet => (f.type = "SF" => call' = "waitSForFF" /\ f.lo = request'.length)
    BY <1>5
  <2> QED
    BY <1>5, <1>7, <2>1, <2>2, <2>3 DEF BeginsAt
<1>10. \A k \in 0 .. n : /\ Granted(k) => Granted(k)'
                         /\ BeginsAfter(k) => BeginsAfter(k)'
                         /\ Announces(k)'
                         /\ InFlight(k) => InFlight(k)'
  <2> TAKE k \in 0 .. n
  <2>1. Granted(k) => Granted(k)'
    BY <1>7 DEF Granted, Grants
  <2>2. BeginsAfter(k) => BeginsAfter(k)'
    <3> SUFFICES ASSUME BeginsAfter(k), NEW i \in k + 1 .. n + 1 PROVE BeginsAt(i)'
      BY <1>7 DEF BeginsAfter
    <3>1. CASE i = n + 1
      BY <1>9, <3>1
    <3>2. CASE i # n + 1
      <4>1. i \in k + 1 .. n /\ i \in 1 .. n
        BY <3>2
      <4> QED
        BY <1>6, <1>8, <4>1 DEF BeginsAfter
    <3> QED
      BY <3>1, <3>2
  <2>3. Announces(k)'
    <3>1. call' = "schedule_tx" => f.type = "FF"
      BY <1>5
    <3>2. k < n + 1
      OBVIOUS
    <3> QED
      BY <1>7, <3>1, <3>2 DEF Announces
  <2>4. InFlight(k) => InFlight(k)'
    <3> SUFFICES ASSUME InFlight(k), NEW i \in 1 .. k
                 PROVE  Flight'[i].type = "CF" /\ Flight'[i].lo = NumberAfter(i - 1)'
      BY DEF InFlight
    <3>1. i \in 1 .. n /\ (i - 1 = 0 \/ i - 1 \in 1 .. n)
      OBVIOUS
    <3>2. NumberAfter(i - 1)' = NumberAfter(i - 1)
      BY <1>2, <1>7, <3>1 DEF NumberAfter
    <3> QED
      BY <1>7, <3>1, <3>2 DEF InFlight
  <2> QED
    BY <2>1, <2>2, <2>3, <2>4
<1>11. Between => Between'
  <2> SUFFICES ASSUME Between PROVE Between'
    OBVIOUS
  <2>1. PICK k \in 0 .. n : Granted(k) /\ BeginsAfter(k) /\ Announces(k)
    BY <1>6 DEF Between
  <2>2. k \in 0 .. Len(Flight') /\ Granted(k)' /\ BeginsAfter(k)' /\ Announces(k)'
    BY <1>7, <1>10, <2>1
  <2>3. Rests'
    BY <1>2 DEF Between, Rests
  <2> QED
    BY <1>5, <2>2, <2>3 DEF Between
<1>12. Takes => Takes'
  <2> SUFFICES ASSUME Takes PROVE Takes'
    OBVIOUS
  <2>1. PICK k \in 0 .. n : InFlight(k) /\ Wrote(k)
    BY <1>4, <1>6 DEF Takes, InFlight
  <2>2. k \in 0 .. Len(Flight') /\ InFlight(k)' /\ Wrote(k)'
    BY <1>2, <1>5, <1>7, <1>10, <2>1 DEF Wrote
  <2>3. Receiving' /\ EndsWithin'
    BY <1>2 DEF Takes, Receiving, EndsWithin
  <2> QED
    BY <1>2, <2>2, <2>3 DEF Takes, InFlight
<1>13. CopyInv'
  <2>1. (Reading <=> Reading') /\ (Fresh <=> Fresh')
    BY <1>2 DEF Reading, Fresh, Receiving
  <2> QED
    BY <1>2, <1>4, <2>1 DEF CopyInv
<1>14. call' = "waitSForFF" => Somewhere'
  <2>1. call' = "waitSForFF" => f.type = "SF"
    BY <1>5
  <2> QED
    BY <1>7, <2>1 DEF Somewhere, Grants
<1>15. RequestSide'
  <2>1. SenderQuiet' /\ call' # "receive"
    BY <1>2, <1>4, <1>5 DEF RequestSide, SenderQuiet
  <2> QED
    BY <1>2, <1>4, <1>11, <1>12, <1>13, <1>14, <2>1 DEF RequestSide
<1>16. Unfailed'
  <2>1. asked' # <<>> /\ LastOf(asked') = m
    BY <1>1, LastAppended DEF Calm, HistoryTypes
  <2>2. outcome'.ercd \/ outcome'.res # None
    BY <1>5 DEF Calm, Unfailed
  <2>3. call' \in {"waitSForFF", "receive"} => request'.msg \notin Quiet
    BY <1>5
  <2> QED
    BY <1>2, <1>5, <2>1, <2>2, <2>3 DEF Calm, Unfailed
<1> QED
  BY <1>15, <1>16 DEF Sides

(* Numbers of a range from 0 or from 1 are natural numbers.                  *)
LEMMA RangeNat ==
  ASSUME NEW N \in Nat
  PROVE  \A b : /\ b \in 0 .. N => b \in Nat
               /\ b \in 1 .. N => b \in Nat /\ b > 0
OBVIOUS

(* What is left of the request and what the node lacks shrink alike.         *)
LEMMA LeftAlike ==
  ASSUME NEW a \in Nat, NEW t \in Nat, NEW l \in Nat, NEW n \in Nat,
         a - t = l - CF_DATA * n, ~(a - t <= CF_DATA)
  PROVE  a - (t + CF_DATA) = l - CF_DATA * (n + 1) /\ l > CF_DATA * (n + 1)
BY Sizes

(* The tester leaves the node alone.                                         *)
LEMMA ProceedsLeaves ==
  ASSUME TesterProceeds \/ TesterTimesOut
  PROVE  UNCHANGED <<rcv, rcvFC, rxbuf, pdu, mailbox, txbuf, send, sendFC, user, poll, asked>>
BY DEF TesterProceeds, TesterTimesOut, nodeVars, vars

(* Only in these places does the tester have something to do with a request. *)
LEMMA WaysOfWriting ==
  ASSUME Calm, RequestSide, call = "schedule_tx"
  PROVE  \/ Announced
         \/ /\ Takes
            /\ \E k \in 0 .. Len(Flight) : InFlight(k) /\ Writes(k)
<1>1. Len(Flight) \in Nat
  BY FlightType DEF Calm
<1>2. ASSUME NEW k \in 0 .. Len(Flight), BeginsAfter(k), Announces(k) PROVE Announced
  <2>1. k < Len(Flight) /\ Flight[Len(Flight)].type = "FF"
    BY <1>2 DEF Announces
  <2>2. Len(Flight) \in k + 1 .. Len(Flight)
    BY <1>1, <2>1
  <2>3. BeginsAt(Len(Flight))
    BY <1>2, <2>2 DEF BeginsAfter
  <2> QED
    BY <2>1, <2>3 DEF BeginsAt
<1>3. Between => Announced
  BY <1>2 DEF Between
<1>4. Judges => Announced
  BY DEF Judges, BeginsAt
<1>5. ASSUME Takes, ~Announced PROVE \E k \in 0 .. Len(Flight) : InFlight(k) /\ Writes(k)
  <2>1. PICK k \in 0 .. Len(Flight) : InFlight(k) /\ (Writes(k) \/ Wrote(k))
    BY <1>5 DEF Takes, InFlight
  <2>2. ~Wrote(k)
    BY <1>2, <1>5, <2>1 DEF Wrote
  <2> QED
    BY <2>1, <2>2
<1> QED
  BY <1>3, <1>4, <1>5 DEF RequestSide

(* A consecutive frame more in flight, the last one of a block or a message. *)
LEMMA SmoothSendCF ==
  ASSUME Calm, ExchangeIInv', Sides, TesterProceeds, SendCF
  PROVE  Unfailed' /\ Sides'
<1>1. UNCHANGED <<rcv, rcvFC, rxbuf, pdu, mailbox, txbuf, send, sendFC, user, poll, asked>>
  BY ProceedsLeaves
<1>2. /\ call = "schedule_tx" /\ tp.state = "SEND_CF" /\ request' = request /\ inbox' = inbox
      /\ ExchangeIInv /\ Unfailed
  BY DEF SendCF, Calm
<1>3. RequestSide
  BY <1>2 DEF Sides, AnswerSide, Prepared, SentSingle, SentMultiple, SentFrames
<1>4. Takes /\ CopyInv /\ \E k \in 0 .. Len(Flight) : InFlight(k) /\ Writes(k)
  BY <1>2, <1>3, WaysOfWriting DEF Announced, RequestSide
<1>5. PICK n \in Nat : n = Len(Flight)
  BY <1>2, FlightType
<1>6. /\ InFlight(n) /\ rxbuf.segs[1].data.msg = request.msg
      /\ request.length - tp.t_size = rcv.length - CF_DATA * n
      /\ rcv.length > CF_DATA * n /\ NextSN(tp.SN) = NumberAfter(n)
      /\ ~rcvFC.is_valid /\ inbox = <<>>
      /\ tp.BS = rcvFC.BS - n /\ tp.BS > 0
  BY <1>2, <1>4, <1>5 DEF Writes
<1>7. PICK f : /\ f.type = "CF" /\ f.lo = NextSN(tp.SN) /\ bus' = Append(bus, f)
  <2> DEFINE f == [type |-> "CF", lo |-> NextSN(tp.SN), b1 |-> 0, b2 |-> 0, id |-> TxId,
                   data |-> [msg |-> request.msg, pos |-> tp.t_size]]
  <2>1. bus' = Append(bus, f)
    BY DEF SendCF, Write
  <2>2. f.type = "CF" /\ f.lo = NextSN(tp.SN)
    OBVIOUS
  <2> QED
    BY <2>1, <2>2
<1>8. /\ Len(Flight') = n + 1 /\ Flight'[n + 1] = f
      /\ \A i \in 1 .. n : Flight'[i] = Flight[i]
  BY <1>1, <1>2, <1>5, <1>7, FlightGrows
<1>9. rcv.length \in Nat /\ rcvFC.BS \in Nat /\ tp.BS \in Nat /\ tp.t_size \in Nat
      /\ request.length \in Nat
  <2>1. RcvTypeOK /\ TesterTypeOK
    BY <1>2 DEF ExchangeIInv
  <2>2. rcv.length \in 0 .. N_DATA_MAX /\ rcvFC.BS \in 0 .. 255
    BY <2>1 DEF RcvTypeOK, RxRuntime, FCParam
  <2>3. tp.BS \in 0 .. 255 /\ tp.t_size \in 0 .. 4095
    BY <2>1 DEF TesterTypeOK
  <2>4. N_DATA_MAX \in Nat
    BY BufferAssumption
  <2>5. rcv.length \in Nat
    BY <2>2, <2>4, RangeNat
  <2>6. rcvFC.BS \in Nat /\ tp.BS \in Nat
    <3>1. \A b : b \in 0 .. 255 => b \in Nat
      OBVIOUS
    <3> QED
      BY <2>2, <2>3, <3>1
  <2>7. tp.t_size \in Nat
    <3>1. \A b : b \in 0 .. 4095 => b \in Nat
      OBVIOUS
    <3> QED
      BY <2>3, <3>1
  <2>8. request.length \in Nat
    BY <1>2, RequestType
  <2> QED
    BY <2>5, <2>6, <2>7, <2>8
<1>10. /\ NumberAfter(n + 1)' = NextSN(f.lo)
       /\ \A i \in 0 .. n : NumberAfter(i)' = NumberAfter(i)
  <2>1. \A i \in 0 .. n : i = 0 \/ i \in 1 .. n
    OBVIOUS
  <2>2. n + 1 # 0
    OBVIOUS
  <2> QED
    BY <1>1, <1>8, <2>1, <2>2 DEF NumberAfter
<1>11. InFlight(n + 1)'
  <2> SUFFICES ASSUME NEW i \in 1 .. n + 1
               PROVE  Flight'[i].type = "CF" /\ Flight'[i].lo = NumberAfter(i - 1)'
    BY DEF InFlight
  <2>1. i - 1 \in 0 .. n /\ NumberAfter(i - 1)' = NumberAfter(i - 1)
    BY <1>10
  <2>2. CASE i = n + 1
    <3>1. i - 1 = n
      BY <2>2
    <3> QED
      BY <1>6, <1>7, <1>8, <2>1, <2>2, <3>1
  <2>3. CASE i # n + 1
    <3>1. i \in 1 .. n
      BY <2>3
    <3> QED
      BY <1>6, <1>8, <2>1, <3>1 DEF InFlight
  <2> QED
    BY <2>2, <2>3
<1>12. Receiving /\ Receiving' /\ EndsWithin' /\ (Reading <=> Reading') /\ SenderQuiet'
  BY <1>1, <1>3, <1>4 DEF Takes, Receiving, EndsWithin, Reading, RequestSide, SenderQuiet
<1>13. ~Drained /\ ~Drained' /\ (poll # None => poll[1] \in Quiet) /\ Fresh /\ Fresh'
  BY <1>2, <1>3, <1>12 DEF Drained, RequestSide, Receiving, Fresh
<1>14. Mine /\ call' # "none" => Mine'
  <2>1. Mine => \A i \in 1 .. Len(Flight') : Flight'[i].type = "CF"
    BY <1>8, <1>11 DEF InFlight
  <2> QED
    BY <1>1, <1>2, <1>12, <1>13, <2>1 DEF Mine
<1>15. CASE request.length - tp.t_size <= CF_DATA
  <2>1. /\ tp'.state = "IDLE"
        /\ IF request.msg \in Quiet
           THEN call' = "none" /\ outcome' = [ercd |-> TRUE, res |-> None]
           ELSE call' = "waitSForFF" /\ outcome' = outcome
    <3>1. tp' = [tp EXCEPT !.SN = NextSN(tp.SN), !.t_size = request.length, !.state = "IDLE"]
          /\ AwaitAnswer(request)
      BY <1>15 DEF SendCF
    <3>2. TesterTypeOK
      BY <1>2 DEF ExchangeIInv
    <3>3. tp'.state = "IDLE"
      BY <3>1, <3>2 DEF TesterTypeOK
    <3> QED
      BY <3>1, <3>3 DEF AwaitAnswer, Return
  <2>2. Wrote(n + 1)'
    <3>1. /\ 1 <= n + 1 /\ n + 1 <= rcvFC.BS
          /\ rcv.length <= CF_DATA * (n + 1) /\ CF_DATA * ((n + 1) - 1) < rcv.length
      BY <1>6, <1>9, <1>15, Sizes
    <3>2. BeginsAfter(n + 1)' /\ Announces(n + 1)'
      BY <1>8, <2>1 DEF BeginsAfter, Announces
    <3> QED
      BY <1>1, <1>2, <1>6, <3>1, <3>2 DEF Wrote
  <2>3. Takes'
    <3>1. n + 1 \in 0 .. Len(Flight')
      BY <1>8
    <3> QED
      BY <1>1, <1>4, <1>11, <1>12, <2>2, <3>1 DEF Takes, InFlight
  <2>4. CopyInv'
    <3>1. CASE request.msg \notin Quiet
      <4>1. (Mine => Mine') /\ (CopyTrue => CopyTrue')
        BY <1>1, <1>2, <1>14, <2>1, <3>1 DEF CopyTrue
      <4> QED
        BY <1>1, <1>4, <1>12, <1>13, <4>1 DEF CopyInv
    <3>2. CASE request.msg \in Quiet
      <4>1. rxbuf.segs[1].data.msg \in Quiet
        BY <1>6, <3>2
      <4>2. user.n > 0 /\ CopyTrue => user.got.segs[1].data.msg \in Quiet
        <5>1. user.n \in Nat
          BY <1>2 DEF ExchangeIInv, UserTypes
        <5>2. user.n > 0 => 1 \in 1 .. user.n
          BY <5>1
        <5> QED
          BY <4>1, <5>2 DEF CopyTrue
      <4> QED
        BY <1>1, <1>4, <1>12, <1>13, <4>1, <4>2 DEF CopyInv
    <3> QED
      BY <3>1, <3>2
  <2>5. Unfailed'
    BY <1>1, <1>2, <2>1 DEF Unfailed
  <2>6. call' # "receive"
    BY <2>1
  <2> QED
    BY <1>1, <1>12, <1>13, <2>3, <2>4, <2>5, <2>6 DEF RequestSide, Somewhere, Sides
<1>16. CASE ~(request.length - tp.t_size <= CF_DATA)
  <2>1. /\ tp'.SN = NextSN(tp.SN) /\ tp'.t_size = tp.t_size + CF_DATA
        /\ tp'.BS = tp.BS - 1 /\ tp'.state = IF tp.BS = 1 THEN "WAIT_FC" ELSE "SEND_CF"
        /\ call' = call /\ outcome' = outcome
    <3>1. tp' = [tp EXCEPT !.SN = NextSN(tp.SN), !.t_size = @ + CF_DATA, !.BS = NextBS,
                           !.state = NextBlockState("SEND_CF", "WAIT_FC")]
          /\ call' = call /\ outcome' = outcome
      BY <1>16 DEF SendCF
    <3>2. TesterTypeOK
      BY <1>2 DEF ExchangeIInv
    <3> QED
      BY <1>6, <3>1, <3>2 DEF TesterTypeOK, NextBS, NextBlockState
  <2>2. Writes(n + 1)'
    <3>1. n + 1 = Len(Flight') /\ call' = "schedule_tx" /\ rxbuf'.segs[1].data.msg = request'.msg
      BY <1>1, <1>2, <1>6, <1>8, <2>1
    <3>2. /\ request.length - (tp.t_size + CF_DATA) = rcv.length - CF_DATA * (n + 1)
          /\ rcv.length > CF_DATA * (n + 1)
      BY <1>5, <1>6, <1>9, <1>16, LeftAlike
    <3>3. NextSN(tp'.SN) = NumberAfter(n + 1)'
      BY <1>7, <1>10, <2>1
    <3>4. CASE tp.BS = 1
      <4>1. n + 1 = rcvFC.BS
        BY <1>6, <1>9, <3>4
      <4> QED
        BY <1>1, <1>2, <1>6, <2>1, <3>1, <3>2, <3>3, <3>4, <4>1 DEF Writes
    <3>5. CASE tp.BS # 1
      <4>1. tp.BS - 1 = rcvFC.BS - (n + 1) /\ tp.BS - 1 > 0
        BY <1>6, <1>9, <3>5
      <4> QED
        BY <1>1, <1>2, <1>6, <2>1, <3>1, <3>2, <3>3, <3>5, <4>1 DEF Writes
    <3> QED
      BY <3>4, <3>5
  <2>3. Takes'
    <3>1. n + 1 \in 0 .. Len(Flight')
      BY <1>8
    <3> QED
      BY <1>1, <1>4, <1>11, <1>12, <2>2, <3>1 DEF Takes, InFlight
  <2>4. CopyInv'
    <3>1. (Mine => Mine') /\ (CopyTrue => CopyTrue')
      BY <1>1, <1>2, <1>14, <2>1 DEF CopyTrue
    <3> QED
      BY <1>1, <1>4, <1>12, <1>13, <3>1 DEF CopyInv
  <2>5. Unfailed'
    BY <1>1, <1>2, <2>1 DEF Unfailed
  <2> QED
    BY <1>1, <1>2, <1>12, <1>13, <2>1, <2>3, <2>4, <2>5 DEF RequestSide, Sides
<1> QED
  BY <1>15, <1>16

(* The tester is granted a block.                                            *)
LEMMA SmoothHandleFC ==
  ASSUME Calm, Sides, TesterProceeds, inbox # <<>>, HandleFC(Head(inbox))
  PROVE  Unfailed' /\ Sides'
<1>1. UNCHANGED <<rcv, rcvFC, rxbuf, pdu, mailbox, txbuf, send, sendFC, user, poll, asked>>
  BY ProceedsLeaves
<1>2. /\ call = "schedule_tx" /\ tp.state = "WAIT_FC" /\ inbox' = Tail(inbox)
      /\ UNCHANGED <<request, response, bus>>
      /\ ExchangeIInv /\ Unfailed /\ TesterTypeOK /\ inbox \in Seq(Frame)
  BY DEF HandleFC, Taken, Calm, ExchangeIInv, TesterTypeOK
<1>3. RequestSide
  BY <1>2 DEF Sides, AnswerSide, Prepared, SentSingle, SentMultiple, SentFrames
<1>4. Takes /\ CopyInv /\ \E k \in 0 .. Len(Flight) : InFlight(k) /\ Writes(k)
  BY <1>2, <1>3, WaysOfWriting DEF Announced, RequestSide
<1>5. Head(inbox) = inbox[1]
  BY <1>2, TailOf
<1>6. /\ InFlight(0) /\ Writes(0) /\ ~rcvFC.is_valid /\ Len(inbox) = 1
      /\ Grants(inbox[1]) /\ inbox[1].b1 = rcvFC.BS
  BY <1>2, <1>4 DEF Writes
<1>7. inbox' = <<>>
  BY <1>2, <1>6, EmptySeq, TailOf
<1>8. tp' = [tp EXCEPT !.BS = rcvFC.BS, !.state = "SEND_CF"] /\ UNCHANGED <<call, outcome>>
  BY <1>5, <1>6 DEF HandleFC, Grants
<1>9. tp'.BS = rcvFC.BS /\ tp'.state = "SEND_CF" /\ tp'.SN = tp.SN /\ tp'.t_size = tp.t_size
  BY <1>2, <1>8 DEF TesterTypeOK
<1>10. Flight' = Flight
  BY <1>1, <1>2 DEF Flight, Unseen
<1>11. rcvFC.BS \in Nat /\ rcvFC.BS > 0
  <2>1. rcvFC.BS \in 1 .. FC_BS
    BY <1>4 DEF Takes
  <2>2. FC_BS \in Nat
    BY BlockAssumption
  <2> QED
    BY <2>1, <2>2, RangeNat
<1>12. Writes(0)'
  <2>1. rcvFC.BS = rcvFC.BS - 0
    BY <1>11
  <2>2. NumberAfter(0)' = NumberAfter(0)
    BY <1>1 DEF NumberAfter
  <2> QED
    BY <1>1, <1>2, <1>6, <1>7, <1>8, <1>9, <1>10, <1>11, <2>1, <2>2 DEF Writes
<1>13. Takes'
  <2>1. 0 \in 0 .. Len(Flight') /\ 1 .. 0 = {}
    BY <1>2, <1>10, FlightType
  <2>2. Receiving' /\ EndsWithin'
    BY <1>1, <1>4 DEF Takes, Receiving, EndsWithin
  <2> QED
    BY <1>1, <1>4, <1>12, <2>1, <2>2 DEF Takes
<1>14. CopyInv'
  BY <1>1, <1>2, <1>4, <1>8, <1>10, CopyKept
<1>15. SenderQuiet' /\ (Drained => Drained')
  BY <1>1, <1>2, <1>3, <1>8, <1>10 DEF RequestSide, SenderQuiet, Drained
<1>16. RequestSide'
  BY <1>1, <1>2, <1>3, <1>8, <1>13, <1>14, <1>15 DEF RequestSide
<1>17. Unfailed'
  BY <1>1, <1>2, <1>8 DEF Unfailed
<1> QED
  BY <1>16, <1>17 DEF Sides

(* While the tester receives, or a frame waits for it that it waits for, the *)
(* answer is on its way.                                                     *)
LEMMA AnswerComes ==
  ASSUME Sides, call = "receive" \/ (call = "waitSForFF" /\ inbox # <<>>)
  PROVE  AnswerSide /\ (SentSingle \/ SentMultiple)
<1>1. ~RequestSide
  <2> SUFFICES ASSUME RequestSide PROVE FALSE
    OBVIOUS
  <2>1. call = "waitSForFF" /\ inbox # <<>>
    BY DEF RequestSide
  <2>2. CASE Between
    BY <2>1, <2>2 DEF Between
  <2>3. CASE Judges
    BY <2>1, <2>3 DEF Judges, BeginsAt, Announced
  <2>4. CASE Takes
    BY <2>1, <2>4 DEF Takes, Writes, Wrote
  <2> QED
    BY <2>2, <2>3, <2>4 DEF RequestSide
<1> QED
  BY <1>1 DEF Sides, AnswerSide, Prepared

(* The tester returns when nothing of the answer is left.                    *)
LEMMA AnswerEnds ==
  ASSUME Calm, RequestOver', Flight' = Flight, SenderQuiet', inbox' = <<>>, call' = "none"
  PROVE  RequestSide'
<1>1. PICK n \in Nat : n = Len(Flight)
  BY FlightType DEF Calm
<1>2. Rests' /\ Granted(Len(Flight))' /\ rcv'.N_result # "N_OK" /\ poll' = None /\ ~Reading'
  BY DEF RequestOver
<1>3. Granted(n)'
  BY <1>1, <1>2 DEF Granted
<1>4. BeginsAfter(n)' /\ Announces(n)'
  <2>1. n + 1 .. n = {}
    BY <1>1
  <2> QED
    BY <1>1, <2>1 DEF BeginsAfter, Announces
<1>5. n \in 0 .. n
  BY <1>1
<1>6. Between'
  BY <1>1, <1>2, <1>3, <1>4, <1>5 DEF Between
<1>7. ~Receiving'
  BY <1>2 DEF Rests, Receiving
<1>8. CopyInv'
  BY <1>2, <1>7 DEF CopyInv, Fresh, Reading
<1> QED
  BY <1>2, <1>6, <1>8 DEF RequestSide, Drained

(* The tester takes a frame of the answer, and more are to come.             *)
LEMMA SentShifted ==
  ASSUME ExchangeIInv, SentMultiple, inbox # <<>>, inbox' = Tail(inbox),
         UNCHANGED <<send, txbuf, user>>,
         call' = "receive", tp'.state \in {"SEND_FC", "WAIT_CF"},
         response' # <<>>, response'[1].type = "FF",
         NextSN(tp'.SN) = ExpectedAfter(1), Lacks(1) > 0,
         \A j \in Nat : Lacks(j)' = Lacks(j + 1)
  PROVE  SentMultiple'
<1>1. inbox \in Seq(Frame)
  <2>1. TesterTypeOK
    BY Zenon DEF ExchangeIInv
  <2> QED
    BY <2>1, SMTT(30) DEF TesterTypeOK
<1>2. PICK n \in Nat : n + 1 = Len(inbox) /\ n = Len(inbox')
                       /\ \A i \in 1 .. n : inbox'[i] = inbox[i + 1]
  <2>1. /\ Len(inbox) \in Nat /\ Len(inbox) >= 1 /\ Len(inbox') = Len(inbox) - 1
        /\ \A i \in 1 .. Len(inbox) - 1 : inbox'[i] = inbox[i + 1]
    BY <1>1, TailOf, Zenon
  <2>2. PICK m \in Nat : m = Len(inbox)
    BY <2>1
  <2>3. m - 1 \in Nat /\ (m - 1) + 1 = m
    BY <2>1, <2>2
  <2> QED
    BY <2>1, <2>2, <2>3, Zenon
<1>3. \A i \in 0 .. n : ExpectedAfter(i)' = ExpectedAfter(i + 1)
  <2> SUFFICES ASSUME NEW i \in 0 .. n PROVE ExpectedAfter(i)' = ExpectedAfter(i + 1)
    OBVIOUS
  <2>1. CASE i = 0
    <3>1. i + 1 = 1
      BY <2>1
    <3>2. ExpectedAfter(i)' = NextSN(tp'.SN)
      BY <2>1 DEF ExpectedAfter
    <3> QED
      BY <3>1, <3>2
  <2>2. CASE i # 0
    <3>1. i \in 1 .. n /\ i + 1 # 0
      BY <2>2
    <3>2. inbox'[i] = inbox[i + 1]
      BY <1>2, <3>1
    <3> QED
      BY <2>2, <3>1, <3>2 DEF ExpectedAfter
  <2> QED
    BY <2>1, <2>2
<1>4. \A i \in 1 .. n : inbox'[i].type = "CF" /\ inbox'[i].lo = ExpectedAfter(i - 1)'
                        /\ Lacks(i - 1)' > 0
  <2> SUFFICES ASSUME NEW i \in 1 .. n
               PROVE  inbox'[i].type = "CF" /\ inbox'[i].lo = ExpectedAfter(i - 1)'
                      /\ Lacks(i - 1)' > 0
    OBVIOUS
  <2>1. /\ i + 1 \in 1 .. Len(inbox) /\ i + 1 # 1 /\ (i + 1) - 1 = i
        /\ i - 1 \in 0 .. n /\ i - 1 \in Nat /\ (i - 1) + 1 = i
    <3>1. /\ i + 1 \in 1 .. n + 1 /\ i + 1 # 1 /\ (i + 1) - 1 = i
          /\ i - 1 \in 0 .. n /\ i - 1 \in Nat /\ (i - 1) + 1 = i
      OBVIOUS
    <3> QED
      BY <1>2, <3>1
  <2>2. inbox[i + 1].type = "CF" /\ inbox[i + 1].lo = ExpectedAfter(i) /\ Lacks(i) > 0
    BY <2>1 DEF SentMultiple, SentFrames
  <2>3. ExpectedAfter(i - 1)' = ExpectedAfter(i)
    BY <1>3, <2>1
  <2>4. Lacks(i - 1)' = Lacks(i)
    BY <2>1
  <2> QED
    BY <1>2, <2>2, <2>3, <2>4
<1>5. Lacks(0)' > 0
  <2>1. 0 \in Nat /\ 0 + 1 = 1
    OBVIOUS
  <2>2. Lacks(0)' = Lacks(1)
    BY <2>1
  <2> QED
    BY <2>2
<1>6. SentFrames'
  BY <1>2, <1>4, <1>5 DEF SentFrames
<1>7. Lacks(n)' = Lacks(Len(inbox)) /\ ExpectedAfter(n)' = ExpectedAfter(Len(inbox))
  <2>1. n \in 0 .. n
    BY <1>2
  <2> QED
    BY <1>2, <1>3, <2>1
<1>8. /\ Lacks(Len(inbox))' = Lacks(Len(inbox))
      /\ ExpectedAfter(Len(inbox))' = ExpectedAfter(Len(inbox))
  <2>1. Lacks(Len(inbox))' = Lacks(n)' /\ ExpectedAfter(Len(inbox))' = ExpectedAfter(n)'
    BY <1>2 DEF Lacks, ExpectedAfter
  <2> QED
    BY <1>7, <2>1
<1>9. CASE SenderQuiet /\ Lacks(Len(inbox)) <= 0
  BY <1>6, <1>8, <1>9 DEF SentMultiple, SenderQuiet
<1>10. CASE /\ Sending /\ user.at \notin {"send_data", "send_length"}
            /\ send.length = Lacks(Len(inbox)) /\ send.length > 0
            /\ send.CF_SN = ExpectedAfter(Len(inbox))
  BY <1>6, <1>8, <1>10 DEF SentMultiple, Sending
<1> QED
  BY <1>9, <1>10 DEF SentMultiple

LEMMA OverProceeds ==
  ASSUME AnswerSide, TesterProceeds, bus' = bus
  PROVE  RequestOver' /\ Flight' = Flight /\ UNCHANGED <<send, txbuf, user, asked, sendFC>>
         /\ (SenderQuiet => SenderQuiet')
<1>1. UNCHANGED <<rcv, rcvFC, rxbuf, pdu, mailbox, txbuf, send, sendFC, user, poll, asked>>
  BY ProceedsLeaves
<1>2. Flight' = Flight
  BY <1>1 DEF Flight, Unseen
<1> QED
  BY <1>1, <1>2, OverKept DEF AnswerSide, SenderQuiet

(* The tester grants a block.                                                *)
LEMMA SmoothSendFC ==
  ASSUME Calm, ExchangeIInv', Sides, TesterProceeds, SendFC
  PROVE  Unfailed' /\ Sides'
<1>1. UNCHANGED <<rcv, rcvFC, rxbuf, pdu, mailbox, txbuf, send, sendFC, user, poll, asked>>
  BY ProceedsLeaves
<1>2. /\ call = "receive" /\ UNCHANGED <<call, request, response, outcome, inbox>>
      /\ tp' = [tp EXCEPT !.BS = cBS, !.state = "WAIT_CF"]
      /\ ExchangeIInv /\ Unfailed /\ TesterTypeOK
  BY DEF SendFC, Calm, ExchangeIInv
<1>3. AnswerSide /\ SentMultiple
  BY <1>2, AnswerComes DEF SentSingle
<1>4. tp'.state = "WAIT_CF" /\ tp'.SN = tp.SN /\ tp'.t_size = tp.t_size
  BY <1>2 DEF TesterTypeOK
<1>5. PICK f : f.type = "FC" /\ f.lo = CTS /\ bus' = Append(bus, f)
  <2> DEFINE f == [type |-> "FC", lo |-> CTS, b1 |-> cBS, b2 |-> cSTmin, id |-> TxId,
                   data |-> NoPayload]
  <2>1. bus' = Append(bus, f)
    BY DEF SendFC, Write
  <2>2. f.type = "FC" /\ f.lo = CTS
    OBVIOUS
  <2> QED
    BY <2>1, <2>2
<1>6. PICK n \in Nat : n = Len(Flight)
  BY <1>2, FlightType
<1>7. /\ Len(Flight') = n + 1 /\ Flight'[n + 1] = f
      /\ \A i \in 1 .. n : Flight'[i] = Flight[i]
  BY <1>1, <1>2, <1>5, <1>6, FlightGrows
<1>8. Granted(Len(Flight))'
  <2>1. \A i \in 1 .. n : Grants(Flight[i])
    BY <1>3, <1>6 DEF AnswerSide, RequestOver, Granted
  <2>2. Grants(f)
    BY <1>5 DEF Grants
  <2>3. \A i \in 1 .. n + 1 : i \in 1 .. n \/ i = n + 1
    OBVIOUS
  <2>4. \A i \in 1 .. n + 1 : Grants(Flight'[i])
    BY <1>7, <2>1, <2>2, <2>3
  <2> QED
    BY <1>7, <2>4 DEF Granted
<1>9. RequestOver'
  BY <1>1, <1>3, <1>8 DEF AnswerSide, RequestOver, Rests, Reading
<1>10. \A k : Lacks(k)' = Lacks(k) /\ ExpectedAfter(k)' = ExpectedAfter(k)
  BY <1>2, <1>4 DEF Lacks, ExpectedAfter, ResponseSize
<1>11. SentFrames'
  BY <1>2, <1>3, <1>4, <1>10 DEF SentMultiple, SentFrames
<1>12. /\ Lacks(Len(inbox))' = Lacks(Len(inbox))
       /\ ExpectedAfter(Len(inbox))' = ExpectedAfter(Len(inbox))
  BY <1>2, <1>4 DEF Lacks, ExpectedAfter, ResponseSize
<1>13. SentMultiple'
  BY <1>1, <1>3, <1>11, <1>12 DEF SentMultiple, Sending, SenderQuiet
<1>14. Unfailed'
  BY <1>1, <1>2 DEF Unfailed
<1> QED
  BY <1>9, <1>13, <1>14 DEF Sides, AnswerSide

(* The tester gets the answer.                                               *)
LEMMA SmoothReturns ==
  ASSUME Calm, AnswerSide, TesterProceeds, UNCHANGED <<bus, request>>,
         SenderQuiet, inbox' = <<>>, Conclude(response'), response' # <<>>
  PROVE  Unfailed' /\ Sides'
<1>1. call' = "none" /\ outcome'.res # None
  BY DEF Conclude, Return, None
<1>2. RequestOver' /\ Flight' = Flight /\ SenderQuiet' /\ asked' = asked /\ sendFC' = sendFC
  BY OverProceeds
<1>3. RequestSide'
  BY <1>1, <1>2, AnswerEnds
<1>4. Unfailed'
  BY <1>1, <1>2 DEF Unfailed, Calm
<1> QED
  BY <1>3, <1>4 DEF Sides

(* It takes an answer of one frame,                                          *)
LEMMA SmoothSingleFrame ==
  ASSUME Calm, Sides, TesterProceeds, inbox # <<>>, WaitSingleFrame(Head(inbox))
  PROVE  Unfailed' /\ Sides'
<1>1. /\ call = "waitSForFF" /\ inbox' = Tail(inbox) /\ Head(inbox).type = "SF"
      /\ response' = <<Part(Head(inbox))>> /\ Conclude(response')
      /\ UNCHANGED <<bus, request>> /\ inbox \in Seq(Frame)
  BY DEF WaitSingleFrame, Taken, Calm, ExchangeIInv, TesterTypeOK
<1>2. Head(inbox) = inbox[1]
  BY <1>1, TailOf
<1>3. AnswerSide /\ SentSingle
  BY <1>1, <1>2, AnswerComes DEF SentMultiple, SentFrames
<1>4. inbox' = <<>>
  BY <1>1, <1>3, TailOf, EmptySeq DEF SentSingle
<1>5. response' # <<>>
  BY <1>1, Singleton
<1> QED
  BY <1>1, <1>3, <1>4, <1>5, SmoothReturns DEF SentSingle

(* or the first frame of a longer one,                                       *)
LEMMA SmoothFirstFrame ==
  ASSUME Calm, Sides, TesterProceeds, inbox # <<>>, WaitFirstFrame(Head(inbox))
  PROVE  Unfailed' /\ Sides'
<1>1. /\ call = "waitSForFF" /\ inbox' = Tail(inbox) /\ Head(inbox).type = "FF"
      /\ response' = <<Part(Head(inbox))>> /\ call' = "receive"
      /\ tp' = [tp EXCEPT !.t_size = FF_DL(Head(inbox)), !.state = "SEND_FC", !.SN = 0]
      /\ UNCHANGED <<bus, request, outcome>>
      /\ inbox \in Seq(Frame) /\ TesterTypeOK /\ ExchangeIInv /\ Unfailed
  BY DEF WaitFirstFrame, Taken, Calm, ExchangeIInv, TesterTypeOK
<1>2. Head(inbox) = inbox[1] /\ inbox[1] \in Frame
  BY <1>1, TailOf, RangeTail, HeadTailProperties
<1>3. AnswerSide /\ SentMultiple
  BY <1>1, <1>2, AnswerComes DEF SentSingle
<1>4. tp'.state = "SEND_FC" /\ tp'.SN = 0 /\ tp'.t_size = FF_DL(inbox[1])
  BY <1>1, <1>2 DEF TesterTypeOK
<1>5. response' # <<>> /\ Len(response') = 1 /\ response'[1].type = "FF"
  <2>1. response' = <<Part(inbox[1])>> /\ Part(inbox[1]).type = "FF"
    BY <1>1, <1>2 DEF Part
  <2> QED
    BY <2>1
<1>6. RequestOver' /\ UNCHANGED <<send, txbuf, user, asked, sendFC>>
  BY <1>1, <1>3, OverProceeds
<1>7. Lacks(1) > 0
  BY <1>1, <1>3 DEF SentMultiple, SentFrames
<1>8. NextSN(tp'.SN) = ExpectedAfter(1)
  <2>1. NextSN(0) = 1
    BY SequenceAssumption DEF NextSN
  <2>2. ExpectedAfter(1) = 1
    BY <1>1, <1>2 DEF ExpectedAfter
  <2> QED
    BY <1>4, <2>1, <2>2
<1>9. \A j \in Nat : Lacks(j)' = Lacks(j + 1)
  <2> SUFFICES ASSUME NEW j \in Nat PROVE Lacks(j)' = Lacks(j + 1)
    OBVIOUS
  <2>1. ResponseSize' = FF_DATA
    BY <1>5, Sizes DEF ResponseSize
  <2>2. Lacks(j)' = FF_DL(inbox[1]) - FF_DATA - CF_DATA * j
    BY <1>1, <1>4, <2>1 DEF Lacks
  <2>3. Lacks(j + 1) = FF_DL(inbox[1]) - FF_DATA - CF_DATA * j
    <3>1. (j + 1) - 1 = j
      OBVIOUS
    <3>2. Lacks(j + 1) = FF_DL(inbox[1]) - FF_DATA - CF_DATA * ((j + 1) - 1)
      BY <1>1 DEF Lacks
    <3> QED
      BY <3>1, <3>2
  <2> QED
    BY <2>2, <2>3
<1>10. SentMultiple'
  BY <1>1, <1>3, <1>4, <1>5, <1>6, <1>7, <1>8, <1>9, SentShifted
<1>11. Unfailed'
  BY <1>1, <1>6 DEF Unfailed
<1> QED
  BY <1>6, <1>10, <1>11, Zenon DEF Sides, AnswerSide

(* and those that follow.                                                    *)
LEMMA SmoothCF ==
  ASSUME Calm, Sides, TesterProceeds, inbox # <<>>, WaitCF(Head(inbox))
  PROVE  Unfailed' /\ Sides'
<1>1. /\ call = "receive" /\ tp.state = "WAIT_CF" /\ inbox' = Tail(inbox)
      /\ Head(inbox).type = "CF" /\ Head(inbox).lo = NextSN(tp.SN)
      /\ response' = Append(response, Part(Head(inbox)))
      /\ UNCHANGED <<bus, request>>
      /\ inbox \in Seq(Frame) /\ TesterTypeOK /\ ExchangeIInv /\ Unfailed
  BY DEF WaitCF, InSequence, Taken, Calm, ExchangeIInv, TesterTypeOK
<1>2. Head(inbox) = inbox[1] /\ inbox[1] \in Frame
  BY <1>1, TailOf, RangeTail, HeadTailProperties
<1>3. AnswerSide /\ SentMultiple /\ SentFrames
  BY <1>1, AnswerComes DEF SentSingle, SentMultiple
<1>4. response # <<>> /\ response[1].type = "FF" /\ response \in Seq(SegmentType)
  BY <1>1, <1>3 DEF SentFrames, TesterTypeOK, SegmentType
<1>5. Part(inbox[1]) \in SegmentType
  BY <1>2 DEF Part, SegmentType, Frame
<1>6. /\ response' # <<>> /\ Len(response') = Len(response) + 1
      /\ response'[1] = response[1] /\ Len(response) \in Nat
  <2>1. Len(response) \in Nat /\ Len(response) >= 1
    BY <1>4, TailOf
  <2>2. 1 \in 1 .. Len(response)
    BY <2>1
  <2> QED
    BY <1>1, <1>2, <1>4, <1>5, <2>1, <2>2, LastAppended
<1>7. /\ Lacks(0) = tp.t_size - ResponseSize /\ Lacks(0) \in Int
      /\ Lacks(1) = Lacks(0) - CF_DATA
  <2>1. Lacks(0) \in Int /\ Lacks(0 + 1) = Lacks(0) - CF_DATA
    BY <1>1, <1>3, LacksType
  <2>2. tp.t_size - ResponseSize \in Int
    <3>1. tp.t_size \in Int
      <4>1. tp.t_size \in Offsets
        BY <1>1 DEF TesterTypeOK, Offsets
      <4> QED
        BY <4>1, OffsetNat
    <3>2. ResponseSize \in Int
      BY <1>6, Sizes DEF ResponseSize
    <3> QED
      BY <3>1, <3>2
  <2>3. Lacks(0) = (tp.t_size - ResponseSize) - CF_DATA * 0
    BY <1>1 DEF Lacks
  <2>4. Lacks(0) = tp.t_size - ResponseSize
    BY <2>2, <2>3, Sizes
  <2> QED
    BY <2>1, <2>4
<1>8. CASE tp.t_size - ResponseSize <= CF_DATA
  <2>1. ~(Lacks(1) > 0)
    BY <1>7, <1>8, Sizes
  <2>2. Len(inbox) = 1
    <3>1. Len(inbox) \in Nat /\ Len(inbox) >= 1
      BY <1>1, TailOf
    <3> SUFFICES ASSUME Len(inbox) # 1 PROVE FALSE
      OBVIOUS
    <3>0. \A l \in Nat : l >= 1 /\ l # 1 => 2 \in 1 .. l
      OBVIOUS
    <3>2. 2 \in 1 .. Len(inbox)
      BY <3>0, <3>1
    <3>3. Lacks(2 - 1) > 0
      BY <1>3, <3>2 DEF SentFrames
    <3> QED
      BY <2>1, <3>3
  <2>3. SenderQuiet
    BY <1>3, <2>1, <2>2 DEF SentMultiple
  <2>4. inbox' = <<>>
    BY <1>1, <2>2, TailOf, EmptySeq
  <2>5. Conclude(response')
    BY <1>8 DEF WaitCF
  <2> QED
    BY <1>1, <1>3, <1>6, <2>3, <2>4, <2>5, SmoothReturns
<1>9. CASE ~(tp.t_size - ResponseSize <= CF_DATA)
  <2>1. Lacks(1) > 0
    BY <1>7, <1>9, Sizes
  <2>2. /\ tp'.SN = NextSN(tp.SN) /\ tp'.t_size = tp.t_size
        /\ tp'.state \in {"SEND_FC", "WAIT_CF"} /\ UNCHANGED <<call, outcome>>
    <3>1. tp' = [tp EXCEPT !.SN = NextSN(@), !.BS = NextBS,
                           !.state = NextBlockState("WAIT_CF", "SEND_FC")]
          /\ UNCHANGED <<call, outcome>>
      BY <1>9 DEF WaitCF
    <3> QED
      BY <1>1, <3>1 DEF TesterTypeOK, NextBlockState
  <2>3. RequestOver' /\ UNCHANGED <<send, txbuf, user, asked, sendFC>>
    BY <1>1, <1>3, OverProceeds
  <2>4. NextSN(tp'.SN) = ExpectedAfter(1)
    BY <1>1, <1>2, <2>2 DEF ExpectedAfter
  <2>5. \A j \in Nat : Lacks(j)' = Lacks(j + 1)
    <3> SUFFICES ASSUME NEW j \in Nat PROVE Lacks(j)' = Lacks(j + 1)
      OBVIOUS
    <3>1. PICK r \in Nat : r = Len(response)
      BY <1>6
    <3>2. PICK t \in Nat : t = tp.t_size
      <4>1. tp.t_size \in Offsets
        BY <1>1 DEF TesterTypeOK, Offsets
      <4> QED
        BY <4>1, OffsetNat
    <3>3. ResponseSize' = 6 + 7 * r
      <4>1. ResponseSize' = FF_DATA + CF_DATA * ((r + 1) - 1)
        BY <1>4, <1>6, <3>1 DEF ResponseSize
      <4> QED
        BY <3>1, <4>1, Sizes
    <3>4. ResponseSize = 6 + 7 * (r - 1)
      BY <1>4, <3>1, Sizes DEF ResponseSize
    <3>5. Lacks(j)' = t - (6 + 7 * r) - 7 * j
      BY <1>1, <2>2, <3>2, <3>3, Sizes DEF Lacks
    <3>6. Lacks(j + 1) = t - (6 + 7 * (r - 1)) - 7 * (j + 1)
      BY <1>1, <3>2, <3>4, Sizes DEF Lacks
    <3> QED
      BY <3>1, <3>2, <3>5, <3>6
  <2>6. SentMultiple'
    BY <1>1, <1>3, <1>4, <1>6, <2>1, <2>2, <2>3, <2>4, <2>5, SentShifted
  <2>7. Unfailed'
    BY <1>1, <2>2, <2>3 DEF Unfailed
  <2> QED
    BY <2>3, <2>6, <2>7 DEF Sides, AnswerSide
<1> QED
  BY <1>8, <1>9, Zenon

LEMMA SmoothProceeds ==
  ASSUME Calm, ExchangeIInv', Sides, TesterProceeds
  PROVE  Unfailed' /\ Sides'
<1>1. CASE SendCF
  BY <1>1, SmoothSendCF
<1>2. CASE SendFC
  BY <1>2, SmoothSendFC
<1>3. CASE ReceiveUnknownState
  BY <1>3, AnswerComes DEF ReceiveUnknownState, SentSingle, SentMultiple, SentFrames
<1>4. CASE inbox # <<>> /\ TakeFrame(Head(inbox))
  <2>1. inbox \in Seq(Frame)
    BY DEF Calm, ExchangeIInv, TesterTypeOK
  <2>2. Head(inbox) = inbox[1] /\ 1 \in 1 .. Len(inbox)
    BY <1>4, <2>1, TailOf
  <2>3. CASE HandleFC(Head(inbox))
    BY <1>4, <2>3, SmoothHandleFC
  <2>4. CASE WaitSingleFrame(Head(inbox))
    BY <1>4, <2>4, SmoothSingleFrame
  <2>5. CASE WaitFirstFrame(Head(inbox))
    BY <1>4, <2>5, SmoothFirstFrame
  <2>6. ~WaitOtherFrame(Head(inbox))
    BY <1>4, <2>2, AnswerComes DEF WaitOtherFrame, SentSingle, SentMultiple, SentFrames
  <2>7. CASE WaitCF(Head(inbox))
    BY <1>4, <2>7, SmoothCF
  <2>8. ~WaitCFError(Head(inbox))
    <3> SUFFICES ASSUME WaitCFError(Head(inbox)) PROVE FALSE
      OBVIOUS
    <3>1. call = "receive" /\ ~(inbox[1].type = "CF" /\ inbox[1].lo = NextSN(tp.SN))
      BY <2>2 DEF WaitCFError, InSequence
    <3>2. SentFrames
      BY <3>1, AnswerComes DEF SentSingle, SentMultiple
    <3>3. inbox[1].type = "CF" /\ inbox[1].lo = ExpectedAfter(1 - 1)
      BY <2>2, <3>1, <3>2 DEF SentFrames
    <3> QED
      BY <3>1, <3>3 DEF ExpectedAfter
  <2> QED
    BY <1>4, <2>3, <2>4, <2>5, <2>6, <2>7, <2>8 DEF TakeFrame
<1> QED
  BY <1>1, <1>2, <1>3, <1>4 DEF TesterProceeds, Proceed

-----------------------------------------------------------------------------
(* Whenever the tester waits there is something to wait for.                 *)
LEMMA WaitsForSomething ==
  ASSUME Calm, Sides, Waiting
  PROVE  Unsettled
<1>1. ExchangeIInv /\ LongMessage
  BY DEF Calm, SenderInv
<1>2. CASE RequestSide
  <2>1. Receiving \/ rcv.status = "RCV_FF" => Unsettled
    BY DEF Unsettled, Receiving
  <2>2. Flight # <<>> /\ Between => Unsettled
    BY <1>1, FlightEmpty DEF Unsettled, Between, Rests
  <2>3. CASE call = "schedule_tx"
    <3>1. ASSUME Between PROVE Flight # <<>>
      <4>1. PICK k \in 0 .. Len(Flight) : k < Len(Flight)
        BY <2>3, <3>1 DEF Between, Announces
      <4>2. Flight = <<>> => Len(Flight) = 0
        OBVIOUS
      <4> QED
        BY <4>1, <4>2
    <3> QED
      BY <1>2, <2>1, <2>2, <3>1 DEF RequestSide, Judges, Takes
  <2>4. CASE call = "waitSForFF"
    BY <1>2, <2>1, <2>2, <2>4 DEF RequestSide, Judges, Takes, Somewhere, Reading, Unsettled
  <2> QED
    BY <1>2, <2>3, <2>4 DEF Waiting, RequestSide
<1>3. CASE AnswerSide
  <2>1. CASE Prepared
    BY <2>1 DEF Prepared, Unsettled
  <2>2. CASE SentSingle
    <3>1. inbox # <<>>
      BY <2>2 DEF SentSingle
    <3> QED
      BY <3>1 DEF Unsettled
  <2>3. CASE SentMultiple
    <3> SUFFICES ASSUME inbox = <<>> PROVE Unsettled
      BY DEF Unsettled
    <3>1. Lacks(0) > 0 /\ Len(inbox) = 0
      BY <2>3 DEF SentMultiple, SentFrames
    <3>2. Sending
      <4>1. Lacks(0) \in Int
        BY <1>1, <2>3, LacksType DEF SentMultiple
      <4>2. ~(Lacks(0) <= 0)
        BY <3>1, <4>1
      <4> QED
        BY <2>3, <3>1, <4>2 DEF SentMultiple
    <3>3. txbuf.length # 0
      BY <1>1, <3>2, Sizes DEF LongMessage, Sending
    <3> QED
      BY <3>2, <3>3 DEF Sending, Unsettled
  <2> QED
    BY <1>3, <2>1, <2>2, <2>3 DEF AnswerSide
<1> QED
  BY <1>2, <1>3 DEF Sides

(* No step that disturbs nothing leaves the way.                             *)
LEMMA SmoothStep ==
  ASSUME Calm, ExchangeIInv', Sides, ~hasty => Phase /\ TesterInv, ExchangeNext, Smooth'
  PROVE  Unfailed' /\ Sides'
<1>1. CASE TakeNothing
  BY <1>1, SmoothNothing
<1>2. CASE TesterTimesOut
  <2>1. Unsettled
    BY <1>2, WaitsForSomething DEF TesterTimesOut, WaitTimeout
  <2> QED
    BY <1>2, <2>1 DEF TesterTimesOut, Smooth
<1>3. ~disturbed'
  BY DEF Smooth
<1>4. CASE NodeTick
  BY <1>4, SmoothTick
<1>5. CASE RxNotification
  BY <1>5, SmoothNotification
<1>6. CASE Poll
  BY <1>6, SmoothPoll
<1>7. CASE InCall
  BY <1>7, SmoothStores, SmoothLoads DEF InCall
<1>8. CASE TakeRequest
  BY <1>3, <1>8, SmoothTaken
<1>9. CASE AnswerRequest
  BY <1>3, <1>9, SmoothAnswer
<1>10. CASE Ask
  BY <1>10, SmoothAsk
<1>11. CASE TesterProceeds
  BY <1>11, SmoothProceeds
<1> QED
  BY <1>1, <1>2, <1>4, <1>5, <1>6, <1>7, <1>8, <1>9, <1>10, <1>11 DEF ExchangeNext

LEMMA SmoothUnchanged ==
  ASSUME Calm, Sides, UNCHANGED exchange
  PROVE  Unfailed' /\ Sides'
<1>1. /\ UNCHANGED <<txbuf, send, sendFC, user, poll, rxbuf, rcv, rcvFC, pdu, mailbox>>
      /\ UNCHANGED <<tp, call, request, response, outcome, inbox, bus, asked>>
  BY DEF exchange, nodeVars, vars, testerVars, historyVars
<1>2. Flight' = Flight
  BY <1>1 DEF Flight, Unseen
<1>3. Unfailed'
  BY <1>1, UnfailedKept DEF Calm
<1>4. RequestSide => RequestSide'
  <2>1. SenderQuiet => SenderQuiet'
    BY <1>1 DEF SenderQuiet
  <2> QED
    BY <1>1, <1>2, <2>1, RequestKept DEF RequestSide
<1>5. AnswerSide => AnswerSide'
  BY <1>1, <1>2, OverKept, AnswerKept DEF AnswerSide
<1> QED
  BY <1>3, <1>4, <1>5 DEF Sides

(* The invariant of all exchanges, with what holds of the smooth ones.       *)
SmoothIInv == PromiseIInv /\ (~disturbed => ~crossed) /\ SmoothInv

LEMMA SmoothInitially == ExchangeInit => SmoothIInv
<1> SUFFICES ASSUME ExchangeInit PROVE SmoothIInv
  OBVIOUS
<1>1. PromiseIInv /\ ExchangeIInv
  BY PromiseInitially DEF PromiseIInv
<1>2. /\ poll = None /\ asked = <<>> /\ call = "none" /\ inbox = <<>> /\ bus = <<>>
      /\ outcome.ercd /\ user.at = "none" /\ user.n = 0 /\ txbuf.length = 0
      /\ rcv.status = "RX_IDLE" /\ rcv.N_result = "N_INVALID" /\ mailbox = <<>>
      /\ ~pdu.is_valid /\ ~rcvFC.is_valid /\ sendFC.FS = CTS /\ ~crossed
  BY DEF ExchangeInit, Init, UserInit, TesterInit, SendInit, RcvInit
<1>3. Unfailed
  BY <1>2 DEF Unfailed
<1>4. Flight = <<>> /\ Len(Flight) = 0
  <2>1. Flight = <<>>
    BY <1>1, <1>2, FlightEmpty
  <2> QED
    BY <2>1
<1>5. Rests /\ ~Receiving /\ ~Reading /\ ~Drained
  BY <1>2 DEF Rests, Receiving, Reading, Drained
<1>6. Between
  <2>1. Granted(0) /\ BeginsAfter(0) /\ Announces(0)
    BY <1>2, <1>4 DEF Granted, BeginsAfter, Announces
  <2> QED
    BY <1>2, <1>4, <1>5, <2>1 DEF Between
<1>7. CopyInv /\ SenderQuiet
  BY <1>2, <1>5 DEF CopyInv, Fresh, SenderQuiet
<1>8. RequestSide
  BY <1>2, <1>6, <1>7 DEF RequestSide
<1> QED
  BY <1>1, <1>2, <1>3, <1>8 DEF SmoothIInv, SmoothInv

LEMMA SmoothNext == SmoothIInv /\ [ExchangeNext]_exchange => SmoothIInv'
<1> SUFFICES ASSUME SmoothIInv, [ExchangeNext]_exchange PROVE SmoothIInv'
  OBVIOUS
<1>1. PromiseIInv /\ PromiseIInv' /\ ExchangeIInv' /\ HistoryTypes
  BY PromiseStep DEF SmoothIInv, PromiseIInv
<1>2. ~disturbed' => ~disturbed /\ ~crossed'
  <2>1. CASE UNCHANGED exchange
    BY <2>1 DEF SmoothIInv, exchange, historyVars
  <2>2. CASE ExchangeNext
    BY <2>2 DEF SmoothIInv, ExchangeNext, NodeTick, RxNotification, Poll, InCall, TakeRequest,
                TakeNothing, AnswerRequest, Ask, TesterProceeds, TesterTimesOut, historyVars
  <2> QED
    BY <2>1, <2>2
<1>3. ASSUME Smooth' PROVE Unfailed' /\ (RequestSide' \/ AnswerSide')
  <2>1. Smooth
    <3>1. CASE UNCHANGED exchange
      BY <1>3, <3>1 DEF Smooth, exchange, historyVars
    <3>2. CASE ExchangeNext
      BY <1>1, <1>3, <3>2, SmoothBefore
    <3> QED
      BY <3>1, <3>2
  <2>2. ~crossed /\ Unfailed /\ Sides
    BY <2>1 DEF SmoothIInv, SmoothInv, Smooth, Sides
  <2>3. Calm /\ (~hasty => Phase /\ TesterInv)
    BY <1>1, <2>1, <2>2 DEF Calm, PromiseIInv, PatientInv, Phase
  <2>4. Unfailed' /\ Sides'
    BY <1>1, <1>3, <2>2, <2>3, SmoothStep, SmoothUnchanged
  <2> QED
    BY <2>4 DEF Sides
<1> QED
  BY <1>1, <1>2, <1>3 DEF SmoothIInv, SmoothInv

LEMMA SmoothHolds == ExchangeSpec => []SmoothIInv
BY SmoothInitially, SmoothNext, PTL DEF ExchangeSpec

(* As long as nothing disturbs an exchange both sides count the same frames  *)
(* of each message and block, the last request is somewhere or its answer on *)
(* its way, and what is left over from earlier requests is taken or ignored, *)
(* for a hasty tester too (can_tp.c:211-264, 571-740, cantp.py:154-350).     *)
THEOREM SmoothInvHolds == ExchangeSpec => []SmoothInv
<1>1. SmoothIInv => SmoothInv
  BY DEF SmoothIInv
<1> QED
  BY <1>1, SmoothHolds, PTL

(* A request that fails, and not by a negative answer, has a cause in a      *)
(* timer that ran out or a frame or an answer that was dropped, in a request *)
(* whose last frame ends a block or in one longer than Rx_buf: whatever the  *)
(* sizes of blocks, buffers and queues, and for every tester and server      *)
(* (can_tp.c:211-264, 397-542, 571-740, cantp.py:154-350).                   *)
THEOREM FailureHasCauseHolds == ExchangeSpec => []FailureHasCause
<1>1. SmoothIInv => FailureHasCause
  <2> SUFFICES ASSUME SmoothIInv, ~outcome.ercd, outcome.res = None
               PROVE  ~Smooth
    BY DEF FailureHasCause, Smooth, EndsWrong
  <2> QED
    BY DEF SmoothIInv, SmoothInv, Unfailed
<1> QED
  BY <1>1, SmoothHolds, PTL
=============================================================================

------------------------- MODULE CanTpTrafficProofs -------------------------
(* Proofs about what a node's transport layer puts on the bus and how long   *)
(* it waits, for every value of the constants.                               *)
EXTENDS CanTpTraffic, CanTpProofs, SequenceTheorems

LEMMA TrafficStep == [TrafficNext]_traffic => [Next]_vars
BY DEF TrafficNext, traffic

(* What a step of the node is to the observer: a step of the sender, flow    *)
(* control that comes in, the end of a tick, a message that is handed over,  *)
(* or a step that does not concern the sender.                               *)
FlowControlStep ==
    /\ RcvFlowCtrlFrame(Pdu.f) /\ TakeFlowCtrlFrame
    /\ FlowControlReceived /\ out' = <<>> /\ ~TickEnds
SenderStep ==
    /\ TxPart /\ UNCHANGED rcvVars /\ pc = "tx" /\ pc' = "fc"
    /\ ~FlowControlReceived /\ ~TickEnds
OtherStep ==
    /\ UNCHANGED sendVars /\ (pc = "tx" <=> pc' = "tx")
    /\ ~Sent("FF") /\ ~Sent("CF") /\ ~FlowControlReceived /\ ~TickEnds

LEMMA Steps ==
  ASSUME Next
  PROVE  \/ SenderStep
         \/ FlowControlStep
         \/ TimerCtrl /\ TickEnds /\ out' = <<>> /\ ~FlowControlReceived
         \/ \E m \in Messages : /\ SendNetworkLayer(m) /\ out' = <<>> /\ UNCHANGED pc
                                /\ ~FlowControlReceived /\ ~TickEnds
         \/ OtherStep
<1> USE DEF FlowControlReceived, TickEnds, Step
<1>1. CASE Tx
  BY <1>1 DEF Tx, SenderStep
<1>2. CASE Fc
  BY <1>2 DEF Fc, SendFlowCtrlFrame, NoFlowCtrlFrame, OtherStep, Sent
<1>3. CASE Rx
  <2>1. CASE RxPart /\ UNCHANGED sendVars
    <3>1. Kind # "FC"
      BY <2>1 DEF RxPart, RcvUnknown, RcvSingleFrame, RcvSingleFrameError,
         RcvMultipleFrame, InFlow, Unknown, IdleFirstFrame, FirstFrame, FirstFrameTooLong,
         FirstFrameTooShort, FlowControlSent, FlowControlLate, FlowControlUnsent,
         ConsecutiveFrame, WrongSequenceNumber, ConsecutiveFrameTimeout,
         ConsecutiveFramePending, FinishReceive
    <3> QED
      BY <1>3, <2>1, <3>1 DEF Rx, OtherStep, Sent
  <2>2. CASE TakeFlowCtrlFrame /\ RcvFlowCtrlFrame(Pdu.f)
    BY <1>3, <2>2 DEF Rx, FlowControlStep, TakeFlowCtrlFrame
  <2> QED
    BY <1>3, <2>1, <2>2 DEF Rx
<1>4. CASE TimerCtrl
  BY <1>4 DEF TimerCtrl
<1>5. ASSUME NEW m \in Messages, Send(m)
      PROVE  /\ SendNetworkLayer(m) /\ out' = <<>> /\ UNCHANGED pc
             /\ ~FlowControlReceived /\ ~TickEnds
  BY <1>5 DEF Send, SendNetworkLayer
<1>6. ASSUME NEW id \in RcvIds \union FFIds, Receive(id) \/ ReceiveFF(id)
      PROVE  OtherStep
  BY <1>6 DEF Receive, ReceiveFF, OtherStep, Sent
<1>7. ASSUME NEW f \in Frames, Deliver(f)
      PROVE  OtherStep
  BY <1>7 DEF Deliver, OtherStep, Sent
<1> QED
  BY <1>1, <1>2, <1>3, <1>4, <1>5, <1>6, <1>7 DEF Next, MainNetworkLayer

(* First and consecutive frames come from their actions alone.               *)
LEMMA SentBy ==
  ASSUME TxPart
  PROVE  /\ Sent("FF") <=> SendFirstFrame
         /\ Sent("CF") <=> SendConsecutiveFrame
<1> USE DEF Sent
<1>1. CASE SendSingleFrame \/ SendFirstFrame \/ SendConsecutiveFrame
  BY <1>1 DEF SendSingleFrame, SendFirstFrame, SendConsecutiveFrame, InState
<1>2. CASE out' = <<>>
  BY <1>2 DEF SendFirstFrame, SendConsecutiveFrame
<1> QED
  BY <1>1, <1>2
  DEF TxPart, TxNothing, SendMultipleFrame, StartMultipleFrame, FlowControlPending,
      FlowControlArrived, FlowControlTimeout, SeparationWait, FlowWait, FlowOverflow,
      FlowReserved, FinishSend

-----------------------------------------------------------------------------
(* Block sizes.  As long as a block size is in force, what is left of it is  *)
(* in sendFC, and is some as long as sendFC is valid, which it is whenever   *)
(* consecutive frames may go out.                                            *)
BlockInv ==
    /\ grant \in [BS : 0 .. 255, used : Nat]
    /\ send.status = "SEND_CF" => sendFC.is_valid
    /\ grant.BS # 0 => /\ grant.used + sendFC.BS = grant.BS
                       /\ sendFC.is_valid => sendFC.BS > 0

LEMMA BlockStep ==
  ASSUME IInv, BlockInv, TrafficNext
  PROVE  BlockInv'
<1>0. /\ send \in TxRuntime /\ sendFC \in FCParam /\ RcvTypeOK
      /\ grant \in [BS : 0 .. 255, used : Nat]
  BY DEF IInv, SendIInv, SendTypeOK, BlockInv
<1>1. Next /\ Observe
  BY DEF TrafficNext
<1>2. ASSUME UNCHANGED <<sendFC, grant>>,
             send'.status = "SEND_CF" => send.status = "SEND_CF"
      PROVE  BlockInv'
  BY <1>2 DEF BlockInv
<1>3. CASE SenderStep
  <2>1. CASE SendConsecutiveFrame
    <3>1. grant' = [grant EXCEPT !.used = @ + 1]
      BY <1>1, <1>3, <2>1, SentBy DEF SenderStep, Observe
    <3>2. sendFC.is_valid /\ send.status = "SEND_CF"
      BY <2>1 DEF BlockInv, SendConsecutiveFrame, InState
    <3>3. sendFC'.BS = DecByte(sendFC.BS) /\ (sendFC'.is_valid <=> ~(sendFC.BS = 1))
      BY <1>0, <2>1, <3>2 DEF SendConsecutiveFrame, FCParam
    <3>4. send'.status = "SEND_CF" => ~(sendFC.BS = 1)
      BY <1>0, <2>1 DEF SendConsecutiveFrame, TxRuntime
    <3>5. grant'.BS = grant.BS /\ grant'.used = grant.used + 1 /\ grant' \in [BS : 0 .. 255, used : Nat]
      BY <1>0, <3>1
    <3>6. sendFC.BS \in 0 .. 255
      BY <1>0 DEF FCParam
    <3>7. grant.BS # 0 => sendFC'.BS = sendFC.BS - 1
      BY <3>2, <3>3, <3>6 DEF BlockInv, DecByte
    <3>8. grant'.BS # 0 => /\ grant'.used + sendFC'.BS = grant'.BS
                           /\ sendFC'.is_valid => sendFC'.BS > 0
      BY <1>0, <3>2, <3>3, <3>5, <3>6, <3>7 DEF BlockInv
    <3> QED
      BY <3>3, <3>4, <3>5, <3>8 DEF BlockInv
  <2>2. CASE ~SendConsecutiveFrame
    <3>1. grant' = grant
      BY <1>1, <1>3, <2>2, SentBy DEF SenderStep, Observe
    <3>2. CASE FinishSend
      <4>1. send'.status = "TX_IDLE" /\ sendFC'.BS = sendFC.BS /\ ~sendFC'.is_valid
        BY <1>0, <3>2 DEF FinishSend, TxRuntime, FCParam
      <4> QED
        BY <3>1, <4>1 DEF BlockInv
    <3>3. CASE FlowControlArrived
      BY <1>0, <3>1, <3>3 DEF FlowControlArrived, BlockInv
    <3>4. CASE ~FinishSend /\ ~FlowControlArrived
      <4>1. sendFC' = sendFC /\ (send'.status = "SEND_CF" => send.status = "SEND_CF")
        BY <1>0, <1>3, <2>2, <3>4
        DEF SenderStep, TxPart, TxNothing, SendSingleFrame, SendMultipleFrame, sendVars,
            StartMultipleFrame, SendFirstFrame, FlowControlPending, FlowControlTimeout,
            SeparationWait, FlowWait, FlowOverflow, FlowReserved, TxRuntime
      <4> QED
        BY <1>2, <3>1, <4>1
    <3> QED
      BY <3>2, <3>3, <3>4
  <2> QED
    BY <2>1, <2>2
<1>4. CASE FlowControlStep
  <2>1. grant' = [BS |-> Pdu.f.b1, used |-> 0]
    BY <1>1, <1>4 DEF FlowControlStep, Observe
  <2>2. Pdu.f.b1 \in 0 .. 255
    BY <1>0, PduType DEF Frame
  <2>3. sendFC'.BS = Pdu.f.b1 /\ (sendFC.is_valid => sendFC'.is_valid)
    BY <1>4 DEF FlowControlStep, RcvFlowCtrlFrame
  <2>4. send'.status = send.status
    BY <1>0, <1>4 DEF FlowControlStep, RcvFlowCtrlFrame, TxRuntime
  <2> QED
    BY <2>1, <2>2, <2>3, <2>4 DEF BlockInv
<1>5. CASE TimerCtrl /\ ~FlowControlReceived /\ out' = <<>>
  BY <1>1, <1>2, <1>5 DEF TimerCtrl, SendTimerCtrl, Observe, Sent
<1>6. ASSUME NEW m \in Messages, SendNetworkLayer(m), out' = <<>>, ~FlowControlReceived
      PROVE  BlockInv'
  BY <1>0, <1>1, <1>2, <1>6 DEF SendNetworkLayer, Observe, Sent, TxRuntime
<1>7. CASE OtherStep
  BY <1>1, <1>2, <1>7 DEF OtherStep, sendVars, Observe
<1> QED
  BY <1>1, <1>3, <1>4, <1>5, <1>6, <1>7, Steps

(* For every block size a peer may grant, no more consecutive frames follow  *)
(* before the next flow control frame (can_tp.c:459-468).                    *)
THEOREM BlockSizeHonouredHolds == TrafficSpec => []BlockSizeHonoured
<1>1. TrafficInit => IInv /\ BlockInv
  <2>1. TrafficInit => BlockInv
    BY DEF TrafficInit, Init, SendInit, ObserveInit, BlockInv
  <2> QED
    BY <2>1, SendInitially, RcvInitially DEF TrafficInit, Init, IInv
<1>2. IInv /\ BlockInv /\ [TrafficNext]_traffic => (IInv /\ BlockInv)'
  <2>1. ASSUME BlockInv, UNCHANGED traffic PROVE BlockInv'
    BY <2>1 DEF traffic, history, vars, BlockInv
  <2> QED
    BY <2>1, BlockStep, IInvInductive, TrafficStep
<1>3. IInv /\ BlockInv => BlockSizeHonoured
  <2> SUFFICES ASSUME IInv, BlockInv, grant.BS # 0
               PROVE  grant.used <= grant.BS
    BY DEF BlockSizeHonoured
  <2>1. sendFC.BS \in 0 .. 255
    BY DEF IInv, SendIInv, SendTypeOK, FCParam
  <2>2. grant.BS \in 0 .. 255 /\ grant.used \in Nat /\ grant.used + sendFC.BS = grant.BS
    BY DEF BlockInv
  <2> QED
    BY <2>1, <2>2
<1> QED
  BY <1>1, <1>2, <1>3, PTL DEF TrafficSpec

-----------------------------------------------------------------------------
(* A multiple frame on its way has no result, other than that a bad flow     *)
(* control frame came.                                                       *)
ResultInv ==
    txbuf.length >= CAN_FRAME_SIZE /\ send.status # "SEND_OK" =>
        send.N_result \in {"N_INVALID", "N_INVALID_FS"}

LEMMA ResultStep ==
  ASSUME IInv, ResultInv, Next
  PROVE  ResultInv'
<1>0. send \in TxRuntime /\ txbuf \in TxBuffer /\ LongMessage
  BY DEF IInv, SendIInv, SendTypeOK
<1>1. ASSUME UNCHANGED txbuf, send'.status # "SEND_OK" => send.status # "SEND_OK",
             send'.N_result = send.N_result \/ send'.N_result = "N_INVALID_FS"
      PROVE  ResultInv'
  BY <1>1 DEF ResultInv
<1>2. ASSUME ~(txbuf'.length >= CAN_FRAME_SIZE) \/ send'.status = "SEND_OK"
             \/ send'.N_result = "N_INVALID"
      PROVE  ResultInv'
  BY <1>2 DEF ResultInv
<1>3. CASE SenderStep
  <2>1. CASE SendSingleFrame \/ FinishSend
    <3>1. txbuf'.length = 0
      BY <1>0, <2>1 DEF SendSingleFrame, FinishSend, TxBuffer
    <3> QED
      BY <1>2, <3>1, Sizes
  <2>2. CASE FlowControlTimeout \/ FlowOverflow
    BY <1>0, <1>2, <2>2 DEF FlowControlTimeout, FlowOverflow, TxRuntime
  <2>3. CASE SendConsecutiveFrame
    <3>1. CASE send.length <= CF_DATA
      BY <1>0, <1>2, <2>3, <3>1 DEF SendConsecutiveFrame, TxRuntime
    <3>2. CASE ~(send.length <= CF_DATA)
      <4>1. send'.N_result = send.N_result /\ send.status = "SEND_CF" /\ txbuf' = txbuf
        BY <1>0, <2>3, <3>2 DEF SendConsecutiveFrame, InState, TxRuntime
      <4> QED
        BY <1>1, <4>1
    <3> QED
      BY <3>1, <3>2
  <2>4. CASE TxNothing \/ SeparationWait \/ FlowWait \/ FlowReserved
    <3>1. UNCHANGED <<txbuf, send>>
      BY <2>4 DEF TxNothing, SeparationWait, FlowWait, FlowReserved, sendVars
    <3> QED
      BY <1>1, <3>1
  <2>5. CASE StartMultipleFrame \/ SendFirstFrame \/ FlowControlPending \/ FlowControlArrived
    <3>1. /\ UNCHANGED txbuf /\ send.status # "SEND_OK"
          /\ send'.N_result = send.N_result
      BY <1>0, <2>5 DEF StartMultipleFrame, SendFirstFrame, FlowControlPending,
         FlowControlArrived, InState, TxRuntime
    <3> QED
      BY <1>1, <3>1
  <2> QED
    BY <1>3, <2>1, <2>2, <2>3, <2>4, <2>5 DEF SenderStep, TxPart, SendMultipleFrame
<1>4. CASE FlowControlStep
  <2>1. /\ UNCHANGED txbuf /\ send'.status = send.status
        /\ send'.N_result = send.N_result \/ send'.N_result = "N_INVALID_FS"
    BY <1>0, <1>4 DEF FlowControlStep, RcvFlowCtrlFrame, TxRuntime
  <2> QED
    BY <1>1, <2>1
<1>5. CASE TimerCtrl
  BY <1>1, <1>5 DEF TimerCtrl, SendTimerCtrl
<1>6. ASSUME NEW m \in Messages, SendNetworkLayer(m)
      PROVE  ResultInv'
  BY <1>0, <1>2, <1>6 DEF SendNetworkLayer, TxRuntime
<1>7. CASE OtherStep
  BY <1>1, <1>7 DEF OtherStep, sendVars
<1> QED
  BY <1>3, <1>4, <1>5, <1>6, <1>7, Steps

-----------------------------------------------------------------------------
(* The wait for flow control.  The static flag is down only within a wait,   *)
(* and then the timer and the ticks that were waited make up N_Bs.           *)
BsInv ==
    /\ waited \in Nat
    /\ ~send.arm => /\ send.status = "WAIT_FC"
                    /\ sendTimer.N_Bs + waited = TIMER_B_S + 1
                    /\ sendTimer.N_Bs = Stopped => pc = "tx"
    /\ send.status = "WAIT_FC" /\ send.arm => waited = IF pc = "tx" THEN 1 ELSE 0

LEMMA BsStep ==
  ASSUME IInv, BsInv, TrafficNext
  PROVE  BsInv'
<1>0. /\ send \in TxRuntime /\ sendTimer \in TxTimers /\ waited \in Nat
      /\ TIMER_B_S \in Nat /\ sendTimer.N_Bs \in Int
  BY TimerAssumption DEF IInv, SendIInv, SendTypeOK, BsInv, TxTimers, Timer, Stopped
<1>1. Next /\ Observe
  BY DEF TrafficNext
<1>2. waited' \in Nat
  BY <1>0, <1>1 DEF Observe, Count, WaitedBound
<1>3. ASSUME send'.status # "WAIT_FC", send'.arm
      PROVE  BsInv'
  BY <1>2, <1>3 DEF BsInv
<1>4. ASSUME send'.status = send.status, send'.arm = send.arm,
             sendTimer'.N_Bs = sendTimer.N_Bs, ~TickEnds, pc = "tx" <=> pc' = "tx"
      PROVE  BsInv'
  <2>1. send.status = "WAIT_FC" => waited' = waited
    BY <1>1, <1>4 DEF Observe
  <2> QED
    BY <1>2, <1>4, <2>1 DEF BsInv
<1>5. send.status # "WAIT_FC" => send.arm
  BY <1>0 DEF BsInv, TxRuntime
<1>6. CASE SenderStep
  <2>1. ~TickEnds /\ pc = "tx" /\ pc' = "fc"
    BY <1>6 DEF SenderStep
  <2>2. CASE send.status # "WAIT_FC"
    <3>1. send'.status = "WAIT_FC" => waited' = 0
      BY <1>1, <2>2 DEF Observe
    <3>2. send'.arm
      BY <1>0, <1>5, <1>6, <2>2
      DEF SenderStep, TxPart, SendMultipleFrame, TxNothing, SendSingleFrame,
          StartMultipleFrame, SendFirstFrame, FlowControlPending, FlowControlArrived,
          FlowControlTimeout, SendConsecutiveFrame, SeparationWait, FlowWait, FlowOverflow,
          FlowReserved, FinishSend, InState, TxRuntime, sendVars
    <3> QED
      BY <1>2, <2>1, <3>1, <3>2 DEF BsInv
  <2>3. CASE send.status = "WAIT_FC"
    <3>0. InState("WAIT_FC") /\ (FlowControlPending \/ FlowControlArrived \/ FlowControlTimeout)
      <4>1. txbuf.length >= CAN_FRAME_SIZE
        BY <2>3 DEF IInv, SendIInv, LongMessage
      <4>2. txbuf.length # 0 /\ txbuf.length \notin 1 .. CAN_FRAME_SIZE - 1
        BY <4>1, Sizes DEF IInv, SendIInv, SendTypeOK, TxBuffer
      <4> QED
        BY <1>6, <2>3, <4>1, <4>2
        DEF SenderStep, TxPart, SendMultipleFrame, TxNothing, SendSingleFrame,
          StartMultipleFrame, SendFirstFrame, SendConsecutiveFrame, SeparationWait,
          FlowWait, FlowOverflow, FlowReserved, FinishSend, InState
    <3>1. CASE FlowControlArrived \/ FlowControlTimeout
      BY <1>0, <1>3, <3>1 DEF FlowControlArrived, FlowControlTimeout, TxRuntime
    <3>2. CASE FlowControlPending
      <4>1. /\ send'.status = "WAIT_FC" /\ ~send'.arm /\ sendTimer'.N_Bs = N_Bs
            /\ N_Bs # Stopped
        BY <1>0, <2>3, <3>2 DEF FlowControlPending, Timing, TxRuntime, TxTimers
      <4>2. waited' = waited
        BY <1>1, <2>1, <2>3, <4>1 DEF Observe
      <4>3. N_Bs + waited = TIMER_B_S + 1
        BY <1>0, <2>1, <2>3 DEF N_Bs, BsInv, TxRuntime
      <4> QED
        BY <1>2, <4>1, <4>2, <4>3 DEF BsInv
    <3> QED
      BY <3>0, <3>1, <3>2
  <2> QED
    BY <2>2, <2>3
<1>7. CASE FlowControlStep
  <2>1. send'.status = send.status /\ send'.arm = send.arm /\ sendTimer' = sendTimer
    BY <1>0, <1>7 DEF FlowControlStep, RcvFlowCtrlFrame, TxRuntime
  <2>2. ~TickEnds /\ pc = "rx" /\ pc' = "timer"
    BY <1>7 DEF FlowControlStep, FlowControlReceived
  <2> QED
    BY <1>4, <2>1, <2>2
<1>8. CASE TimerCtrl /\ TickEnds
  <2>1. send' = send /\ sendTimer'.N_Bs = Tick(sendTimer.N_Bs) /\ pc = "timer" /\ pc' = "tx"
    BY <1>8 DEF TimerCtrl, SendTimerCtrl, Step
  <2>2. CASE send.status = "WAIT_FC"
    <3>1. waited' = Count(waited, TIMER_B_S + 3)
      BY <1>1, <1>8, <2>1, <2>2 DEF Observe, WaitedBound
    <3>2. CASE send.arm
      <4>1. waited = 0
        BY <2>1, <2>2, <3>2 DEF BsInv
      <4> QED
        BY <1>0, <1>2, <2>1, <3>1, <3>2, <4>1 DEF BsInv, Count
    <3>3. CASE ~send.arm
      <4>1. sendTimer.N_Bs # Stopped /\ sendTimer.N_Bs + waited = TIMER_B_S + 1
        BY <2>1, <3>3 DEF BsInv
      <4>2. sendTimer.N_Bs >= 0
        BY <1>0, <4>1 DEF TxTimers, Timer, Stopped
      <4>3. sendTimer'.N_Bs = sendTimer.N_Bs - 1
        BY <2>1, <4>1 DEF Tick
      <4>4. waited' = waited + 1
        BY <1>0, <3>1, <4>1, <4>2 DEF Count
      <4>5. sendTimer'.N_Bs + waited' = TIMER_B_S + 1
        BY <1>0, <4>1, <4>3, <4>4
      <4> QED
        BY <1>2, <2>1, <2>2, <3>3, <4>5 DEF BsInv
    <3> QED
      BY <3>2, <3>3
  <2>3. CASE send.status # "WAIT_FC"
    BY <1>3, <1>5, <2>1, <2>3
  <2> QED
    BY <2>2, <2>3
<1>9. ASSUME NEW m \in Messages, SendNetworkLayer(m)
      PROVE  BsInv'
  BY <1>0, <1>3, <1>5, <1>9 DEF SendNetworkLayer, TxRuntime
<1>10. CASE OtherStep
  <2>1. UNCHANGED sendVars /\ ~TickEnds /\ (pc = "tx" <=> pc' = "tx")
    BY <1>10 DEF OtherStep
  <2> QED
    BY <1>4, <2>1 DEF sendVars
<1> QED
  BY <1>1, <1>6, <1>7, <1>8, <1>9, <1>10, Steps

(* For every timeout the sender gives up in WAIT_FC only after it has waited *)
(* that long, and at once then (can_tp.c:428-449).                           *)
THEOREM TimeoutBsEarnedHolds == TrafficSpec => TimeoutBsEarned
<1> DEFINE Inv == IInv /\ ResultInv /\ BsInv
<1>1. TrafficInit => Inv
  <2>1. TrafficInit => ResultInv /\ BsInv
    BY DEF TrafficInit, Init, SendInit, ObserveInit, ResultInv, BsInv
  <2> QED
    BY <2>1, SendInitially, RcvInitially DEF TrafficInit, Init, IInv
<1>2. Inv /\ [TrafficNext]_traffic => Inv'
  <2>1. ASSUME ResultInv, BsInv, UNCHANGED traffic PROVE (ResultInv /\ BsInv)'
    BY <2>1 DEF traffic, history, vars, ResultInv, BsInv
  <2>2. TrafficNext => Next
    BY DEF TrafficNext
  <2> QED
    BY <2>1, <2>2, BsStep, ResultStep, IInvInductive, TrafficStep
<1>3. Inv /\ [TrafficNext]_traffic =>
        [send'.N_result = "N_TIMEOUT_Bs" /\ send.status = "WAIT_FC" =>
           waited \in TIMER_B_S .. TIMER_B_S + 2]_traffic
  <2> SUFFICES ASSUME Inv, TrafficNext, send'.N_result = "N_TIMEOUT_Bs",
                      send.status = "WAIT_FC"
               PROVE  waited \in TIMER_B_S .. TIMER_B_S + 2
    OBVIOUS
  <2>0. send \in TxRuntime /\ sendTimer \in TxTimers /\ TIMER_B_S \in Nat
    BY TimerAssumption DEF IInv, SendIInv, SendTypeOK
  <2>1. send.N_result # "N_TIMEOUT_Bs"
    BY DEF IInv, SendIInv, LongMessage, ResultInv
  <2>2. FlowControlTimeout
    <3>1. CASE SenderStep
      BY <2>0, <2>1, <3>1
      DEF SenderStep, TxPart, SendMultipleFrame, TxNothing, SendSingleFrame,
          StartMultipleFrame, SendFirstFrame, FlowControlPending, FlowControlArrived,
          SendConsecutiveFrame, SeparationWait, FlowWait, FlowOverflow, FlowReserved,
          FinishSend, InState, TxRuntime, sendVars
    <3>2. CASE FlowControlStep
      BY <2>0, <2>1, <3>2 DEF FlowControlStep, RcvFlowCtrlFrame, TxRuntime
    <3>3. ~(TimerCtrl \/ OtherStep \/ \E m \in Messages : SendNetworkLayer(m))
      BY <2>1 DEF TimerCtrl, SendTimerCtrl, OtherStep, sendVars, SendNetworkLayer
    <3> QED
      BY <3>1, <3>2, <3>3, Steps DEF TrafficNext
  <2>3. N_Bs = Stopped
    BY <2>2 DEF FlowControlTimeout, Timing
  <2>4. ~send.arm /\ sendTimer.N_Bs = Stopped
    BY <2>0, <2>3 DEF N_Bs, Stopped
  <2> QED
    BY <2>0, <2>4 DEF BsInv, Stopped
<1> QED
  BY <1>1, <1>2, <1>3, PTL DEF TrafficSpec, TimeoutBsEarned

-----------------------------------------------------------------------------
(* The separation of consecutive frames: the ticks since the last one and    *)
(* those the timer still runs make up the separation time, which the         *)
(* division by the period rounds down, and the tick on which the timer stops *)
(* rounds up again.                                                          *)
GapInv ==
    /\ gap \in [ticks : Nat, STmin : 0 .. 255]
    /\ send.status # "SEND_CF" => gap = [ticks |-> 0, STmin |-> 0]
    /\ \/ gap.ticks >= gap.STmin
       \/ 2 * (gap.ticks + sendTimer.STmin + 1) >= gap.STmin

LEMMA GapStep ==
  ASSUME IInv, GapInv, TrafficNext
  PROVE  GapInv'
<1>0. /\ send \in TxRuntime /\ sendTimer \in TxTimers /\ sendFC \in FCParam
      /\ gap \in [ticks : Nat, STmin : 0 .. 255] /\ sendTimer.STmin \in Int
  <2>1. send \in TxRuntime /\ sendTimer \in TxTimers /\ sendFC \in FCParam
    BY DEF IInv, SendIInv, SendTypeOK
  <2>2. sendTimer.STmin \in Int
    BY <2>1 DEF TxTimers, Timer, Stopped
  <2> QED
    BY <2>1, <2>2 DEF GapInv
<1>1. Next /\ Observe
  BY DEF TrafficNext
<1>2. ASSUME send'.status # "SEND_CF"
      PROVE  GapInv'
  <2>1. gap' = [ticks |-> 0, STmin |-> 0]
    BY <1>1, <1>2 DEF Observe
  <2> QED
    BY <2>1 DEF GapInv
<1>3. ASSUME gap' = gap, sendTimer'.STmin = sendTimer.STmin, send.status = "SEND_CF"
      PROVE  GapInv'
  BY <1>2, <1>3 DEF GapInv
<1>4. ASSUME gap' = gap, send.status # "SEND_CF"
      PROVE  GapInv'
  <2>1. gap'.ticks >= gap'.STmin /\ gap' = [ticks |-> 0, STmin |-> 0]
    BY <1>4 DEF GapInv
  <2> QED
    BY <1>0, <1>4, <2>1 DEF GapInv
<1>5. ASSUME send'.status = send.status, sendTimer'.STmin = sendTimer.STmin,
             ~TickEnds, ~Sent("CF")
      PROVE  GapInv'
  BY <1>1, <1>2, <1>3, <1>5 DEF Observe
<1>6. CASE SenderStep
  <2>1. CASE SendConsecutiveFrame /\ send'.status = "SEND_CF"
    <3>1. gap' = [ticks |-> 0, STmin |-> sendFC.STmin]
      BY <1>1, <1>6, <2>1, SentBy DEF SenderStep, Observe
    <3>2. sendTimer'.STmin = sendFC.STmin \div 2
      BY <1>0, <2>1 DEF SendConsecutiveFrame, Separation, MAIN_NETWORK_LAYER_PERIOD, TxTimers
    <3>3. sendFC.STmin \in 0 .. 255
      BY <1>0 DEF FCParam
    <3>4. 2 * (0 + (sendFC.STmin \div 2) + 1) >= sendFC.STmin
      BY <3>3
    <3> QED
      BY <2>1, <3>1, <3>2, <3>3, <3>4 DEF GapInv
  <2>2. CASE ~SendConsecutiveFrame /\ send'.status = "SEND_CF"
    <3>1. gap' = gap
      BY <1>1, <1>6, <2>2, SentBy DEF SenderStep, Observe
    <3>2. send.status = "SEND_CF" => sendTimer'.STmin = sendTimer.STmin
      BY <1>0, <1>6, <2>2
      DEF SenderStep, TxPart, SendMultipleFrame, TxNothing, SendSingleFrame,
          StartMultipleFrame, SendFirstFrame, FlowControlPending, FlowControlArrived,
          FlowControlTimeout, SeparationWait, FlowWait, FlowOverflow, FlowReserved,
          FinishSend, InState, TxTimers, sendVars
    <3> QED
      BY <1>3, <1>4, <3>1, <3>2
  <2> QED
    BY <1>2, <2>1, <2>2
<1>7. CASE FlowControlStep
  <2>1. send'.status = send.status /\ sendTimer' = sendTimer /\ ~TickEnds /\ ~Sent("CF")
    BY <1>0, <1>7 DEF FlowControlStep, RcvFlowCtrlFrame, TxRuntime, Sent
  <2> QED
    BY <1>5, <2>1
<1>8. CASE TimerCtrl /\ TickEnds /\ out' = <<>>
  <2>1. send' = send /\ sendTimer'.STmin = Tick(sendTimer.STmin) /\ ~Sent("CF")
    BY <1>8 DEF TimerCtrl, SendTimerCtrl, Sent
  <2>2. CASE send.status = "SEND_CF"
    <3>1. gap' = [gap EXCEPT !.ticks = Count(gap.ticks, gap.STmin)]
      BY <1>0, <1>1, <1>8, <2>1, <2>2 DEF Observe
    <3>2. gap'.ticks = Count(gap.ticks, gap.STmin) /\ gap'.STmin = gap.STmin
      BY <1>0, <3>1
    <3>3. gap.ticks \in Nat /\ gap.STmin \in 0 .. 255
      BY <1>0
    <3>4. sendTimer'.STmin \in Int /\ sendTimer'.STmin >= sendTimer.STmin - 1
      BY <1>0, <2>1 DEF Tick, Stopped
    <3>5. \/ gap'.ticks >= gap'.STmin
          \/ 2 * (gap'.ticks + sendTimer'.STmin + 1) >= gap'.STmin
      BY <1>0, <3>2, <3>3, <3>4 DEF Count, GapInv
    <3>6. gap' \in [ticks : Nat, STmin : 0 .. 255]
      BY <1>0, <3>1, <3>3 DEF Count
    <3> QED
      BY <2>1, <2>2, <3>5, <3>6 DEF GapInv
  <2> QED
    BY <1>2, <2>1, <2>2
<1>9. ASSUME NEW m \in Messages, SendNetworkLayer(m)
      PROVE  GapInv'
  BY <1>0, <1>2, <1>9 DEF SendNetworkLayer, TxRuntime
<1>10. CASE OtherStep
  BY <1>5, <1>10 DEF OtherStep, sendVars
<1> QED
  BY <1>1, <1>6, <1>7, <1>8, <1>9, <1>10, Steps

(* For every separation time a peer may ask for, consecutive frames of a     *)
(* block are at least as far apart (can_tp.c:452, 499).                      *)
THEOREM SeparationHonouredHolds == TrafficSpec => SeparationHonoured
<1> DEFINE Inv == IInv /\ GapInv
<1>1. TrafficInit => Inv
  <2>1. TrafficInit => GapInv
    BY DEF TrafficInit, Init, SendInit, ObserveInit, GapInv
  <2> QED
    BY <2>1, SendInitially, RcvInitially DEF TrafficInit, Init, IInv
<1>2. Inv /\ [TrafficNext]_traffic => Inv'
  <2>1. ASSUME GapInv, UNCHANGED traffic PROVE GapInv'
    BY <2>1 DEF traffic, history, vars, GapInv
  <2> QED
    BY <2>1, GapStep, IInvInductive, TrafficStep
<1>3. Inv /\ [TrafficNext]_traffic =>
        [Sent("CF") => gap.ticks * MAIN_NETWORK_LAYER_PERIOD >= gap.STmin]_traffic
  <2> SUFFICES ASSUME Inv, TrafficNext, Sent("CF")
               PROVE  gap.ticks * MAIN_NETWORK_LAYER_PERIOD >= gap.STmin
    OBVIOUS
  <2>1. TxPart
    BY Steps DEF TrafficNext, SenderStep, FlowControlStep, OtherStep, Sent
  <2>2. sendTimer.STmin = -1
    BY <2>1, SentBy DEF SendConsecutiveFrame, Timing, Stopped
  <2>3. gap.ticks \in Nat /\ gap.STmin \in 0 .. 255
    BY DEF GapInv
  <2> QED
    BY <2>2, <2>3 DEF GapInv, MAIN_NETWORK_LAYER_PERIOD
<1> QED
  BY <1>1, <1>2, <1>3, PTL DEF TrafficSpec, SeparationHonoured

-----------------------------------------------------------------------------
(* The wait for consecutive frames: the ticks without progress and those     *)
(* that N_Cr still runs are never fewer than its timeout.                    *)
CrInv ==
    /\ silence \in 0 .. TIMER_C_R
    /\ rcv.status = "RCV_CF" => \/ silence = TIMER_C_R
                                \/ silence + rcvTimer.N_Cr >= TIMER_C_R

LEMMA CrStep ==
  ASSUME RcvFlow, CrInv, TrafficNext
  PROVE  CrInv'
<1>0. /\ rcv \in RxRuntime /\ rcvTimer \in RxTimers /\ TIMER_C_R \in Nat
      /\ silence \in 0 .. TIMER_C_R /\ rcvTimer.N_Cr \in Int
  BY TimerAssumption DEF RcvFlow, RcvTypeOK, CrInv, RxTimers, Timer, Stopped
<1>1. Next /\ Observe
  BY DEF TrafficNext
<1>2. silence' \in 0 .. TIMER_C_R
  BY <1>0, <1>1 DEF Observe, Count, SilenceBound
<1>3. ASSUME rcv'.status # "RCV_CF" \/ rcvTimer'.N_Cr = TIMER_C_R
      PROVE  CrInv'
  BY <1>0, <1>2, <1>3 DEF CrInv
<1>4. ASSUME UNCHANGED <<rxbuf, rcv>>, rcvTimer'.N_Cr = rcvTimer.N_Cr, ~TickEnds
      PROVE  CrInv'
  <2>1. rcv.status = "RCV_CF" => silence' = silence
    BY <1>1, <1>4 DEF Observe
  <2> QED
    BY <1>2, <1>4, <2>1 DEF CrInv
<1>5. CASE Rx /\ RxPart
  <2>0. ~TickEnds
    BY <1>5 DEF Rx, Step, TickEnds
  <2>1. CASE RcvUnknown \/ FlowControlUnsent \/ ConsecutiveFramePending
    BY <1>4, <2>0, <2>1 DEF RcvUnknown, FlowControlUnsent, ConsecutiveFramePending
  <2>2. CASE Kind = "SF" /\ (RcvSingleFrame \/ RcvSingleFrameError)
    <3>1. rcv.status = "RX_IDLE"
      BY <2>2 DEF Kind, Unknown, RcvFlow, RcvTypeOK
    <3> QED
      BY <1>0, <1>3, <2>2, <3>1 DEF RcvSingleFrame, RcvSingleFrameError, RxRuntime
  <2>3. CASE IdleFirstFrame \/ FirstFrame \/ FirstFrameTooLong \/ FirstFrameTooShort
             \/ FinishReceive
    BY <1>0, <1>3, <2>3
    DEF IdleFirstFrame, FirstFrame, FirstFrameTooLong, FirstFrameTooShort, ResultCleared,
        FinishReceive, InFlow, RxRuntime
  <2>4. CASE FlowControlSent \/ ConsecutiveFrame
    <3>1. rcvTimer'.N_Cr = TIMER_C_R
      BY <2>4 DEF FlowControlSent, ConsecutiveFrame
    <3> QED
      BY <1>3, <3>1
  <2>5. CASE FlowControlLate \/ WrongSequenceNumber \/ ConsecutiveFrameTimeout
    <3>1. rcv'.status = "RCV_OK"
      BY <1>0, <2>5 DEF FlowControlLate, WrongSequenceNumber, ConsecutiveFrameTimeout, RcvOK,
         RxRuntime
    <3> QED
      BY <1>3, <3>1
  <2> QED
    BY <1>5, <2>1, <2>2, <2>3, <2>4, <2>5
    DEF RxPart, RcvMultipleFrame, RcvSingleFrame, RcvSingleFrameError
<1>6. CASE Rx /\ TakeFlowCtrlFrame
  BY <1>4, <1>6 DEF Rx, Step, TickEnds, TakeFlowCtrlFrame
<1>7. CASE Tx \/ Fc
  BY <1>4, <1>7 DEF Tx, Fc, SendFlowCtrlFrame, NoFlowCtrlFrame, rcvVars, Step, TickEnds
<1>8. CASE TimerCtrl
  <2>1. /\ UNCHANGED <<rxbuf, rcv>> /\ TickEnds
        /\ rcvTimer'.N_Cr = Tick(rcvTimer.N_Cr)
    BY <1>8 DEF TimerCtrl, RcvTimerCtrl, Step, TickEnds
  <2>2. CASE rcv.status = "RCV_CF"
    <3>1. silence' = Count(silence, TIMER_C_R)
      BY <1>1, <2>1, <2>2 DEF Observe, SilenceBound
    <3>2. rcvTimer'.N_Cr \in Int /\ rcvTimer'.N_Cr >= rcvTimer.N_Cr - 1
      BY <1>0, <2>1 DEF Tick, Stopped
    <3>3. silence' = TIMER_C_R \/ silence' + rcvTimer'.N_Cr >= TIMER_C_R
      BY <1>0, <2>2, <3>1, <3>2 DEF Count, CrInv
    <3> QED
      BY <1>2, <3>3 DEF CrInv
  <2> QED
    BY <1>3, <2>1, <2>2
<1>9. ASSUME NEW id \in RcvIds, Receive(id)
      PROVE  CrInv'
  <2>1. rcv.status # "RCV_CF" /\ rcv'.status = rcv.status
    BY <1>0, <1>9 DEF Receive, ReceiveNetworkLayer, RcvFlow, FlowUnread, RxRuntime
  <2> QED
    BY <1>3, <2>1
<1>10. ASSUME NEW id \in FFIds, ReceiveFF(id)
       PROVE  CrInv'
  <2>1. rcv'.status # "RCV_CF"
    BY <1>0, <1>10 DEF ReceiveFF, ReceiveFFNetworkLayer, RcvOK, RxRuntime
  <2> QED
    BY <1>3, <2>1
<1>11. CASE (\E m \in Messages : Send(m)) \/ \E f \in Frames : Deliver(f)
  <2>1. UNCHANGED <<rxbuf, rcv, rcvTimer, pc>>
    BY <1>11 DEF Send, Deliver, RxFrameData, rcvVars
  <2> QED
    BY <1>4, <2>1 DEF TickEnds
<1> QED
  BY <1>1, <1>5, <1>6, <1>7, <1>8, <1>9, <1>10, <1>11 DEF Next, MainNetworkLayer, Rx

LEMMA RcvFlowInductive == RcvFlow /\ [TrafficNext]_traffic => RcvFlow'
<1>1. ASSUME RcvFlow, UNCHANGED traffic PROVE RcvFlow'
  BY <1>1 DEF traffic, vars, RcvFlow, RcvTypeOK, PduFromBus, FlowUnread
<1> QED
  BY <1>1, RcvFlowStep DEF TrafficNext

(* For every timeout the receiver gives up a message only after that many    *)
(* ticks without a consecutive frame (can_tp.c:720-729).                     *)
THEOREM TimeoutCrEarnedHolds == TrafficSpec => TimeoutCrEarned
<1> DEFINE Inv == RcvFlow /\ CrInv
<1>1. TrafficInit => Inv
  <2>1. TrafficInit => CrInv
    BY TimerAssumption DEF TrafficInit, Init, RcvInit, ObserveInit, CrInv
  <2> QED
    BY <2>1, RcvFlowInitially DEF TrafficInit
<1>2. Inv /\ [TrafficNext]_traffic => Inv'
  <2>1. ASSUME CrInv, UNCHANGED traffic PROVE CrInv'
    BY <2>1 DEF traffic, history, vars, CrInv
  <2> QED
    BY <2>1, CrStep, RcvFlowInductive
<1>3. Inv /\ [TrafficNext]_traffic =>
        [rcv'.N_result = "N_TIMEOUT_Cr" /\ rcv.status = "RCV_CF" =>
           silence >= TIMER_C_R]_traffic
  <2> SUFFICES ASSUME Inv, TrafficNext, rcv'.N_result = "N_TIMEOUT_Cr",
                      rcv.status = "RCV_CF"
               PROVE  silence >= TIMER_C_R
    OBVIOUS
  <2>0. /\ rcv \in RxRuntime /\ rcvTimer \in RxTimers /\ TIMER_C_R \in Nat
        /\ silence \in 0 .. TIMER_C_R /\ rcv.N_result = "N_INVALID"
    BY TimerAssumption DEF RcvFlow, RcvTypeOK, CrInv, FlowUnread
  <2>1. ConsecutiveFrameTimeout
    <3>1. CASE RxPart
      <4>1. Kind # "SF"
        BY DEF Kind, Unknown, RcvFlow, RcvTypeOK
      <4> QED
        BY <2>0, <3>1, <4>1
        DEF RxPart, RcvMultipleFrame, RcvUnknown, RcvSingleFrame, RcvSingleFrameError,
            IdleFirstFrame, FirstFrame, FirstFrameTooLong, FirstFrameTooShort,
            FlowControlSent, FlowControlLate, FlowControlUnsent, ConsecutiveFrame,
            WrongSequenceNumber, ConsecutiveFramePending, FinishReceive, InFlow, RcvOK,
            RxRuntime
    <3>2. CASE rcv' = rcv
      BY <2>0, <3>2
    <3>3. ASSUME NEW id, Receive(id) \/ ReceiveFF(id)
          PROVE  FALSE
      BY <2>0, <3>3 DEF Receive, ReceiveNetworkLayer, ReceiveFF, ReceiveFFNetworkLayer
    <3> QED
      BY <3>1, <3>2, <3>3
      DEF TrafficNext, Next, MainNetworkLayer, Tx, Fc, SendFlowCtrlFrame, NoFlowCtrlFrame,
          Rx, TakeFlowCtrlFrame, TimerCtrl, RcvTimerCtrl, Send, Deliver, RxFrameData, rcvVars
  <2>2. rcvTimer.N_Cr = -1
    BY <2>1 DEF ConsecutiveFrameTimeout, Timing, Stopped
  <2> QED
    BY <2>0, <2>2 DEF CrInv
<1> QED
  BY <1>1, <1>2, <1>3, PTL DEF TrafficSpec, TimeoutCrEarned

-----------------------------------------------------------------------------
(* The frames of a message.  Until all bytes are sent the place in the       *)
(* message follows from the number of frames that went out, each of them     *)
(* being the one that the segmentation has at its place.                     *)
FrameShape(f) == [type |-> f.type, lo |-> f.lo, data |-> f.data]

WireInv ==
    send.status \in {"WAIT_FC", "SEND_CF", "SEND_OK"} =>
        /\ wire \in Seq(Frame) /\ wire # <<>> /\ wire[1].b1 = txbuf.length % 256
        /\ Len(wire) <= Consecutives(txbuf.length) + 1
        /\ \A i \in 1 .. Len(wire) : FrameShape(wire[i]) = Segmentation(txbuf)[i]
        /\ Sending => send.pos = FF_DATA + CF_DATA * (Len(wire) - 1)
        /\ send.status = "SEND_OK" /\ send.N_result = "N_OK" =>
               Len(wire) = Consecutives(txbuf.length) + 1

LEMMA WireStep ==
  ASSUME IInv, IInv', ResultInv, WireInv, TrafficNext
  PROVE  WireInv'
<1>0. /\ send \in TxRuntime /\ txbuf \in TxBuffer /\ out' \in Seq(Frame) /\ LongMessage
  BY DEF IInv, SendIInv, SendTypeOK
<1>1. Next /\ Observe
  BY DEF TrafficNext
<1>2. ASSUME send'.status \in {"TX_IDLE", "SEND_FF"}
      PROVE  WireInv'
  BY <1>2 DEF WireInv
<1>3. ASSUME ~Sent("FF"), ~Sent("CF"), send'.status # "TX_IDLE" => txbuf' = txbuf,
             send'.status \in {"WAIT_FC", "SEND_CF"} =>
                 /\ send.status \in {"WAIT_FC", "SEND_CF"}
                 /\ send'.pos = send.pos,
             send'.status = "SEND_OK" =>
                 /\ send.status \in {"WAIT_FC", "SEND_CF", "SEND_OK"}
                 /\ send'.N_result = "N_OK" => send.status = "SEND_OK" /\ send.N_result = "N_OK"
      PROVE  WireInv'
  <2> SUFFICES ASSUME send'.status \in {"WAIT_FC", "SEND_CF", "SEND_OK"}
               PROVE  WireInv'
    BY DEF WireInv
  <2>1. wire' = wire /\ txbuf' = txbuf
    BY <1>1, <1>3 DEF Observe
  <2>2. send.status \in {"WAIT_FC", "SEND_CF", "SEND_OK"}
    BY <1>3
  <2>3. Segmentation(txbuf') = Segmentation(txbuf)
    BY <2>1
  <2> QED
    BY <1>3, <2>1, <2>2, <2>3 DEF WireInv, Sending
<1>4. CASE SendFirstFrame /\ SenderStep
  <2>1. Sent("FF") /\ wire' = out' /\ txbuf' = txbuf
    BY <1>1, <1>4, SentBy DEF SenderStep, Observe, SendFirstFrame
  <2> DEFINE f == [type |-> "FF", lo |-> txbuf.length \div 256,
                   b1 |-> txbuf.length % 256, b2 |-> 0, id |-> txbuf.id,
                   data |-> [msg |-> txbuf.msg, pos |-> 0]]
  <2>2. wire' = <<f>>
    BY <1>4, <2>1 DEF SendFirstFrame
  <2>3. FrameShape(f) = Segmentation(txbuf)[1] /\ Consecutives(txbuf.length) \in Nat
    <3>1. txbuf.length \in 0 .. N_DATA_MAX /\ txbuf.length >= CAN_FRAME_SIZE
      BY <1>0, <1>4 DEF SendFirstFrame, InState, TxBuffer
    <3>2. Consecutives(txbuf.length) \in Nat
      BY <3>1, SomeToCome
    <3>3. 1 \in 1 .. Consecutives(txbuf.length) + 1
      BY <3>2
    <3>4. FrameShape(f) = [type |-> "FF", lo |-> txbuf.length \div 256,
                           data |-> [msg |-> txbuf.msg, pos |-> 0]]
      BY DEF FrameShape
    <3> QED
      BY <3>2, <3>3, <3>4 DEF Segmentation
  <2>4. send'.status = "WAIT_FC" /\ send'.pos = FF_DATA
    BY <1>0, <1>4 DEF SendFirstFrame, TxRuntime
  <2>5. f.b1 = txbuf.length % 256
    OBVIOUS
  <2> HIDE DEF f
  <2>6. wire' \in Seq(Frame)
    BY <2>1 DEF IInv, SendIInv, SendTypeOK
  <2>7. /\ Len(wire') = 1 /\ wire' # <<>> /\ wire'[1] = f
        /\ \A i \in 1 .. Len(wire') : i = 1
    BY <2>2
  <2>8. FF_DATA = FF_DATA + CF_DATA * (Len(wire') - 1)
    BY <2>7, Sizes
  <2>9. Len(wire') <= Consecutives(txbuf'.length) + 1
    BY <2>1, <2>3, <2>7
  <2>10. \A i \in 1 .. Len(wire') : FrameShape(wire'[i]) = Segmentation(txbuf')[i]
    BY <2>1, <2>3, <2>7
  <2> QED
    BY <2>1, <2>4, <2>5, <2>6, <2>7, <2>8, <2>9, <2>10 DEF WireInv
<1>5. CASE SendConsecutiveFrame /\ SenderStep
  <2> DEFINE n == Len(wire)
             c == Consecutives(txbuf.length)
  <2>1. wire' = wire \o out' /\ txbuf' = txbuf
    BY <1>1, <1>5, SentBy DEF SenderStep, Observe, SendConsecutiveFrame, Sent
  <2>2. send.status = "SEND_CF"
    BY <1>5 DEF SendConsecutiveFrame, InState
  <2>3. /\ wire \in Seq(Frame) /\ wire # <<>> /\ wire[1].b1 = txbuf.length % 256
        /\ \A i \in 1 .. n : FrameShape(wire[i]) = Segmentation(txbuf)[i]
        /\ send.pos = FF_DATA + CF_DATA * (n - 1)
    BY <2>2 DEF WireInv, Sending
  <2>4. n \in Nat /\ n >= 1
    BY <2>3
  <2> HIDE DEF n
  <2>5. /\ out' = <<out'[1]>> /\ out'[1] \in Frame
        /\ out'[1].type = "CF" /\ out'[1].lo = n % SN_MOD
        /\ out'[1].data = [msg |-> txbuf.msg, pos |-> FF_DATA + CF_DATA * (n - 1)]
        /\ c \in Nat /\ c >= n
        /\ IF send.length <= CF_DATA
           THEN send'.status = "SEND_OK" /\ c = n
           ELSE send'.status \in {"WAIT_FC", "SEND_CF"} /\ send'.pos = FF_DATA + CF_DATA * n
    BY <1>5, <2>3, <2>4, ConsecutiveSent DEF IInv
  <2> DEFINE f == out'[1]
  <2>6. out' = <<f>> /\ f \in Frame
    BY <2>5
  <2> HIDE DEF c
  <2>7. FrameShape(f) = Segmentation(txbuf)[n + 1]
    <3>1. n + 1 \in 1 .. c + 1 /\ n + 1 # 1 /\ (n + 1) - 1 = n /\ (n + 1) - 2 = n - 1
      BY <2>4, <2>5
    <3>2. Segmentation(txbuf)[n + 1] =
            [type |-> "CF", lo |-> ((n + 1) - 1) % SN_MOD,
             data |-> [msg |-> txbuf.msg, pos |-> FF_DATA + CF_DATA * ((n + 1) - 2)]]
      BY <3>1 DEF Segmentation, c
    <3>3. FrameShape(f) = [type |-> "CF", lo |-> n % SN_MOD,
                           data |-> [msg |-> txbuf.msg, pos |-> FF_DATA + CF_DATA * (n - 1)]]
      BY <2>5 DEF FrameShape
    <3> QED
      BY <3>1, <3>2, <3>3
  <2> HIDE DEF f
  <2>8. /\ wire' \in Seq(Frame) /\ wire' # <<>> /\ Len(wire') = n + 1
         /\ \A i \in 1 .. n : wire'[i] = wire[i]
         /\ wire'[n + 1] = f
    <3>1. wire' = Append(wire, f)
      BY <2>1, <2>3, <2>6
    <3> QED
      BY <2>3, <2>4, <2>6, <3>1 DEF n
  <2>9. \A i \in 1 .. Len(wire') : FrameShape(wire'[i]) = Segmentation(txbuf)[i]
    BY <2>3, <2>4, <2>7, <2>8
  <2>10. wire'[1].b1 = txbuf'.length % 256
    BY <2>1, <2>3, <2>4, <2>8
  <2>11. CASE send.length <= CF_DATA
    <3>1. send'.status = "SEND_OK"
      BY <2>5, <2>11
    <3>2. Len(wire') = Consecutives(txbuf'.length) + 1
      BY <2>1, <2>5, <2>8, <2>11 DEF c
    <3>3. Len(wire') <= Consecutives(txbuf'.length) + 1
      BY <2>4, <2>8, <3>2
    <3> QED
      BY <2>1, <2>8, <2>9, <2>10, <3>1, <3>2, <3>3 DEF WireInv, Sending
  <2>12. CASE ~(send.length <= CF_DATA)
    <3>1. send'.status \in {"WAIT_FC", "SEND_CF"} /\ send'.pos = FF_DATA + CF_DATA * n
      BY <2>5, <2>12
    <3>2. Len(wire') <= Consecutives(txbuf'.length) + 1
      BY <2>1, <2>4, <2>5, <2>8 DEF c
    <3>3. send'.pos = FF_DATA + CF_DATA * (Len(wire') - 1)
      BY <2>3, <2>4, <2>8, <3>1, Sizes
    <3> QED
      BY <2>1, <2>8, <2>9, <2>10, <3>1, <3>2, <3>3 DEF WireInv, Sending
  <2> QED
    BY <2>11, <2>12
<1>6. CASE SenderStep /\ ~SendFirstFrame /\ ~SendConsecutiveFrame
  <2>1. ~Sent("FF") /\ ~Sent("CF")
    BY <1>6, SentBy DEF SenderStep
  <2>2. CASE SendSingleFrame \/ FinishSend \/ StartMultipleFrame
    <3>1. SendSingleFrame => send.status = "TX_IDLE"
      BY <1>0, Sizes DEF LongMessage, SendSingleFrame, TxBuffer
    <3> QED
      BY <1>0, <1>2, <2>2, <3>1
      DEF SendSingleFrame, FinishSend, StartMultipleFrame, TxRuntime
  <2>3. CASE TxNothing \/ SeparationWait \/ FlowWait \/ FlowReserved
    BY <1>3, <2>1, <2>3 DEF TxNothing, SeparationWait, FlowWait, FlowReserved, sendVars
  <2>4. CASE FlowControlPending \/ FlowControlArrived
    BY <1>0, <1>3, <2>1, <2>4 DEF FlowControlPending, FlowControlArrived, InState, TxRuntime
  <2>5. CASE FlowControlTimeout \/ FlowOverflow
    BY <1>0, <1>3, <2>1, <2>5 DEF FlowControlTimeout, FlowOverflow, InState, TxRuntime
  <2> QED
    BY <1>6, <2>2, <2>3, <2>4, <2>5 DEF SenderStep, TxPart, SendMultipleFrame
<1>7. CASE FlowControlStep
  <2>1. /\ ~Sent("FF") /\ ~Sent("CF") /\ txbuf' = txbuf
        /\ send'.status = send.status /\ send'.pos = send.pos
        /\ send'.N_result = "N_OK" => send.N_result = "N_OK"
    BY <1>0, <1>7 DEF FlowControlStep, RcvFlowCtrlFrame, TxRuntime, Sent
  <2> QED
    BY <1>3, <2>1
<1>8. CASE TimerCtrl /\ out' = <<>>
  BY <1>3, <1>8 DEF TimerCtrl, SendTimerCtrl, Sent
<1>9. ASSUME NEW m \in Messages, SendNetworkLayer(m)
      PROVE  WireInv'
  BY <1>0, <1>2, <1>9 DEF SendNetworkLayer, TxRuntime
<1>10. CASE OtherStep
  BY <1>3, <1>10 DEF OtherStep, sendVars
<1> QED
  BY <1>1, <1>4, <1>5, <1>6, <1>7, <1>8, <1>9, <1>10, Steps

(* What the invariant says of single frames, said of the sequences.          *)
LEMMA ShapesOfPrefix ==
  ASSUME NEW n \in Nat, wire \in Seq(Frame), Len(wire) <= n + 1,
         Consecutives(txbuf.length) = n,
         \A i \in 1 .. Len(wire) : FrameShape(wire[i]) = Segmentation(txbuf)[i]
  PROVE  /\ IsPrefix(Shape(wire), Segmentation(txbuf))
         /\ Len(wire) = n + 1 => Shape(wire) = Segmentation(txbuf)
<1> DEFINE s == Shape(wire)
           t == Segmentation(txbuf)
           l == Len(wire)
           S == {s[i] : i \in 1 .. l} \union {t[i] : i \in 1 .. n + 1}
<1>0. l \in Nat /\ DOMAIN wire = 1 .. l
  OBVIOUS
<1>1. s = [i \in 1 .. l |-> FrameShape(wire[i])]
  BY <1>0 DEF Shape, FrameShape
<1>2. DOMAIN t = 1 .. n + 1 /\ t = [i \in 1 .. n + 1 |-> t[i]]
  BY DEF Segmentation
<1>3. \A i \in 1 .. l : s[i] = t[i]
  BY <1>1
<1>7. s = [i \in 1 .. l |-> s[i]]
  BY <1>1
<1> HIDE DEF s, t
<1>4. s \in Seq(S) /\ Len(s) = l
  BY <1>0, <1>7
<1>5. t \in Seq(S) /\ Len(t) = n + 1
  BY <1>2
<1> HIDE DEF l, S
<1>6. SubSeq(s, 1, l) = SubSeq(t, 1, l)
  <2>0. \A i \in 1 .. l : s[i] \in S /\ t[i] \in S
    BY <1>0, <1>3, <1>4
  <2>1. /\ SubSeq(s, 1, l) \in Seq(S) /\ Len(SubSeq(s, 1, l)) = l
        /\ \A i \in 1 .. l : SubSeq(s, 1, l)[i] = s[i]
    <3>1. l - 1 + 1 = l /\ \A i \in 1 .. l : 1 + i - 1 = i
      BY <1>0
    <3>2. IF 1 <= l THEN l - 1 + 1 = l ELSE 0 = l
      BY <1>0
    <3> QED
      BY <1>0, <2>0, <3>1, <3>2, SubSeqProperties
  <2>2. /\ SubSeq(t, 1, l) \in Seq(S) /\ Len(SubSeq(t, 1, l)) = l
        /\ \A i \in 1 .. l : SubSeq(t, 1, l)[i] = t[i]
    <3>1. l - 1 + 1 = l /\ \A i \in 1 .. l : 1 + i - 1 = i
      BY <1>0
    <3>2. IF 1 <= l THEN l - 1 + 1 = l ELSE 0 = l
      BY <1>0
    <3> QED
      BY <1>0, <2>0, <3>1, <3>2, SubSeqProperties
  <2> QED
    BY <1>3, <2>1, <2>2, SeqEqual
<1>8. IsPrefix(s, t)
  BY <1>4, <1>5, <1>6 DEF IsPrefix, l
<1>9. l = n + 1 => s = t
  BY <1>3, <1>4, <1>5, SeqEqual
<1> QED
  BY <1>8, <1>9 DEF l, s, t

(* Messages of every length are cut as the receiver expects them, whatever   *)
(* flow control came in between, and are on the bus as a whole when N_OK is  *)
(* reported (can_tp.c:397-542).                                              *)
THEOREM WireIsSegmentationHolds == TrafficSpec => []WireIsSegmentation
<1> DEFINE Inv == IInv /\ ResultInv /\ WireInv
<1>1. TrafficInit => Inv
  <2>1. TrafficInit => ResultInv /\ WireInv
    BY DEF TrafficInit, Init, SendInit, ObserveInit, ResultInv, WireInv
  <2> QED
    BY <2>1, SendInitially, RcvInitially DEF TrafficInit, Init, IInv
<1>2. Inv /\ [TrafficNext]_traffic => Inv'
  <2>1. ASSUME ResultInv, WireInv, UNCHANGED traffic PROVE (ResultInv /\ WireInv)'
    <3>1. UNCHANGED <<txbuf, send, wire>>
      BY <2>1 DEF traffic, history, vars
    <3>2. Segmentation(txbuf') = Segmentation(txbuf)
      BY <3>1
    <3> QED
      BY <2>1, <3>1, <3>2 DEF ResultInv, WireInv, Sending
  <2>2. TrafficNext => Next
    BY DEF TrafficNext
  <2> QED
    BY <2>1, <2>2, WireStep, ResultStep, IInvInductive, TrafficStep
<1>3. Inv => WireIsSegmentation
  <2> SUFFICES ASSUME Inv, send.status \in {"WAIT_FC", "SEND_CF", "SEND_OK"}
               PROVE  /\ wire # <<>> /\ wire[1].b1 = txbuf.length % 256
                      /\ IsPrefix(Shape(wire), Segmentation(txbuf))
                      /\ (send.status = "SEND_OK" /\ send.N_result = "N_OK") =>
                             Shape(wire) = Segmentation(txbuf)
    BY DEF WireIsSegmentation
  <2>1. Consecutives(txbuf.length) \in Nat
    <3>1. txbuf.length \in 0 .. N_DATA_MAX /\ txbuf.length >= CAN_FRAME_SIZE
      BY DEF IInv, SendIInv, SendTypeOK, LongMessage, TxBuffer
    <3> QED
      BY <3>1, SomeToCome
  <2> QED
    BY <2>1, ShapesOfPrefix DEF WireInv
<1> QED
  BY <1>1, <1>2, <1>3, PTL DEF TrafficSpec
=============================================================================

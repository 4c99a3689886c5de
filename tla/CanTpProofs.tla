---------------------------- MODULE CanTpProofs ----------------------------
(* Proofs about the transport layer of one node, for every value of the      *)
(* constants.                                                                *)
EXTENDS CanTp, TLAPS

(* Division with remainder, which the counting of frames rests on.           *)
LEMMA Multiple ==
  ASSUME NEW F \in Nat, F > 0, NEW d \in Int, d > 0
  PROVE  F * d >= F
<1>1. d - 1 \in Nat
  OBVIOUS
<1>2. F * (d - 1) >= 0
  BY <1>1
<1>3. F * d = F * (d - 1) + F
  OBVIOUS
<1> QED
  BY <1>2, <1>3

LEMMA Euclid ==
  ASSUME NEW F \in Nat, F > 0, NEW m \in Nat
  PROVE  /\ m \div F \in Nat
         /\ m % F \in 0 .. F - 1
         /\ m = F * (m \div F) + (m % F)
<1>1. m \div F \in Nat
  OBVIOUS
<1>2. m % F \in 0 .. F - 1
  OBVIOUS
<1>3. m = F * (m \div F) + (m % F)
  BY Z3
<1> QED
  BY <1>1, <1>2, <1>3

(* The remainder is determined by the number.                                *)
LEMMA Unique ==
  ASSUME NEW F \in Nat, F > 0, NEW q \in Nat, NEW r \in 0 .. F - 1,
         NEW p \in Nat, NEW s \in 0 .. F - 1, F * q + r = F * p + s
  PROVE  r = s
<1>1. F * (q - p) = s - r
  OBVIOUS
<1>4. CASE q - p > 0
  <2>2. F * (q - p) >= F
    BY <1>4, Multiple
  <2> QED
    BY <1>1, <2>2
<1>5. CASE p - q > 0
  <2>1. F * (p - q) = r - s
    OBVIOUS
  <2>2. F * (p - q) >= F
    BY <1>5, Multiple
  <2> QED
    BY <2>1, <2>2
<1>6. CASE p = q
  BY <1>6
<1> QED
  BY <1>4, <1>5, <1>6

LEMMA ModSuccessor ==
  ASSUME NEW F \in Nat, F > 0, NEW n \in Nat
  PROVE  (n + 1) % F = IF n % F = F - 1 THEN 0 ELSE (n % F) + 1
<1> DEFINE q == n \div F
           r == n % F
<1>1. q \in Nat /\ r \in 0 .. F - 1 /\ n = F * q + r
  BY Euclid
<1> DEFINE p == (n + 1) \div F
           s == (n + 1) % F
<1>2. p \in Nat /\ s \in 0 .. F - 1 /\ n + 1 = F * p + s
  BY Euclid
<1> HIDE DEF q, r, p, s
<1>3. CASE r = F - 1
  <2>1. F * (q + 1) = F * q + F
    BY <1>1
  <2>2. F * (q + 1) + 0 = F * p + s
    BY <1>1, <1>2, <1>3, <2>1
  <2>4. q + 1 \in Nat /\ 0 \in 0 .. F - 1
    BY <1>1
  <2>3. s = 0
    BY <1>2, <2>2, <2>4, Unique
  <2> QED
    BY <1>3, <2>3 DEF r, s
<1>4. CASE r # F - 1
  <2>1. F * q + (r + 1) = F * p + s
    BY <1>1, <1>2
  <2>2. r + 1 \in 0 .. F - 1
    BY <1>1, <1>4
  <2>3. s = r + 1
    BY <1>1, <1>2, <2>1, <2>2, Unique
  <2> QED
    BY <1>4, <2>3 DEF r, s
<1> QED
  BY <1>3, <1>4

(* Counting frames modulo SN_MOD is what NextSN does (can_tp.c:455-458,      *)
(* 644-647).                                                                 *)
LEMMA NextSNCounts ==
  ASSUME NEW n \in Nat
  PROVE  NextSN(n % SN_MOD) = (n + 1) % SN_MOD
<1>1. SN_MOD \in Nat /\ SN_MOD > 0
  BY SequenceAssumption
<1>2. n % SN_MOD \in 0 .. SN_MOD - 1
  BY <1>1, Euclid
<1>3. (n + 1) % SN_MOD = IF n % SN_MOD = SN_MOD - 1 THEN 0 ELSE (n % SN_MOD) + 1
  BY <1>1, ModSuccessor
<1>4. (n % SN_MOD) + 1 > SN_MOD - 1 <=> n % SN_MOD = SN_MOD - 1
  BY <1>1, <1>2
<1> QED
  BY <1>3, <1>4 DEF NextSN

(* Dummy payloads and identifiers exist.                                     *)
LEMMA Defaults == NoData \in Data /\ NoId \in Ids /\ NoFrame \in Frame
BY DataAssumption, BufferAssumption DEF NoData, NoId, NoFrame, Data, Frame, FrameTypes

-----------------------------------------------------------------------------
(* The sending half.  The type of pos and length needs the accounting, and   *)
(* the accounting needs that the message is not replaced or sent as a single *)
(* frame under way: the three are inductive together.                        *)
SendIInv == SendTypeOK /\ LongMessage /\ SendAccounting

LEMMA Sizes == CAN_FRAME_SIZE = 8 /\ FF_DATA = 6 /\ CF_DATA = 7
BY DEF CAN_FRAME_SIZE, FF_DATA, CF_DATA

LEMMA Zeros == 0 \in 0 .. N_DATA_MAX /\ 0 \in 0 .. SN_MOD - 1
BY BufferAssumption, SequenceAssumption

(* No place in the buffer is beyond what a frame can name.                   *)
LEMMA InBuffer == ASSUME NEW n \in 0 .. N_DATA_MAX PROVE n \in 0 .. 4095
BY BufferAssumption

(* The length of a first frame fits its twelve bits.                         *)
LEMMA TwelveBits ==
  ASSUME NEW l \in 0 .. N_DATA_MAX
  PROVE  l \div 256 \in 0 .. 15 /\ l % 256 \in 0 .. 255
<1>1. l \in 0 .. 4095
  BY InBuffer
<1>2. l \div 256 \in 0 .. 15
  BY <1>1
<1>3. l % 256 \in 0 .. 255
  BY <1>1
<1> QED
  BY <1>2, <1>3

(* A frame that is not the last takes CF_DATA bytes and leaves some.         *)
LEMMA FrameTaken ==
  ASSUME NEW l \in 0 .. N_DATA_MAX, ~(l <= CF_DATA)
  PROVE  l - CF_DATA \in 0 .. N_DATA_MAX /\ l - CF_DATA > 0
<1>1. l - CF_DATA \in 0 .. N_DATA_MAX
  BY Sizes, BufferAssumption
<1>2. l - CF_DATA > 0
  BY Sizes
<1> QED
  BY <1>1, <1>2

LEMMA MessageType == ASSUME NEW m \in Messages PROVE m \in TxBuffer
<1>1. m \in [length : 1 .. N_DATA_MAX, id : Ids, msg : Msgs]
  BY MessagesAssumption
<1>2. \A l \in 1 .. N_DATA_MAX : l \in 0 .. N_DATA_MAX
  BY BufferAssumption
<1> QED
  BY <1>1, <1>2 DEF TxBuffer

LEMMA SendInitially == Init => SendIInv
<1> SUFFICES ASSUME Init
             PROVE  SendIInv
  OBVIOUS
<1> USE DEF Init, SendInit
<1>1. txbuf \in TxBuffer
  BY Zeros, Defaults DEF TxBuffer, Data, NoData
<1>2. send \in TxRuntime
  BY Zeros, Defaults DEF TxRuntime, TxStates, SendResults
<1>3. sendFC \in FCParam
  BY DEF FCParam, CTS
<1>4. sendTimer \in TxTimers
  BY TimerAssumption DEF TxTimers, Timer, Stopped
<1>5. out \in Seq(Frame)
  OBVIOUS
<1>6. LongMessage /\ SendAccounting
  BY DEF LongMessage, SendAccounting, Sending
<1> QED
  BY <1>1, <1>2, <1>3, <1>4, <1>5, <1>6 DEF SendIInv, SendTypeOK

(* The types alone need less: that what is sent and what is left of a        *)
(* message under way never were more than the buffer holds, whatever became  *)
(* of Tx_buf since.                                                          *)
Room == Sending => send.length > 0 /\ send.pos + send.length <= N_DATA_MAX

(* The steps of main_network_layer that may write a frame.                   *)
LEMMA TxTypes == ASSUME SendTypeOK, Room, TxPart PROVE SendTypeOK' /\ Room'
<1>0. /\ txbuf \in TxBuffer /\ send \in TxRuntime /\ sendFC \in FCParam
      /\ sendTimer \in TxTimers
  BY DEF SendTypeOK
<1>1. ASSUME UNCHANGED sendVars, out' = <<>> PROVE SendTypeOK' /\ Room'
  BY <1>1 DEF SendTypeOK, sendVars, Room, Sending
<1>2. ASSUME out' = <<>>, UNCHANGED <<txbuf, sendFC, sendTimer>>, send' \in TxRuntime,
             Room'
      PROVE  SendTypeOK' /\ Room'
  BY <1>0, <1>2 DEF SendTypeOK
<1>3. txbuf.length \in 0 .. N_DATA_MAX /\ txbuf.id \in Ids /\ txbuf.msg \in Msgs
  BY <1>0 DEF TxBuffer
<1>4. CASE SendSingleFrame
  <2>1. send' \in TxRuntime
    BY <1>0, <1>3, <1>4 DEF SendSingleFrame, TxRuntime, SendResults
  <2>2. txbuf' \in TxBuffer
    BY <1>0, <1>4, Zeros DEF SendSingleFrame, TxBuffer
  <2>3. txbuf.length < 8
    BY <1>3, <1>4, Sizes DEF SendSingleFrame
  <2>4. send'.status = send.status /\ send'.pos = send.pos /\ send'.length = send.length
    BY <1>0, <1>4 DEF SendSingleFrame, TxRuntime
  <2>5. Room'
    BY <2>4 DEF Room, Sending
  <2>6. [msg |-> txbuf.msg, pos |-> 0] \in Data
    BY <1>3 DEF Data
  <2>7. txbuf.length \in 0 .. 15
    BY <1>3, <2>3
  <2>8. out' \in Seq(Frame)
    BY <1>3, <1>4, <2>6, <2>7 DEF SendSingleFrame, Frame, FrameTypes
  <2> QED
    BY <1>0, <1>4, <2>1, <2>2, <2>5, <2>8 DEF SendTypeOK, SendSingleFrame
<1>5. CASE StartMultipleFrame
  <2>1. send' \in TxRuntime /\ send'.status = "SEND_FF"
    BY <1>0, <1>3, <1>5 DEF StartMultipleFrame, TxRuntime, TxStates
  <2>2. Room'
    BY <2>1 DEF Room, Sending
  <2> QED
    BY <1>2, <1>5, <2>1, <2>2 DEF StartMultipleFrame
<1>6. CASE SendFirstFrame
  <2>1. txbuf.length >= 8
    BY <1>6, Sizes DEF SendFirstFrame, InState
  <2>2. txbuf.length - FF_DATA \in 0 .. N_DATA_MAX
    BY <1>3, <2>1, Sizes, BufferAssumption
  <2>3. FF_DATA \in 0 .. N_DATA_MAX
    BY Sizes, BufferAssumption
  <2>4. 1 \in 0 .. SN_MOD - 1
    BY SequenceAssumption
  <2>5. send' \in TxRuntime
    BY <1>0, <1>6, <2>2, <2>3, <2>4 DEF SendFirstFrame, TxRuntime, TxStates
  <2>6. [msg |-> txbuf.msg, pos |-> 0] \in Data
    BY <1>3 DEF Data
  <2>7. txbuf.length \div 256 \in 0 .. 15 /\ txbuf.length % 256 \in 0 .. 255
    BY <1>3, TwelveBits
  <2>8. out' \in Seq(Frame)
    BY <1>3, <1>6, <2>6, <2>7 DEF SendFirstFrame, Frame, FrameTypes
  <2>9. send'.pos = FF_DATA /\ send'.length = txbuf.length - FF_DATA
    BY <1>0, <1>6 DEF SendFirstFrame, TxRuntime
  <2>10. Room'
    BY <1>3, <2>1, <2>9, Sizes DEF Room
  <2> QED
    BY <1>0, <1>6, <2>5, <2>8, <2>10 DEF SendTypeOK, SendFirstFrame
<1>7. ASSUME NEW st \in TxStates, NEW r \in SendResults, NEW a \in BOOLEAN,
             send' = [send EXCEPT !.status = st, !.N_result = r, !.arm = a],
             st \in {"WAIT_FC", "SEND_CF"} => Sending
      PROVE  send' \in TxRuntime /\ Room'
  <2>1. send' \in TxRuntime
    BY <1>0, <1>7 DEF TxRuntime
  <2>2. send'.status = st /\ send'.pos = send.pos /\ send'.length = send.length
    BY <1>0, <1>7 DEF TxRuntime
  <2>3. Room'
    BY <1>7, <2>2 DEF Room, Sending
  <2> QED
    BY <2>1, <2>3
<1>8. N_Bs \in Timer(TIMER_B_S)
  BY <1>0, TimerAssumption DEF N_Bs, TxTimers, Timer, Stopped
<1>9. CASE FlowControlPending
  <2>1. send' = [send EXCEPT !.status = send.status, !.N_result = send.N_result,
                             !.arm = FALSE]
    BY <1>0, <1>9 DEF FlowControlPending, TxRuntime
  <2>2. send.status = "WAIT_FC" /\ send.N_result \in SendResults
    BY <1>0, <1>9 DEF FlowControlPending, InState, TxRuntime
  <2>3. send' \in TxRuntime /\ Room'
    BY <1>7, <2>1, <2>2 DEF TxStates, Sending
  <2>4. sendTimer' \in TxTimers
    BY <1>0, <1>8, <1>9 DEF FlowControlPending, TxTimers
  <2> QED
    BY <1>0, <1>9, <2>3, <2>4 DEF FlowControlPending, SendTypeOK
<1>10. CASE FlowControlArrived
  <2>1. send' = [send EXCEPT !.status = "SEND_CF", !.N_result = send.N_result,
                             !.arm = TRUE]
    BY <1>0, <1>10 DEF FlowControlArrived, TxRuntime
  <2>2. send.status = "WAIT_FC" /\ send.N_result \in SendResults
    BY <1>0, <1>10 DEF FlowControlArrived, InState, TxRuntime
  <2>3. send' \in TxRuntime /\ Room'
    BY <1>7, <2>1, <2>2 DEF TxStates, Sending
  <2>4. sendTimer' \in TxTimers
    BY <1>8, <1>10 DEF FlowControlArrived, TxTimers, Timer, Stopped
  <2> QED
    BY <1>0, <1>10, <2>3, <2>4 DEF FlowControlArrived, SendTypeOK
<1>11. CASE FlowControlTimeout
  <2>1. send' = [send EXCEPT !.status = "SEND_OK", !.N_result = "N_TIMEOUT_Bs",
                             !.arm = TRUE]
    BY <1>0, <1>11 DEF FlowControlTimeout, TxRuntime
  <2>2. send' \in TxRuntime /\ Room'
    BY <1>7, <2>1 DEF TxStates, SendResults
  <2> QED
    BY <1>2, <1>11, <2>2 DEF FlowControlTimeout
<1>12. CASE FlowOverflow
  <2>1. send' = [send EXCEPT !.status = "SEND_OK", !.N_result = "N_BUFFER_OVFLW",
                             !.arm = send.arm]
    BY <1>0, <1>12 DEF FlowOverflow, TxRuntime
  <2>2. send.arm \in BOOLEAN
    BY <1>0 DEF TxRuntime
  <2>3. send' \in TxRuntime /\ Room'
    BY <1>7, <2>1, <2>2 DEF TxStates, SendResults
  <2> QED
    BY <1>2, <1>12, <2>3 DEF FlowOverflow
<1>13. CASE FlowWait
  <2>1. sendTimer' \in TxTimers
    <3>1. TIMER_B_S \in Timer(TIMER_B_S)
      BY TimerAssumption DEF Timer, Stopped
    <3> QED
      BY <1>0, <1>13, <3>1 DEF FlowWait, TxTimers
  <2> QED
    BY <1>0, <1>13, <2>1 DEF FlowWait, SendTypeOK, Room, Sending
<1>14. CASE FinishSend
  <2>1. send' \in TxRuntime /\ send'.status = "TX_IDLE"
    BY <1>0, <1>14, Zeros DEF FinishSend, TxRuntime, TxStates
  <2>2. txbuf' \in TxBuffer
    BY <1>0, <1>14, Zeros DEF FinishSend, TxBuffer
  <2>3. sendFC' \in FCParam
    BY <1>0, <1>14 DEF FinishSend, FCParam
  <2>4. sendTimer' \in TxTimers
    BY <1>14, TimerAssumption DEF FinishSend, TxTimers, Timer, Stopped
  <2>5. Room'
    BY <2>1 DEF Room, Sending
  <2>6. out' \in Seq(Frame)
    BY <1>14 DEF FinishSend
  <2> QED
    BY <2>1, <2>2, <2>3, <2>4, <2>5, <2>6 DEF SendTypeOK
<1>15. CASE SendConsecutiveFrame
  <2>1. send.status = "SEND_CF"
    BY <1>15 DEF SendConsecutiveFrame, InState
  <2>2. send.length > 0 /\ send.pos + send.length <= N_DATA_MAX
    BY <2>1 DEF Room, Sending
  <2>3. /\ send.length \in 0 .. N_DATA_MAX /\ send.pos \in 0 .. N_DATA_MAX
        /\ send.CF_SN \in 0 .. SN_MOD - 1
    BY <1>0 DEF TxRuntime
  <2>4. NextSN(send.CF_SN) \in 0 .. SN_MOD - 1
    BY <2>3, SequenceAssumption DEF NextSN
  <2>5. sendFC' \in FCParam
    <3>1. sendFC.BS \in 0 .. 255 /\ DecByte(sendFC.BS) \in 0 .. 255
      BY <1>0 DEF FCParam, DecByte
    <3> DEFINE v == sendFC.is_valid /\ ~(sendFC.BS = 1)
    <3>2. sendFC' = [sendFC EXCEPT !.BS = DecByte(@), !.is_valid = v]
      BY <1>0, <1>15 DEF SendConsecutiveFrame, FCParam
    <3>3. v \in BOOLEAN
      OBVIOUS
    <3> HIDE DEF v
    <3> QED
      BY <1>0, <3>1, <3>2, <3>3 DEF FCParam
  <2>6. sendTimer' \in TxTimers
    <3>1. sendFC.STmin \in 0 .. 255
      BY <1>0 DEF FCParam
    <3>2. sendFC.STmin \div MAIN_NETWORK_LAYER_PERIOD \in Timer(127)
      BY <3>1 DEF MAIN_NETWORK_LAYER_PERIOD, Timer, Stopped
    <3> QED
      BY <1>0, <1>15, <3>2 DEF SendConsecutiveFrame, Separation, TxTimers
  <2>7. out' \in Seq(Frame)
    <3>1. Segment \in Data
      <4>1. PICK p \in 0 .. N_DATA_MAX : send.pos = p
        BY <2>3
      <4>2. p \in 0 .. 4095
        BY InBuffer
      <4> QED
        BY <1>3, <4>1, <4>2 DEF Segment, Data
    <3>2. send.CF_SN \in 0 .. 15
      BY <2>3, SequenceAssumption
    <3> QED
      BY <1>3, <1>15, <3>1, <3>2, DataAssumption
      DEF SendConsecutiveFrame, Frame, FrameTypes
  <2>8. txbuf' = txbuf
    BY <1>15 DEF SendConsecutiveFrame
  <2>9. CASE send.length <= CF_DATA
    <3>1. send' = [send EXCEPT !.CF_SN = NextSN(@), !.status = "SEND_OK",
                               !.N_result = "N_OK"]
      BY <1>15, <2>9 DEF SendConsecutiveFrame
    <3>2. send' \in TxRuntime /\ send'.status = "SEND_OK"
      BY <1>0, <2>4, <3>1 DEF TxRuntime, TxStates, SendResults
    <3> QED
      BY <1>0, <2>5, <2>6, <2>7, <2>8, <3>2 DEF SendTypeOK, Room, Sending
  <2>10. CASE ~(send.length <= CF_DATA)
    <3> DEFINE st == IF sendFC.BS = 1 THEN "WAIT_FC" ELSE send.status
    <3>1. send' = [send EXCEPT !.CF_SN = NextSN(@), !.status = st,
                               !.pos = @ + CF_DATA, !.length = @ - CF_DATA]
      BY <1>0, <1>15, <2>10 DEF SendConsecutiveFrame, TxRuntime
    <3>2. /\ send.length - CF_DATA \in 0 .. N_DATA_MAX
          /\ send.length - CF_DATA > 0
      BY <2>3, <2>10, FrameTaken
    <3>3. send.pos + CF_DATA \in 0 .. N_DATA_MAX
      BY <2>2, <2>3, <2>10, Sizes, BufferAssumption
    <3>4. st \in TxStates
      BY <2>1 DEF TxStates
    <3> HIDE DEF st
    <3>5. send' \in TxRuntime
      BY <1>0, <2>4, <3>1, <3>2, <3>3, <3>4 DEF TxRuntime
    <3>6. /\ send'.pos = send.pos + CF_DATA
          /\ send'.length = send.length - CF_DATA
      BY <1>0, <3>1 DEF TxRuntime
    <3>7. send'.pos + send'.length = send.pos + send.length
      BY <2>3, <3>6, Sizes
    <3>8. Room'
      BY <2>2, <3>2, <3>6, <3>7 DEF Room
    <3> QED
      BY <1>0, <2>2, <2>5, <2>6, <2>7, <2>8, <3>2, <3>5, <3>8 DEF SendTypeOK
  <2> QED
    BY <2>9, <2>10
<1> QED
  BY <1>1, <1>4, <1>5, <1>6, <1>9, <1>10, <1>11, <1>12, <1>13, <1>14, <1>15
  DEF TxPart, SendMultipleFrame, TxNothing, SeparationWait, FlowReserved

LEMMA RoomLeft == SendIInv => Room
<1> SUFFICES ASSUME SendIInv, Sending
             PROVE  send.length > 0 /\ send.pos + send.length <= N_DATA_MAX
  BY DEF Room
<1>1. send.length > 0 /\ send.pos + send.length = txbuf.length
  BY DEF SendIInv, SendAccounting
<1>2. txbuf.length \in 0 .. N_DATA_MAX
  BY DEF SendIInv, SendTypeOK, TxBuffer
<1> QED
  BY <1>1, <1>2

LEMMA TxKeeps == ASSUME SendIInv, TxPart PROVE SendIInv'
<1>0. /\ txbuf \in TxBuffer /\ send \in TxRuntime /\ LongMessage /\ SendAccounting
  BY DEF SendIInv, SendTypeOK
<1>1. SendTypeOK'
  BY TxTypes, RoomLeft DEF SendIInv
<1>2. ASSUME LongMessage', SendAccounting'
      PROVE  SendIInv'
  BY <1>1, <1>2 DEF SendIInv
<1>3. txbuf.length \in 0 .. N_DATA_MAX
  BY <1>0 DEF TxBuffer
<1>4. CASE SendSingleFrame
  <2>1. send.status = "TX_IDLE"
    BY <1>0, <1>3, <1>4, Sizes DEF LongMessage, SendSingleFrame
  <2>2. send'.status = "TX_IDLE"
    BY <1>0, <1>4, <2>1 DEF SendSingleFrame, TxRuntime
  <2> QED
    BY <1>2, <2>2 DEF LongMessage, SendAccounting, Sending
<1>5. CASE StartMultipleFrame
  <2>1. send'.status = "SEND_FF"
    BY <1>0, <1>5 DEF StartMultipleFrame, TxRuntime
  <2>2. LongMessage'
    BY <1>5 DEF StartMultipleFrame, InState, LongMessage
  <2> QED
    BY <1>2, <2>1, <2>2 DEF SendAccounting, Sending
<1>6. CASE SendFirstFrame
  <2>1. LongMessage'
    BY <1>6 DEF SendFirstFrame, InState, LongMessage
  <2>2. /\ send'.pos = FF_DATA /\ send'.length = txbuf.length - FF_DATA
        /\ send'.CF_SN = 1 /\ txbuf' = txbuf
    BY <1>0, <1>6 DEF SendFirstFrame, TxRuntime
  <2>3. send'.pos = FF_DATA + CF_DATA * 0 /\ 1 = (0 + 1) % SN_MOD
    BY <2>2, Sizes, SequenceAssumption
  <2>4. txbuf.length >= 8
    BY <1>6, Sizes DEF SendFirstFrame, InState
  <2>5. send'.pos + send'.length = txbuf'.length /\ send'.length > 0
    BY <1>3, <2>2, <2>4, Sizes
  <2>6. SendAccounting'
    BY <2>2, <2>3, <2>5, Zeros DEF SendAccounting
  <2> QED
    BY <1>2, <2>1, <2>6
<1>7. ASSUME UNCHANGED txbuf, send.status # "TX_IDLE",
             send'.status \in {"WAIT_FC", "SEND_CF"} =>
                 /\ Sending /\ send'.pos = send.pos
                 /\ send'.length = send.length /\ send'.CF_SN = send.CF_SN
      PROVE  SendIInv'
  <2>1. LongMessage'
    BY <1>0, <1>7 DEF LongMessage
  <2>2. SendAccounting'
    BY <1>0, <1>7 DEF SendAccounting, Sending
  <2> QED
    BY <1>2, <2>1, <2>2
<1>8. CASE FlowControlPending \/ FlowControlArrived \/ FlowWait
  BY <1>0, <1>7, <1>8
  DEF FlowControlPending, FlowControlArrived, FlowWait, InState, TxRuntime, Sending
<1>9. CASE FlowControlTimeout \/ FlowOverflow
  BY <1>0, <1>7, <1>9 DEF FlowControlTimeout, FlowOverflow, InState, TxRuntime
<1>10. CASE FinishSend
  <2>1. send'.status = "TX_IDLE"
    BY <1>0, <1>10 DEF FinishSend, TxRuntime
  <2> QED
    BY <1>2, <2>1 DEF LongMessage, SendAccounting, Sending
<1>11. CASE SendConsecutiveFrame
  <2>1. send.status = "SEND_CF" /\ txbuf' = txbuf
    BY <1>11 DEF SendConsecutiveFrame, InState
  <2>2. PICK k \in 0 .. N_DATA_MAX :
           /\ send.pos = FF_DATA + CF_DATA * k
           /\ send.pos + send.length = txbuf.length
           /\ send.length > 0
           /\ send.CF_SN = (k + 1) % SN_MOD
    BY <1>0, <2>1 DEF SendAccounting, Sending
  <2>3. send.length \in 0 .. N_DATA_MAX
    BY <1>0 DEF TxRuntime
  <2>4. NextSN(send.CF_SN) = (k + 2) % SN_MOD
    <3>1. k + 1 \in Nat /\ (k + 1) + 1 = k + 2
      BY BufferAssumption
    <3> QED
      BY <2>2, <3>1, NextSNCounts
  <2>5. LongMessage'
    BY <1>0, <2>1 DEF LongMessage
  <2>6. CASE send.length <= CF_DATA
    <3>1. send'.status = "SEND_OK"
      BY <1>0, <1>11, <2>6 DEF SendConsecutiveFrame, TxRuntime
    <3> QED
      BY <1>2, <2>5, <3>1 DEF SendAccounting, Sending
  <2>7. CASE ~(send.length <= CF_DATA)
    <3>1. /\ send'.pos = send.pos + CF_DATA
          /\ send'.length = send.length - CF_DATA
          /\ send'.CF_SN = NextSN(send.CF_SN)
      BY <1>0, <1>11, <2>7 DEF SendConsecutiveFrame, TxRuntime
    <3>2. send.length - CF_DATA > 0
      BY <2>3, <2>7, FrameTaken
    <3>3. send'.pos = FF_DATA + CF_DATA * (k + 1)
      BY <2>2, <3>1, Sizes
    <3>4. k + 1 \in 0 .. N_DATA_MAX
      BY <1>3, <2>2, <2>3, <2>7, Sizes, BufferAssumption
    <3>5. send'.pos + send'.length = txbuf'.length /\ send'.length > 0
      BY <1>3, <2>1, <2>2, <2>3, <3>1, <3>2, Sizes
    <3>6. send'.CF_SN = ((k + 1) + 1) % SN_MOD
      BY <2>4, <3>1
    <3>7. SendAccounting'
      BY <3>3, <3>4, <3>5, <3>6 DEF SendAccounting
    <3> QED
      BY <1>2, <2>5, <3>7
  <2> QED
    BY <2>6, <2>7
<1>12. CASE UNCHANGED sendVars
  BY <1>0, <1>2, <1>12 DEF sendVars, LongMessage, SendAccounting, Sending
<1> QED
  BY <1>4, <1>5, <1>6, <1>8, <1>9, <1>10, <1>11, <1>12
  DEF TxPart, SendMultipleFrame, TxNothing, SeparationWait, FlowReserved

(* A message with n of its consecutive frames sent and bytes left needs more *)
(* of them.                                                                  *)
LEMMA MoreToCome ==
  ASSUME NEW l \in 0 .. N_DATA_MAX, NEW r \in 1 .. N_DATA_MAX, NEW n \in Nat,
         FF_DATA + CF_DATA * n + r = l
  PROVE  /\ Consecutives(l) \in Nat /\ Consecutives(l) >= n + 1
         /\ r <= CF_DATA => Consecutives(l) = n + 1
<1> DEFINE q == l \div 7
<1>1. l \in Nat /\ r \in Nat /\ r >= 1 /\ l = 6 + 7 * n + r
  BY Sizes, BufferAssumption
<1>2. q \in Nat /\ l % 7 \in 0 .. 6 /\ l = 7 * q + (l % 7)
  BY <1>1, Euclid
<1>3. Consecutives(l) = q
  <2>1. l - FF_DATA + CF_DATA - 1 = l
    BY <1>1, Sizes
  <2> QED
    BY <2>1, Sizes DEF Consecutives
<1> HIDE DEF q
<1>4. q >= n + 1
  BY <1>1, <1>2
<1>5. r <= 7 => q = n + 1
  BY <1>1, <1>2
<1> QED
  BY <1>2, <1>3, <1>4, <1>5, Sizes

LEMMA SomeToCome ==
  ASSUME NEW l \in 0 .. N_DATA_MAX, l >= CAN_FRAME_SIZE
  PROVE  Consecutives(l) \in Nat
<1>1. l - FF_DATA \in 1 .. N_DATA_MAX /\ FF_DATA + CF_DATA * 0 + (l - FF_DATA) = l
  BY Sizes, BufferAssumption
<1> QED
  BY <1>1, MoreToCome

(* A consecutive frame is the one after those that went out before, and the  *)
(* last if no more than its data is left; while there is more, the position  *)
(* moves on by a frame.                                                      *)
LEMMA ConsecutiveSent ==
  ASSUME SendIInv, SendIInv', SendConsecutiveFrame,
         NEW n \in Nat, n >= 1, send.pos = FF_DATA + CF_DATA * (n - 1)
  PROVE  /\ out' = <<out'[1]>> /\ out'[1] \in Frame
         /\ out'[1].type = "CF" /\ out'[1].lo = n % SN_MOD
         /\ out'[1].data = [msg |-> txbuf.msg, pos |-> FF_DATA + CF_DATA * (n - 1)]
         /\ Consecutives(txbuf.length) \in Nat /\ Consecutives(txbuf.length) >= n
         /\ IF send.length <= CF_DATA
            THEN send'.status = "SEND_OK" /\ Consecutives(txbuf.length) = n
            ELSE /\ send'.status \in {"WAIT_FC", "SEND_CF"}
                 /\ send'.pos = FF_DATA + CF_DATA * n
<1>0. send \in TxRuntime /\ txbuf \in TxBuffer /\ send.status = "SEND_CF"
  BY DEF SendIInv, SendTypeOK, SendConsecutiveFrame, InState
<1>1. PICK k \in 0 .. N_DATA_MAX :
         /\ send.pos = FF_DATA + CF_DATA * k
         /\ send.pos + send.length = txbuf.length
         /\ send.length > 0
         /\ send.CF_SN = (k + 1) % SN_MOD
  BY <1>0 DEF SendIInv, SendAccounting, Sending
<1>2. k \in Nat /\ n = k + 1
  BY <1>1, Sizes
<1>3. PICK b1 \in DataBytes :
         out' = <<[type |-> "CF", lo |-> send.CF_SN, b1 |-> b1, b2 |-> 0,
                   id |-> txbuf.id, data |-> Segment]>>
  BY DEF SendConsecutiveFrame
<1>4. /\ out' = <<out'[1]>> /\ out'[1] \in Frame /\ out'[1].type = "CF"
      /\ out'[1].lo = send.CF_SN /\ out'[1].data = [msg |-> txbuf.msg, pos |-> send.pos]
  BY <1>3 DEF SendIInv, SendTypeOK, Segment
<1>5. n % SN_MOD = send.CF_SN
  BY <1>1, <1>2
<1>6. /\ Consecutives(txbuf.length) \in Nat /\ Consecutives(txbuf.length) >= n
      /\ send.length <= CF_DATA => Consecutives(txbuf.length) = n
  <2>1. txbuf.length \in 0 .. N_DATA_MAX /\ send.length \in 0 .. N_DATA_MAX
    BY <1>0 DEF TxBuffer, TxRuntime
  <2>2. send.length \in 1 .. N_DATA_MAX
    BY <1>1, <2>1
  <2>3. FF_DATA + CF_DATA * k + send.length = txbuf.length
    BY <1>1
  <2> QED
    BY <1>2, <2>1, <2>2, <2>3, MoreToCome
<1>7. IF send.length <= CF_DATA
      THEN send'.status = "SEND_OK"
      ELSE send'.status \in {"WAIT_FC", "SEND_CF"} /\ send'.pos = send.pos + CF_DATA
  BY <1>0 DEF SendConsecutiveFrame, TxRuntime
<1>8. send.pos + CF_DATA = FF_DATA + CF_DATA * n
  BY <1>1, <1>2, Sizes
<1> QED
  BY <1>1, <1>4, <1>5, <1>6, <1>7, <1>8

-----------------------------------------------------------------------------
(* The receiving half: types.                                                *)
LEMMA RcvInitially == Init => RcvTypeOK
<1> SUFFICES ASSUME Init
             PROVE  RcvTypeOK
  OBVIOUS
<1> USE DEF Init, RcvInit
<1>1. rxbuf \in RxBuffer
  BY Zeros, Defaults DEF RxBuffer, Segments, Frame
<1>2. rcv \in RxRuntime
  BY Zeros DEF RxRuntime, RxStates, RcvResults
<1>3. rcvFC \in FCParam
  BY DEF FCParam, CTS
<1>4. rcvTimer \in RxTimers
  BY TimerAssumption DEF RxTimers, Timer, Stopped
<1>5. pdu \in [is_valid : BOOLEAN, f : Frame]
  BY Defaults
<1>6. frame_type \in {"FF", "CF", Unknown} /\ mailbox \in Seq(Frame) /\ Len(mailbox) <= 1
  OBVIOUS
<1> QED
  BY <1>1, <1>2, <1>3, <1>4, <1>5, <1>6 DEF RcvTypeOK

LEMMA PduType == ASSUME RcvTypeOK PROVE Pdu \in [is_valid : BOOLEAN, f : Frame]
<1>1. CASE mailbox = <<>>
  BY <1>1 DEF RcvTypeOK, Pdu
<1>2. CASE mailbox # <<>>
  <2>1. mailbox[1] \in Frame
    BY <1>2 DEF RcvTypeOK
  <2> QED
    BY <1>2, <2>1 DEF Pdu
<1> QED
  BY <1>1, <1>2

LEMMA TakeType == ASSUME RcvTypeOK, NEW v \in BOOLEAN, Take(v)
                  PROVE  /\ pdu' \in [is_valid : BOOLEAN, f : Frame]
                         /\ mailbox' \in Seq(Frame) /\ Len(mailbox') <= 1
<1> DEFINE w == Pdu.is_valid /\ v
<1>1. w \in BOOLEAN
  OBVIOUS
<1>2. pdu' = [Pdu EXCEPT !.is_valid = w] /\ mailbox' = <<>>
  BY PduType DEF Take
<1> HIDE DEF w
<1> QED
  BY <1>1, <1>2, PduType

LEMMA FlowControlType == /\ FlowControl(CTS, FC_BS - 1) \in FCParam
                         /\ FlowControl(CTS, FC_BS) \in FCParam
                         /\ FlowControl(OVFLW, FC_BS) \in FCParam
<1>1. TIMER_FC_STMIN \in 0 .. 255
  BY TimerAssumption
<1>2. FC_BS \in 0 .. 255 /\ FC_BS - 1 \in 0 .. 255
  BY BlockAssumption
<1>3. CTS \in 0 .. 15 /\ OVFLW \in 0 .. 15
  BY DEF CTS, OVFLW
<1> QED
  BY <1>1, <1>2, <1>3 DEF FlowControl, FCParam

LEMMA TimersType == /\ TIMER_B_R \in Timer(TIMER_B_R) /\ Stopped \in Timer(TIMER_B_R)
                    /\ TIMER_C_R \in Timer(TIMER_C_R) /\ Stopped \in Timer(TIMER_C_R)
BY TimerAssumption DEF Timer, Stopped

LEMMA NextSNType == ASSUME NEW sn \in 0 .. SN_MOD - 1 PROVE NextSN(sn) \in 0 .. SN_MOD - 1
BY SequenceAssumption DEF NextSN

LEMMA FFType == ASSUME NEW f \in Frame PROVE FF_DL(f) \in Nat
<1>1. \A a \in 0 .. 15, b \in 0 .. 255 : a * 256 + b \in Nat
  OBVIOUS
<1>2. f.lo \in 0 .. 15 /\ f.b1 \in 0 .. 255
  BY DEF Frame
<1> QED
  BY <1>1, <1>2 DEF FF_DL

LEMMA ShortLengths == \A l \in 1 .. CF_DATA : l \in 0 .. N_DATA_MAX
BY Sizes, BufferAssumption

(* Every call of rcv_single_frame and rcv_multiple_frame.                    *)
LEMMA RxTypes == ASSUME RcvTypeOK, RxPart PROVE RcvTypeOK'
<1>0. /\ rxbuf \in RxBuffer /\ rcv \in RxRuntime /\ rcvFC \in FCParam
      /\ rcvTimer \in RxTimers
  BY DEF RcvTypeOK
<1>1. Pdu \in [is_valid : BOOLEAN, f : Frame]
  BY PduType
<1>2. Pdu.f \in Frame
  BY <1>1
<1>3. Pdu.f.id \in Ids /\ Copied(Pdu.f) \in [type : FrameTypes, data : Data]
  BY <1>2 DEF Frame, Copied
<1>4. ASSUME NEW v \in BOOLEAN, Take(v), rxbuf' \in RxBuffer, rcv' \in RxRuntime,
             rcvFC' \in FCParam, rcvTimer' \in RxTimers,
             frame_type' = Unknown \/ (Continue /\ Kind \in {"FF", "CF"})
      PROVE  RcvTypeOK'
  <2>1. frame_type' \in {"FF", "CF", Unknown}
    BY <1>4 DEF Continue
  <2> QED
    BY <1>4, <2>1, TakeType DEF RcvTypeOK
<1>5. [rxbuf EXCEPT !.id = Pdu.f.id] \in RxBuffer
  BY <1>0, <1>3 DEF RxBuffer
<1>6. CASE RcvUnknown
  BY <1>0, <1>4, <1>6 DEF RcvUnknown, Keep
<1>7. CASE RcvSingleFrame
  <2>1. Pdu.f.lo \in 0 .. N_DATA_MAX
    BY <1>7, ShortLengths DEF RcvSingleFrame
  <2>2. rxbuf' \in RxBuffer
    BY <1>3, <1>7, <2>1 DEF RcvSingleFrame, RxBuffer, Segments
  <2>3. rcv' \in RxRuntime
    BY <1>0, <1>7 DEF RcvSingleFrame, RxRuntime, RcvResults
  <2> QED
    BY <1>0, <1>4, <1>7, <2>2, <2>3 DEF RcvSingleFrame, Consume
<1>8. CASE RcvSingleFrameError
  <2>1. rcv' \in RxRuntime
    BY <1>0, <1>8 DEF RcvSingleFrameError, RxRuntime, RcvResults
  <2> QED
    BY <1>0, <1>4, <1>5, <1>8, <2>1 DEF RcvSingleFrameError, Keep
<1>9. CASE IdleFirstFrame
  <2>1. rcv' \in RxRuntime
    BY <1>0, <1>9 DEF IdleFirstFrame, RxRuntime, RxStates
  <2> QED
    BY <1>0, <1>4, <1>9, <2>1 DEF IdleFirstFrame, InFlow, Keep
<1>10. CASE FirstFrame
  <2>1. FF_DL(Pdu.f) \in FF_DATA + 1 .. N_DATA_MAX
    BY <1>10 DEF FirstFrame
  <2>2. FF_DL(Pdu.f) \in 0 .. N_DATA_MAX
    BY <2>1, Sizes, BufferAssumption
  <2>3. FF_DL(Pdu.f) - FF_DATA \in 0 .. N_DATA_MAX
    BY <2>1, Sizes, BufferAssumption
  <2>4. 1 \in 0 .. SN_MOD - 1
    BY SequenceAssumption
  <2>5. rxbuf' \in RxBuffer
    BY <1>3, <1>10, <2>2 DEF FirstFrame, RxBuffer, Segments
  <2>6. rcv' \in RxRuntime
    BY <1>0, <1>10, <2>3, <2>4
    DEF FirstFrame, ResultCleared, RxRuntime, RxStates, RcvResults
  <2>7. rcvFC' \in FCParam
    BY <1>10, FlowControlType DEF FirstFrame
  <2>8. rcvTimer' \in RxTimers
    BY <1>0, <1>10, TimersType DEF FirstFrame, RxTimers
  <2> QED
    BY <1>4, <1>10, <2>5, <2>6, <2>7, <2>8 DEF FirstFrame, InFlow, Consume
<1>11. CASE FirstFrameTooLong
  <2>1. rcv' \in RxRuntime
    BY <1>0, <1>11
    DEF FirstFrameTooLong, ResultCleared, RxRuntime, RxStates, RcvResults
  <2>2. rcvFC' \in FCParam
    BY <1>11, FlowControlType DEF FirstFrameTooLong
  <2>3. rcvTimer' \in RxTimers
    BY <1>0, <1>11, TimersType DEF FirstFrameTooLong, RxTimers
  <2> QED
    BY <1>4, <1>5, <1>11, <2>1, <2>2, <2>3 DEF FirstFrameTooLong, InFlow, Consume
<1>12. CASE FirstFrameTooShort
  <2>1. rcv' \in RxRuntime
    BY <1>0, <1>12 DEF FirstFrameTooShort, ResultCleared, RxRuntime, RcvResults
  <2> QED
    BY <1>0, <1>4, <1>5, <1>12, <2>1 DEF FirstFrameTooShort, InFlow, Consume
<1>13. ASSUME NEW r \in RcvResults PROVE RcvOK(r) \in RxRuntime
  BY <1>0 DEF RcvOK, RxRuntime, RxStates
<1>14. CASE FlowControlSent
  <2>1. rcv' \in RxRuntime
    <3>1. [rcv EXCEPT !.status = "RCV_CF"] \in RxRuntime
      BY <1>0 DEF RxRuntime, RxStates
    <3> QED
      BY <1>13, <1>14, <3>1 DEF FlowControlSent, RcvResults
  <2>2. rcvTimer' \in RxTimers
    BY <1>14, TimersType DEF FlowControlSent, RxTimers
  <2> QED
    BY <1>0, <1>4, <1>14, <2>1, <2>2 DEF FlowControlSent, InFlow, Keep
<1>15. CASE FlowControlLate
  BY <1>0, <1>4, <1>13, <1>15 DEF FlowControlLate, InFlow, Keep, RcvResults
<1>16. CASE FlowControlUnsent
  BY <1>0, <1>4, <1>16 DEF FlowControlUnsent, InFlow, Keep
<1>17. CASE ConsecutiveFrame
  <2>1. rxbuf' \in RxBuffer
    <3>1. Append(rxbuf.segs, Copied(Pdu.f)) \in Segments
      BY <1>0, <1>3 DEF RxBuffer, Segments
    <3>2. [rxbuf EXCEPT !.segs = Append(@, Copied(Pdu.f))] \in RxBuffer
      BY <1>0, <3>1 DEF RxBuffer
    <3> QED
      BY <1>0, <1>17, <3>2 DEF ConsecutiveFrame
  <2>2. NextSN(rcv.CF_SN) \in 0 .. SN_MOD - 1
    BY <1>0, NextSNType DEF RxRuntime
  <2>3. rcv' \in RxRuntime
    <3>1. CASE rcv.length <= CF_DATA
      <4>1. rcv' = [RcvOK("N_OK") EXCEPT !.CF_SN = NextSN(rcv.CF_SN)]
        BY <1>0, <1>17, <3>1 DEF ConsecutiveFrame, LastMissing, RcvOK, RxRuntime
      <4>2. RcvOK("N_OK") \in RxRuntime
        BY <1>13 DEF RcvResults
      <4> QED
        BY <2>2, <4>1, <4>2 DEF RxRuntime
    <3>2. CASE ~(rcv.length <= CF_DATA)
      <4> DEFINE st == IF rcvFC.BS = 1 THEN "SEND_FC" ELSE rcv.status
      <4>1. rcv' = [rcv EXCEPT !.CF_SN = NextSN(@), !.length = @ - CF_DATA, !.status = st]
        BY <1>0, <1>17, <3>2 DEF ConsecutiveFrame, LastMissing, RxRuntime
      <4>2. st \in RxStates
        BY <1>0 DEF RxRuntime, RxStates
      <4>3. rcv.length - CF_DATA \in 0 .. N_DATA_MAX
        BY <1>0, <3>2, FrameTaken DEF RxRuntime
      <4> HIDE DEF st
      <4> QED
        BY <1>0, <2>2, <4>1, <4>2, <4>3 DEF RxRuntime
    <3> QED
      BY <3>1, <3>2
  <2>4. rcvFC' \in FCParam
    <3>1. DecByte(rcvFC.BS) \in 0 .. 255
      BY <1>0 DEF FCParam, DecByte
    <3>2. [rcvFC EXCEPT !.BS = DecByte(@)] \in FCParam
      BY <1>0, <3>1 DEF FCParam
    <3> QED
      BY <1>17, <3>2, FlowControlType DEF ConsecutiveFrame
  <2>5. rcvTimer' \in RxTimers
    BY <1>0, <1>17, TimersType DEF ConsecutiveFrame, RxTimers
  <2> QED
    BY <1>4, <1>17, <2>1, <2>3, <2>4, <2>5 DEF ConsecutiveFrame, InFlow, Consume
<1>18. CASE WrongSequenceNumber
  <2>1. rcvTimer' \in RxTimers
    BY <1>0, <1>18, TimersType DEF WrongSequenceNumber, RxTimers
  <2> QED
    BY <1>0, <1>4, <1>13, <1>18, <2>1
    DEF WrongSequenceNumber, InFlow, Consume, RcvResults
<1>19. CASE ConsecutiveFrameTimeout
  BY <1>0, <1>4, <1>13, <1>19 DEF ConsecutiveFrameTimeout, InFlow, Keep, RcvResults
<1>20. CASE ConsecutiveFramePending
  BY <1>0, <1>4, <1>20 DEF ConsecutiveFramePending, InFlow, Keep
<1>21. CASE FinishReceive
  <2>1. rcv' \in RxRuntime
    BY <1>0, <1>21, Zeros DEF FinishReceive, RxRuntime, RxStates
  <2>2. rcvFC' \in FCParam
    BY <1>0, <1>21 DEF FinishReceive, FCParam
  <2>3. rcvTimer' \in RxTimers
    BY <1>21, TimersType DEF FinishReceive, RxTimers
  <2> QED
    BY <1>0, <1>4, <1>21, <2>1, <2>2, <2>3 DEF FinishReceive, InFlow, Consume
<1> QED
  BY <1>6, <1>7, <1>8, <1>9, <1>10, <1>11, <1>12, <1>14, <1>15, <1>16, <1>17, <1>18,
     <1>19, <1>20, <1>21
  DEF RxPart, RcvMultipleFrame

-----------------------------------------------------------------------------
(* The receiving half: what the counters of a message coming in amount to.   *)
RcvIInv == RcvTypeOK /\ RcvAccounting /\ RcvBlock

(* The place in the block advances with each frame and starts again.         *)
LEMMA BlockCounts ==
  ASSUME NEW n \in Nat
  PROVE  FC_BS - ((n + 1) % FC_BS) =
           IF FC_BS - (n % FC_BS) = 1 THEN FC_BS ELSE FC_BS - (n % FC_BS) - 1
<1>1. FC_BS \in Nat /\ FC_BS > 0
  BY BlockAssumption
<1>2. n % FC_BS \in 0 .. FC_BS - 1
  BY <1>1, Euclid
<1>3. (n + 1) % FC_BS = IF n % FC_BS = FC_BS - 1 THEN 0 ELSE (n % FC_BS) + 1
  BY <1>1, ModSuccessor
<1> QED
  BY <1>1, <1>2, <1>3

(* A first frame leaves FF_DL - FF_DATA bytes, at least one.                 *)
LEMMA FirstFrameTaken ==
  \A l \in FF_DATA + 1 .. N_DATA_MAX : l - (l - FF_DATA) = FF_DATA /\ l - FF_DATA > 0
BY Sizes, BufferAssumption

LEMMA RcvIInitially == Init => RcvIInv
<1> SUFFICES ASSUME Init
             PROVE  RcvIInv
  OBVIOUS
<1>1. ~Receiving
  BY DEF Init, RcvInit, Receiving
<1> QED
  BY <1>1, RcvInitially DEF RcvIInv, RcvAccounting, RcvBlock

LEMMA RxKeeps == ASSUME RcvIInv, RxPart PROVE RcvIInv'
<1>0. /\ rxbuf \in RxBuffer /\ rcv \in RxRuntime /\ rcvFC \in FCParam
      /\ RcvTypeOK /\ RcvTypeOK'
  BY RxTypes DEF RcvIInv, RcvTypeOK
<1>1. ASSUME ~Receiving'
      PROVE  RcvIInv'
  BY <1>0, <1>1 DEF RcvIInv, RcvAccounting, RcvBlock
<1>2. ASSUME UNCHANGED <<rxbuf, rcv, rcvFC>>
      PROVE  RcvIInv'
  BY <1>0, <1>2 DEF RcvIInv, RcvAccounting, RcvBlock, Receiving
<1>3. ASSUME rcv'.status \in {"RX_IDLE", "RCV_FF", "RCV_OK"}
      PROVE  RcvIInv'
  BY <1>1, <1>3 DEF Receiving
<1>4. CASE Kind = "SF" /\ (RcvSingleFrame \/ RcvSingleFrameError)
  <2>1. rcv.status = "RX_IDLE"
    BY <1>0, <1>4 DEF Kind, Unknown, RcvTypeOK
  <2>2. rcv'.status = "RX_IDLE"
    BY <1>0, <1>4, <2>1 DEF RcvSingleFrame, RcvSingleFrameError, RxRuntime
  <2> QED
    BY <1>3, <2>2
<1>5. CASE IdleFirstFrame
  <2>1. rcv'.status \in {"RX_IDLE", "RCV_FF"}
    BY <1>0, <1>5 DEF IdleFirstFrame, InFlow, RxRuntime
  <2> QED
    BY <1>3, <2>1
<1>6. CASE FirstFrame
  <2>1. /\ rxbuf'.length = FF_DL(Pdu.f) /\ rcv'.length = FF_DL(Pdu.f) - FF_DATA
        /\ Len(rxbuf'.segs) = 1 /\ rcv'.CF_SN = 1 /\ rcvFC'.BS = FC_BS - 1
    BY <1>0, <1>6 DEF FirstFrame, FlowControl, ResultCleared, RxRuntime
  <2>2. rxbuf'.length - rcv'.length = FF_DATA /\ rcv'.length > 0
    BY <1>6, <2>1, FirstFrameTaken DEF FirstFrame
  <2>3. FF_DATA = FF_DATA + CF_DATA * (1 - 1)
    BY Sizes
  <2>4. 1 = 1 % SN_MOD
    BY SequenceAssumption
  <2>5. FC_BS - 1 = FC_BS - (1 % FC_BS)
    BY BlockAssumption
  <2> QED
    BY <1>0, <2>1, <2>2, <2>3, <2>4, <2>5 DEF RcvIInv, RcvAccounting, RcvBlock
<1>7. CASE FirstFrameTooLong
  <2>1. rcv'.status = "SEND_FC" /\ rcvFC'.FS = OVFLW
    BY <1>0, <1>7 DEF FirstFrameTooLong, ResultCleared, FlowControl, RxRuntime
  <2> QED
    BY <1>1, <2>1 DEF Receiving, OVFLW, CTS
<1>8. CASE FirstFrameTooShort
  <2>1. rcv'.status = "RCV_FF"
    BY <1>0, <1>8 DEF FirstFrameTooShort, ResultCleared, InFlow, RxRuntime
  <2> QED
    BY <1>3, <2>1
<1>9. ASSUME NEW r, rcv' = RcvOK(r)
      PROVE  RcvIInv'
  <2>1. rcv'.status = "RCV_OK"
    BY <1>0, <1>9 DEF RcvOK, RxRuntime
  <2> QED
    BY <1>3, <2>1
<1>10. CASE FlowControlSent
  <2>1. CASE rcvFC.FS = CTS
    <3>1. Receiving
      BY <1>10, <2>1 DEF Receiving, FlowControlSent, InFlow
    <3>2. /\ rcv'.length = rcv.length /\ rcv'.CF_SN = rcv.CF_SN
          /\ rxbuf' = rxbuf /\ rcvFC' = rcvFC
      BY <1>0, <1>10, <2>1 DEF FlowControlSent, RxRuntime
    <3> QED
      BY <1>0, <3>1, <3>2 DEF RcvIInv, RcvAccounting, RcvBlock
  <2>2. CASE rcvFC.FS # CTS
    BY <1>9, <1>10, <2>2 DEF FlowControlSent
  <2> QED
    BY <2>1, <2>2
<1>11. CASE FlowControlLate \/ WrongSequenceNumber \/ ConsecutiveFrameTimeout
  BY <1>9, <1>11 DEF FlowControlLate, WrongSequenceNumber, ConsecutiveFrameTimeout
<1>12. CASE RcvUnknown \/ FlowControlUnsent \/ ConsecutiveFramePending
  BY <1>2, <1>12 DEF RcvUnknown, FlowControlUnsent, ConsecutiveFramePending
<1>13. CASE FinishReceive
  <2>1. rcv'.status = "RX_IDLE"
    BY <1>0, <1>13 DEF FinishReceive, RxRuntime
  <2> QED
    BY <1>3, <2>1
<1>14. CASE ConsecutiveFrame
  <2>1. CASE rcv.length <= CF_DATA
    <3>1. rcv' = [RcvOK("N_OK") EXCEPT !.CF_SN = NextSN(rcv.CF_SN)]
      BY <1>0, <1>14, <2>1 DEF ConsecutiveFrame, LastMissing, RcvOK, RxRuntime
    <3>2. rcv'.status = "RCV_OK"
      BY <1>0, <3>1 DEF RcvOK, RxRuntime
    <3> QED
      BY <1>3, <3>2
  <2>2. CASE ~(rcv.length <= CF_DATA)
    <3> DEFINE n == Len(rxbuf.segs)
    <3>1. /\ rxbuf.length - rcv.length = FF_DATA + CF_DATA * (n - 1)
          /\ rcv.length > 0 /\ rcv.CF_SN = n % SN_MOD
          /\ rcvFC.BS = FC_BS - (n % FC_BS)
      BY <1>14 DEF RcvIInv, RcvAccounting, RcvBlock, Receiving, ConsecutiveFrame, InFlow
    <3>2. /\ n \in Nat /\ rxbuf.length \in 0 .. N_DATA_MAX
          /\ rcv.length \in 0 .. N_DATA_MAX
      BY <1>0 DEF RxBuffer, RxRuntime, Segments
    <3>3. rcv.length # 0
      BY <3>1, <3>2
    <3>4. rxbuf' = [rxbuf EXCEPT !.segs = Append(@, Copied(Pdu.f))]
      BY <1>14, <3>3 DEF ConsecutiveFrame
    <3>5. rxbuf'.length = rxbuf.length /\ Len(rxbuf'.segs) = n + 1
      BY <1>0, <3>4 DEF RxBuffer, Segments
    <3>6. rcv'.length = rcv.length - CF_DATA /\ rcv'.CF_SN = NextSN(rcv.CF_SN)
      BY <1>0, <1>14, <2>2 DEF ConsecutiveFrame, LastMissing, RxRuntime
    <3>7. rcvFC'.BS = IF rcvFC.BS = 1 THEN FC_BS ELSE DecByte(rcvFC.BS)
      BY <1>0, <1>14 DEF ConsecutiveFrame, FlowControl, FCParam
    <3> HIDE DEF n
    <3>8. rcvFC'.BS = FC_BS - ((n + 1) % FC_BS)
      <4>1. FC_BS \in Nat /\ FC_BS > 0
        BY BlockAssumption
      <4>2. n % FC_BS \in 0 .. FC_BS - 1
        BY <3>2, <4>1, Euclid
      <4>3. rcvFC.BS # 0
        BY <3>1, <4>1, <4>2
      <4>4. rcvFC'.BS = IF rcvFC.BS = 1 THEN FC_BS ELSE rcvFC.BS - 1
        BY <3>7, <4>3 DEF DecByte
      <4> QED
        BY <3>1, <3>2, <4>4, BlockCounts
    <3>9. rcv'.CF_SN = (n + 1) % SN_MOD
      BY <3>1, <3>2, <3>6, NextSNCounts
    <3>10. rcv'.length > 0
      BY <2>2, <3>2, <3>6, FrameTaken
    <3>11. rxbuf'.length - rcv'.length = FF_DATA + CF_DATA * ((n + 1) - 1)
      <4>1. \A a, b \in 0 .. N_DATA_MAX :
              a - b = 6 + 7 * (n - 1) => a - (b - 7) = 6 + 7 * ((n + 1) - 1)
        BY <3>2, BufferAssumption
      <4> QED
        BY <3>1, <3>2, <3>5, <3>6, <4>1, Sizes
    <3> QED
      BY <1>0, <3>1, <3>5, <3>6, <3>8, <3>9, <3>10, <3>11
      DEF RcvIInv, RcvAccounting, RcvBlock
  <2> QED
    BY <2>1, <2>2
<1> QED
  BY <1>4, <1>5, <1>6, <1>7, <1>8, <1>10, <1>11, <1>12, <1>13, <1>14
  DEF RxPart, RcvMultipleFrame, RcvSingleFrame, RcvSingleFrameError

-----------------------------------------------------------------------------
(* The node: both halves, the thread, the callback and the user.             *)
LEMMA TickTypes == \A m \in Nat : \A t \in Timer(m) : Tick(t) \in Timer(m)
BY DEF Timer, Tick, Stopped

IInv == SendIInv /\ RcvTypeOK /\ pc \in {"tx", "fc", "rx", "timer"}

LEMMA OthersTypes ==
  ASSUME SendTypeOK, Room, RcvTypeOK, Next, ~Tx
  PROVE  SendTypeOK' /\ Room'
<1>0. /\ txbuf \in TxBuffer /\ send \in TxRuntime /\ sendFC \in FCParam
      /\ sendTimer \in TxTimers
  BY DEF SendTypeOK
<1>1. ASSUME UNCHANGED sendVars, out' \in Seq(Frame)
      PROVE  SendTypeOK' /\ Room'
  BY <1>1 DEF SendTypeOK, sendVars, Room, Sending
<1>2. CASE SendFlowCtrlFrame
  <2>1. NoData \in Data /\ send.id \in Ids
    BY <1>0, Defaults DEF TxRuntime
  <2>2. rcvFC.FS \in 0 .. 15 /\ rcvFC.BS \in 0 .. 255 /\ rcvFC.STmin \in 0 .. 255
    BY DEF RcvTypeOK, FCParam
  <2>3. out' \in Seq(Frame)
    BY <1>2, <2>1, <2>2 DEF SendFlowCtrlFrame, Frame, FrameTypes
  <2> QED
    BY <1>1, <1>2, <2>3 DEF SendFlowCtrlFrame, sendVars
<1>3. CASE NoFlowCtrlFrame
  BY <1>1, <1>3 DEF NoFlowCtrlFrame
<1>4. CASE Rx
  <2>1. CASE UNCHANGED sendVars
    BY <1>1, <1>4, <2>1 DEF Rx
  <2>2. CASE RcvFlowCtrlFrame(Pdu.f)
    <3>1. /\ Pdu.f.lo \in 0 .. 15 /\ Pdu.f.b1 \in 0 .. 255 /\ Pdu.f.b2 \in 0 .. 255
      BY PduType DEF Frame
    <3> DEFINE v == sendFC.is_valid \/ ValidFC(Pdu.f)
    <3>2. v \in BOOLEAN
      BY <1>0 DEF FCParam
    <3>3. sendFC' = [is_valid |-> v, FS |-> Pdu.f.lo, BS |-> Pdu.f.b1, STmin |-> Pdu.f.b2]
      BY <2>2 DEF RcvFlowCtrlFrame
    <3> HIDE DEF v
    <3>4. sendFC' \in FCParam
      BY <3>1, <3>2, <3>3 DEF FCParam
    <3>5. send' = send \/ send' = [send EXCEPT !.N_result = "N_INVALID_FS"]
      BY <2>2 DEF RcvFlowCtrlFrame
    <3>6. send' \in TxRuntime
      BY <1>0, <3>5 DEF TxRuntime, SendResults
    <3>7. send'.status = send.status /\ send'.pos = send.pos /\ send'.length = send.length
      BY <1>0, <3>5 DEF TxRuntime
    <3>8. txbuf' = txbuf /\ sendTimer' = sendTimer /\ out' = <<>>
      BY <1>4, <2>2 DEF RcvFlowCtrlFrame, Rx
    <3>9. Room'
      BY <3>7 DEF Room, Sending
    <3> QED
      BY <1>0, <3>4, <3>6, <3>8, <3>9 DEF SendTypeOK
  <2> QED
    BY <1>4, <2>1, <2>2 DEF Rx
<1>5. CASE TimerCtrl
  <2>1. /\ UNCHANGED <<txbuf, send, sendFC>> /\ out' = <<>>
        /\ sendTimer' = [N_Bs |-> Tick(sendTimer.N_Bs), STmin |-> Tick(sendTimer.STmin)]
    BY <1>5 DEF TimerCtrl, SendTimerCtrl
  <2>2. sendTimer' \in TxTimers
    BY <1>0, <2>1, TickTypes, TimerAssumption DEF TxTimers
  <2> QED
    BY <1>0, <2>1, <2>2 DEF SendTypeOK, Room, Sending
<1>6. ASSUME NEW m \in Messages, Send(m)
      PROVE  SendTypeOK' /\ Room'
  <2>1. m \in TxBuffer
    BY MessageType
  <2>2. txbuf' = m /\ out' = <<>> /\ UNCHANGED <<sendFC, sendTimer>>
    BY <1>6 DEF Send, SendNetworkLayer
  <2>3. send' \in TxRuntime /\ send'.status = "TX_IDLE"
    BY <1>0, <1>6 DEF Send, SendNetworkLayer, TxRuntime, SendResults
  <2> QED
    BY <1>0, <2>1, <2>2, <2>3 DEF SendTypeOK, Room, Sending
<1>7. ASSUME NEW id \in RcvIds \union FFIds, Receive(id) \/ ReceiveFF(id)
      PROVE  SendTypeOK' /\ Room'
  <2>1. UNCHANGED sendVars /\ out' = <<>>
    BY <1>7 DEF Receive, ReceiveFF
  <2> QED
    BY <1>1, <2>1
<1>8. ASSUME NEW f \in Frames, Deliver(f)
      PROVE  SendTypeOK' /\ Room'
  BY <1>1, <1>8 DEF Deliver
<1> QED
  BY <1>2, <1>3, <1>4, <1>5, <1>6, <1>7, <1>8 DEF Next, MainNetworkLayer, Fc

LEMMA SendOthers ==
  ASSUME SendIInv, RcvTypeOK, Next, ~Tx
  PROVE  SendIInv'
<1>0. send \in TxRuntime /\ LongMessage /\ SendAccounting
  BY DEF SendIInv, SendTypeOK
<1>1. SendTypeOK'
  BY OthersTypes, RoomLeft DEF SendIInv
<1>2. ASSUME UNCHANGED txbuf, send'.status = send.status, send'.pos = send.pos,
             send'.length = send.length, send'.CF_SN = send.CF_SN
      PROVE  SendIInv'
  BY <1>0, <1>1, <1>2 DEF SendIInv, LongMessage, SendAccounting, Sending
<1>3. CASE UNCHANGED <<txbuf, send>>
  BY <1>2, <1>3
<1>4. CASE Rx
  <2>1. CASE RcvFlowCtrlFrame(Pdu.f)
    BY <1>0, <1>2, <2>1 DEF RcvFlowCtrlFrame, TxRuntime
  <2> QED
    BY <1>3, <1>4, <2>1 DEF Rx, sendVars
<1>5. ASSUME NEW m \in Messages, Send(m)
      PROVE  SendIInv'
  <2>1. send'.status = "TX_IDLE"
    BY <1>0, <1>5 DEF Send, SendNetworkLayer, TxRuntime
  <2> QED
    BY <1>1, <2>1 DEF SendIInv, LongMessage, SendAccounting, Sending
<1> QED
  BY <1>3, <1>4, <1>5
  DEF Next, MainNetworkLayer, Fc, SendFlowCtrlFrame, NoFlowCtrlFrame, TimerCtrl,
      SendTimerCtrl, Receive, ReceiveFF, Deliver, sendVars

LEMMA RcvOthers ==
  ASSUME RcvTypeOK, Next, ~(RxPart /\ Rx)
  PROVE  RcvTypeOK'
<1>0. /\ rxbuf \in RxBuffer /\ rcv \in RxRuntime /\ rcvFC \in FCParam
      /\ rcvTimer \in RxTimers
  BY DEF RcvTypeOK
<1>1. ASSUME UNCHANGED rcvVars
      PROVE  RcvTypeOK'
  BY <1>1 DEF RcvTypeOK, rcvVars
<1>2. CASE Tx
  BY <1>1, <1>2 DEF Tx
<1>3. CASE SendFlowCtrlFrame
  <2>1. rcvFC' \in FCParam
    BY <1>0, <1>3 DEF SendFlowCtrlFrame, FCParam
  <2> QED
    BY <1>3, <2>1 DEF SendFlowCtrlFrame, RcvTypeOK
<1>4. CASE NoFlowCtrlFrame
  BY <1>1, <1>4 DEF NoFlowCtrlFrame
<1>5. CASE Rx
  <2>1. TakeFlowCtrlFrame
    BY <1>5 DEF Rx
  <2> QED
    BY <1>0, <2>1, TakeType DEF TakeFlowCtrlFrame, Consume, RcvTypeOK
<1>6. CASE TimerCtrl
  <2>1. rcvTimer' \in RxTimers
    BY <1>0, <1>6, TickTypes, TimerAssumption DEF TimerCtrl, RcvTimerCtrl, RxTimers
  <2> QED
    BY <1>6, <2>1 DEF TimerCtrl, RcvTimerCtrl, RcvTypeOK
<1>7. ASSUME NEW m \in Messages, Send(m)
      PROVE  RcvTypeOK'
  BY <1>1, <1>7 DEF Send
<1>8. ASSUME NEW id \in RcvIds, Receive(id)
      PROVE  RcvTypeOK'
  <2>1. rxbuf' \in RxBuffer
    BY <1>0, <1>8, Zeros DEF Receive, ReceiveNetworkLayer, RxBuffer
  <2>2. rcv' \in RxRuntime
    BY <1>0, <1>8 DEF Receive, ReceiveNetworkLayer, RxRuntime, RcvResults
  <2> QED
    BY <1>8, <2>1, <2>2 DEF Receive, ReceiveNetworkLayer, RcvTypeOK
<1>9. ASSUME NEW id \in FFIds, ReceiveFF(id)
      PROVE  RcvTypeOK'
  <2>1. rcvFC' \in FCParam
    BY <1>0, <1>9, FlowControlType DEF ReceiveFF, ReceiveFFNetworkLayer
  <2>2. rcv' \in RxRuntime
    BY <1>0, <1>9 DEF ReceiveFF, ReceiveFFNetworkLayer, RcvOK, RxRuntime, RxStates,
                      RcvResults
  <2>3. rcvTimer' \in RxTimers
    BY <1>0, <1>9, TimersType DEF ReceiveFF, ReceiveFFNetworkLayer, RxTimers
  <2> QED
    BY <1>9, <2>1, <2>2, <2>3 DEF ReceiveFF, ReceiveFFNetworkLayer, RcvTypeOK
<1>10. ASSUME NEW f \in Frames, Deliver(f)
       PROVE  RcvTypeOK'
  <2>1. <<f>> \in Seq(Frame) /\ Len(<<f>>) <= 1
    BY MessagesAssumption
  <2> QED
    BY <1>10, <2>1 DEF Deliver, RxFrameData, RcvTypeOK
<1> QED
  BY <1>2, <1>3, <1>4, <1>5, <1>6, <1>7, <1>8, <1>9, <1>10 DEF Next, MainNetworkLayer, Fc

LEMMA IInvInductive == IInv /\ [Next]_vars => IInv'
<1> SUFFICES ASSUME IInv, [Next]_vars
             PROVE  IInv'
  OBVIOUS
<1>1. CASE UNCHANGED vars
  BY <1>1 DEF IInv, vars, SendIInv, SendTypeOK, LongMessage, SendAccounting, Sending,
              RcvTypeOK
<1>2. CASE Next
  <2>1. SendIInv'
    <3>1. CASE Tx
      BY <3>1, TxKeeps DEF IInv, Tx
    <3>2. CASE ~Tx
      BY <1>2, <3>2, SendOthers DEF IInv
    <3> QED
      BY <3>1, <3>2
  <2>2. RcvTypeOK'
    <3>1. CASE RxPart /\ Rx
      BY <3>1, RxTypes DEF IInv
    <3>2. CASE ~(RxPart /\ Rx)
      BY <1>2, <3>2, RcvOthers DEF IInv
    <3> QED
      BY <3>1, <3>2
  <2>3. pc' \in {"tx", "fc", "rx", "timer"}
    BY <1>2 DEF IInv, Next, MainNetworkLayer, Tx, Fc, SendFlowCtrlFrame, NoFlowCtrlFrame,
                Rx, TimerCtrl, Step, Send, Receive, ReceiveFF, Deliver
  <2> QED
    BY <2>1, <2>2, <2>3 DEF IInv
<1> QED
  BY <1>1, <1>2

(* The variables of the transport layer keep their types, for any buffer     *)
(* size, block size, sequence modulus and timeouts: in particular send.pos   *)
(* and the number of bytes left never leave the buffer (can_tp.c:397-755).   *)
THEOREM TypeCorrect == Spec => []TypeOK
<1>1. Init => IInv
  BY SendInitially, RcvInitially DEF Init, IInv
<1>2. IInv => TypeOK
  BY DEF IInv, TypeOK, SendIInv
<1> QED
  BY <1>1, <1>2, IInvInductive, PTL DEF Spec

(* The sender's position, remaining length and sequence number always agree  *)
(* with the message it was given (can_tp.c:409-497).                         *)
THEOREM SendAccountingHolds == Spec => [](SendAccounting /\ LongMessage)
<1>1. Init => IInv
  BY SendInitially, RcvInitially DEF Init, IInv
<1>2. IInv => SendAccounting /\ LongMessage
  BY DEF IInv, SendIInv
<1> QED
  BY <1>1, <1>2, IInvInductive, PTL DEF Spec

-----------------------------------------------------------------------------
(* The receiving half: where the frame it works on came from.  What is in    *)
(* the PDU was on the bus, except before the first frame, and the static     *)
(* frame_type is the type of that frame, for as long as a machine runs.      *)
PduFromBus ==
    /\ mailbox \in Seq(Frames)
    /\ \/ pdu.f \in Frames
       \/ ~pdu.is_valid /\ frame_type = Unknown /\ rcv.status = "RX_IDLE"
    /\ frame_type # Unknown => pdu.f.type = frame_type

(* A message that is coming in has no result yet, which keeps                *)
(* receive_network_layer away from it.                                       *)
FlowUnread == rcv.status \in {"SEND_FC", "RCV_CF"} => rcv.N_result = "N_INVALID"

RcvFlow == RcvTypeOK /\ PduFromBus /\ FlowUnread

LEMMA KindFromBus ==
  ASSUME RcvTypeOK, PduFromBus
  PROVE  /\ Pdu.f \in Frames \/ (Pdu = pdu /\ Kind = Unknown /\ ~pdu.is_valid)
         /\ Kind # Unknown => Pdu.f \in Frames /\ Pdu.f.type = Kind
<1>1. CASE mailbox = <<>>
  BY <1>1 DEF Pdu, Kind, PduFromBus, RcvTypeOK
<1>2. CASE mailbox # <<>>
  <2>1. mailbox[1] \in Frames
    BY <1>2 DEF PduFromBus
  <2> QED
    BY <1>2, <2>1 DEF Pdu, Kind
<1> QED
  BY <1>1, <1>2

(* One call of the receiver works on one frame; how it leaves frame_type.    *)
LEMMA RxShape ==
  ASSUME RxPart
  PROVE  /\ \E v \in BOOLEAN : Take(v)
         /\ \/ RcvUnknown
            \/ Kind = "SF" /\ (RcvSingleFrame \/ RcvSingleFrameError)
            \/ Kind \in {"FF", "CF"} /\ RcvMultipleFrame /\ Continue
BY DEF RxPart, RcvUnknown, RcvSingleFrame, RcvSingleFrameError, RcvMultipleFrame, Keep,
       Consume, InFlow, IdleFirstFrame, FirstFrame, FirstFrameTooLong, FirstFrameTooShort,
       FlowControlSent, FlowControlLate, FlowControlUnsent, ConsecutiveFrame,
       WrongSequenceNumber, ConsecutiveFrameTimeout, ConsecutiveFramePending, FinishReceive

LEMMA PduStep ==
  ASSUME RcvTypeOK, PduFromBus, Next
  PROVE  PduFromBus'
<1>0. PICK v \in BOOLEAN : Rx => Take(v)
  BY RxShape DEF Rx, TakeFlowCtrlFrame, Consume
<1>1. CASE Rx
  <2>1. pdu'.f = Pdu.f /\ mailbox' = <<>> /\ (pdu'.is_valid => Pdu.is_valid)
    BY <1>0, <1>1, PduType DEF Take
  <2>2. mailbox' \in Seq(Frames)
    BY <2>1
  <2>3. CASE RxPart /\ RcvUnknown
    <3>1. frame_type' = Unknown /\ rcv' = rcv
      BY <2>3 DEF RcvUnknown
    <3>2. Pdu.f \in Frames \/ (Pdu = pdu /\ ~pdu.is_valid)
      BY KindFromBus
    <3> QED
      BY <2>1, <2>2, <3>1, <3>2 DEF PduFromBus
  <2>4. CASE Kind # Unknown /\ frame_type' \in {Unknown, Kind}
    BY <2>1, <2>2, <2>4, KindFromBus DEF PduFromBus
  <2>5. CASE Kind = "SF" /\ (RcvSingleFrame \/ RcvSingleFrameError)
    BY <2>4, <2>5 DEF RcvSingleFrame, RcvSingleFrameError, Unknown
  <2>6. CASE Kind \in {"FF", "CF"} /\ Continue
    BY <2>4, <2>6 DEF Continue, Unknown
  <2>7. CASE TakeFlowCtrlFrame
    BY <2>4, <2>7 DEF TakeFlowCtrlFrame, Unknown
  <2> QED
    BY <1>1, <2>3, <2>5, <2>6, <2>7, RxShape DEF Rx
<1>2. ASSUME UNCHANGED <<pdu, frame_type, mailbox>>, rcv'.status = rcv.status
      PROVE  PduFromBus'
  BY <1>2 DEF PduFromBus
<1>3. CASE Tx \/ Fc \/ TimerCtrl \/ (\E m \in Messages : Send(m))
  BY <1>2, <1>3 DEF Tx, Fc, SendFlowCtrlFrame, NoFlowCtrlFrame, TimerCtrl, RcvTimerCtrl,
                    Send, rcvVars
<1>4. ASSUME NEW id \in RcvIds, Receive(id)
      PROVE  PduFromBus'
  BY <1>2, <1>4 DEF Receive, ReceiveNetworkLayer, RcvTypeOK, RxRuntime
<1>5. ASSUME NEW id \in FFIds, ReceiveFF(id)
      PROVE  PduFromBus'
  <2>1. rcv.status # "RX_IDLE" /\ UNCHANGED <<pdu, frame_type, mailbox>>
    BY <1>5 DEF ReceiveFF, ReceiveFFNetworkLayer
  <2> QED
    BY <2>1 DEF PduFromBus
<1>6. ASSUME NEW f \in Frames, Deliver(f)
      PROVE  PduFromBus'
  BY <1>6 DEF Deliver, RxFrameData, PduFromBus
<1> QED
  BY <1>1, <1>3, <1>4, <1>5, <1>6 DEF Next, MainNetworkLayer

LEMMA FlowUnreadStep ==
  ASSUME RcvTypeOK, FlowUnread, Next
  PROVE  FlowUnread'
<1>0. rcv \in RxRuntime
  BY DEF RcvTypeOK
<1>1. ASSUME rcv'.status \in {"RX_IDLE", "RCV_FF", "RCV_OK"}
      PROVE  FlowUnread'
  BY <1>1 DEF FlowUnread
<1>2. ASSUME rcv'.status \in {rcv.status, "SEND_FC", "RCV_CF"}, rcv'.N_result = rcv.N_result,
             rcv.status \in {"SEND_FC", "RCV_CF"} \/ rcv' = rcv
      PROVE  FlowUnread'
  BY <1>2 DEF FlowUnread
<1>3. ASSUME NEW r, rcv' = RcvOK(r)
      PROVE  FlowUnread'
  BY <1>0, <1>1, <1>3 DEF RcvOK, RxRuntime
<1>4. CASE Rx
  <2>1. CASE Kind = "SF" /\ (RcvSingleFrame \/ RcvSingleFrameError)
    <3>1. rcv.status = "RX_IDLE"
      BY <2>1 DEF Kind, Unknown, RcvTypeOK
    <3> QED
      BY <1>0, <1>1, <2>1, <3>1 DEF RcvSingleFrame, RcvSingleFrameError, RxRuntime
  <2>2. CASE RcvUnknown \/ TakeFlowCtrlFrame \/ FlowControlUnsent \/ ConsecutiveFramePending
    BY <1>2, <2>2 DEF RcvUnknown, TakeFlowCtrlFrame, FlowControlUnsent,
                      ConsecutiveFramePending
  <2>3. CASE IdleFirstFrame \/ FirstFrameTooShort \/ FinishReceive
    BY <1>0, <1>1, <2>3
    DEF IdleFirstFrame, FirstFrameTooShort, ResultCleared, FinishReceive, InFlow, RxRuntime
  <2>4. CASE FirstFrame \/ FirstFrameTooLong
    <3>1. rcv'.N_result = "N_INVALID"
      BY <1>0, <2>4 DEF FirstFrame, FirstFrameTooLong, ResultCleared, RxRuntime
    <3> QED
      BY <3>1 DEF FlowUnread
  <2>5. CASE FlowControlSent
    <3>1. CASE rcvFC.FS = CTS
      BY <1>0, <1>2, <2>5, <3>1 DEF FlowControlSent, InFlow, RxRuntime
    <3> QED
      BY <1>3, <2>5, <3>1 DEF FlowControlSent
  <2>6. CASE FlowControlLate \/ WrongSequenceNumber \/ ConsecutiveFrameTimeout
    BY <1>3, <2>6 DEF FlowControlLate, WrongSequenceNumber, ConsecutiveFrameTimeout
  <2>7. CASE ConsecutiveFrame
    <3>1. CASE LastMissing
      <4>1. rcv' = [RcvOK("N_OK") EXCEPT !.CF_SN = NextSN(rcv.CF_SN)]
        BY <1>0, <2>7, <3>1 DEF ConsecutiveFrame, RcvOK, RxRuntime
      <4> QED
        BY <1>0, <1>1, <4>1 DEF RcvOK, RxRuntime
    <3>2. CASE ~LastMissing
      <4>1. /\ rcv'.N_result = rcv.N_result /\ rcv.status = "RCV_CF"
            /\ rcv'.status \in {rcv.status, "SEND_FC"}
        BY <1>0, <2>7, <3>2 DEF ConsecutiveFrame, InFlow, RxRuntime
      <4> QED
        BY <1>2, <4>1
    <3> QED
      BY <3>1, <3>2
  <2> QED
    BY <1>4, <2>1, <2>2, <2>3, <2>4, <2>5, <2>6, <2>7
    DEF Rx, RxPart, RcvSingleFrame, RcvSingleFrameError, RcvMultipleFrame
<1>5. CASE Tx \/ Fc \/ TimerCtrl \/ (\E m \in Messages : Send(m))
           \/ (\E f \in Frames : Deliver(f))
  BY <1>2, <1>5 DEF Tx, Fc, SendFlowCtrlFrame, NoFlowCtrlFrame, TimerCtrl, RcvTimerCtrl,
                    Send, rcvVars, Deliver, RxFrameData
<1>6. ASSUME NEW id \in RcvIds, Receive(id)
      PROVE  FlowUnread'
  <2>1. rcv'.N_result = "N_INVALID"
    BY <1>0, <1>6 DEF Receive, ReceiveNetworkLayer, RxRuntime
  <2> QED
    BY <2>1 DEF FlowUnread
<1>7. ASSUME NEW id \in FFIds, ReceiveFF(id)
      PROVE  FlowUnread'
  BY <1>2, <1>3, <1>7 DEF ReceiveFF, ReceiveFFNetworkLayer
<1> QED
  BY <1>4, <1>5, <1>6, <1>7 DEF Next, MainNetworkLayer

-----------------------------------------------------------------------------
(* The receiving half: the message, for a user who calls                     *)
(* receive_FF_network_layer, if at all, only to refuse first frames.         *)
RefusesFF == \A f \in Frames : f.id \notin FFIds

LEMMA RefusedFF ==
  ASSUME RefusesFF, RcvFlow, NEW id \in FFIds, ReceiveFF(id)
  PROVE  rcv' = RcvOK("N_ERROR") /\ UNCHANGED <<rxbuf, rcvFC>>
<1>1. rcv.status = "SEND_FC"
  BY DEF ReceiveFF, ReceiveFFNetworkLayer
<1>2. pdu.f \in Frames
  BY <1>1 DEF RcvFlow, PduFromBus
<1>3. id # pdu.f.id
  BY <1>2 DEF RefusesFF
<1> QED
  BY <1>3 DEF ReceiveFF, ReceiveFFNetworkLayer

LEMMA RcvFlowStep == ASSUME RcvFlow, Next PROVE RcvFlow'
<1>1. RcvTypeOK'
  BY RxTypes, RcvOthers DEF RcvFlow, Rx
<1> QED
  BY <1>1, PduStep, FlowUnreadStep DEF RcvFlow

LEMMA RcvStep ==
  ASSUME RefusesFF, RcvIInv, RcvFlow, Next
  PROVE  RcvIInv'
<1>0. /\ rxbuf \in RxBuffer /\ rcv \in RxRuntime /\ rcvFC \in FCParam /\ RcvTypeOK
      /\ RcvTypeOK'
  BY RcvFlowStep DEF RcvIInv, RcvTypeOK, RcvFlow
<1>1. CASE RxPart /\ Rx
  BY <1>1, RxKeeps
<1>2. ASSUME UNCHANGED <<rxbuf, rcv, rcvFC>>
      PROVE  RcvIInv'
  BY <1>0, <1>2 DEF RcvIInv, RcvAccounting, RcvBlock, Receiving
<1>3. CASE SendFlowCtrlFrame
  <2>1. rcvFC'.FS = rcvFC.FS /\ rcvFC'.BS = rcvFC.BS /\ UNCHANGED <<rxbuf, rcv>>
    BY <1>0, <1>3 DEF SendFlowCtrlFrame, FCParam
  <2> QED
    BY <1>0, <2>1 DEF RcvIInv, RcvAccounting, RcvBlock, Receiving
<1>4. CASE Tx \/ NoFlowCtrlFrame
  BY <1>2, <1>4 DEF Tx, NoFlowCtrlFrame, rcvVars
<1>5. CASE Rx /\ TakeFlowCtrlFrame
  BY <1>2, <1>5 DEF TakeFlowCtrlFrame
<1>6. CASE TimerCtrl
  BY <1>2, <1>6 DEF TimerCtrl, RcvTimerCtrl
<1>7. ASSUME NEW m \in Messages, Send(m)
      PROVE  RcvIInv'
  BY <1>2, <1>7 DEF Send, rcvVars
<1>8. ASSUME NEW id \in RcvIds, Receive(id)
      PROVE  RcvIInv'
  <2>1. ~Receiving
    BY <1>8 DEF RcvFlow, FlowUnread, Receive, ReceiveNetworkLayer, Receiving
  <2>2. rcv'.status = rcv.status /\ rcvFC' = rcvFC
    BY <1>0, <1>8 DEF Receive, ReceiveNetworkLayer, RxRuntime
  <2>3. ~Receiving'
    BY <2>1, <2>2 DEF Receiving
  <2> QED
    BY <1>0, <2>3 DEF RcvIInv, RcvAccounting, RcvBlock
<1>9. ASSUME NEW id \in FFIds, ReceiveFF(id)
      PROVE  RcvIInv'
  <2>1. rcv'.status = "RCV_OK"
    BY <1>0, <1>9, RefusedFF DEF RcvOK, RxRuntime
  <2> QED
    BY <1>0, <2>1 DEF RcvIInv, RcvAccounting, RcvBlock, Receiving
<1>10. ASSUME NEW f \in Frames, Deliver(f)
       PROVE  RcvIInv'
  BY <1>2, <1>10 DEF Deliver, RxFrameData
<1> QED
  BY <1>1, <1>3, <1>4, <1>5, <1>6, <1>7, <1>8, <1>9, <1>10 DEF Next, MainNetworkLayer, Fc, Rx

LEMMA RcvFlowInitially == Init => RcvFlow
<1> SUFFICES ASSUME Init
             PROVE  RcvFlow
  OBVIOUS
<1>1. PduFromBus /\ FlowUnread
  BY DEF Init, RcvInit, PduFromBus, FlowUnread
<1> QED
  BY <1>1, RcvInitially DEF RcvFlow

LEMMA RcvUnchanged ==
  ASSUME RcvIInv, RcvFlow, UNCHANGED vars PROVE (RcvIInv /\ RcvFlow)'
BY DEF RcvIInv, RcvFlow, vars, RcvTypeOK, RcvAccounting, RcvBlock, Receiving, PduFromBus,
       FlowUnread

(* What the receiver still expects, the next sequence number and the place   *)
(* in the block always agree with the frames it has copied, for a user who   *)
(* does not accept first frames by receive_FF_network_layer, which nothing   *)
(* in src/ calls (can_tp.c:365-379, 587-678).                                *)
THEOREM RcvAccountingHolds ==
  ASSUME RefusesFF PROVE Spec => [](RcvAccounting /\ RcvBlock)
<1>1. Init => RcvIInv /\ RcvFlow
  BY RcvIInitially, RcvFlowInitially
<1>2. RcvIInv /\ RcvFlow /\ [Next]_vars => (RcvIInv /\ RcvFlow)'
  BY RcvStep, RcvFlowStep, RcvUnchanged
<1>3. RcvIInv => RcvAccounting /\ RcvBlock
  BY DEF RcvIInv
<1> QED
  BY <1>1, <1>2, <1>3, PTL DEF Spec

-----------------------------------------------------------------------------
(* That N_OK stands for a whole message.  A message that is coming in began  *)
(* with a frame that is no single frame.                                     *)
BeganMultiple == Receiving => rxbuf.segs # <<>> /\ rxbuf.segs[1].type # "SF"

(* The last frame of a message is as many after the first as it needs.       *)
LEMMA LastFrameCounts ==
  ASSUME NEW n \in Nat, NEW l \in 0 .. N_DATA_MAX, NEW r \in 1 .. CF_DATA,
         l - r = FF_DATA + CF_DATA * (n - 1)
  PROVE  Consecutives(l) = n
<1>1. r \in 1 .. 7 /\ l = 6 + 7 * (n - 1) + r /\ l \in Nat
  BY Sizes, BufferAssumption
<1>2. l - FF_DATA + CF_DATA - 1 = 7 * n + (r - 1)
  BY <1>1, Sizes
<1>3. (7 * n + (r - 1)) \div 7 = n
  <2> DEFINE m == 7 * n + (r - 1)
  <2>1. m \in Nat /\ r - 1 \in 0 .. 6
    BY <1>1
  <2>2. m \div 7 \in Nat /\ m % 7 \in 0 .. 6 /\ m = 7 * (m \div 7) + (m % 7)
    BY <2>1, Euclid
  <2> QED
    BY <2>1, <2>2
<1> QED
  BY <1>2, <1>3, Sizes DEF Consecutives

LEMMA WholeRx ==
  ASSUME RcvIInv, RcvFlow, BeganMultiple, OKMeansWhole, RxPart
  PROVE  BeganMultiple' /\ OKMeansWhole'
<1> DEFINE Whole == BeganMultiple /\ OKMeansWhole
<1>0. /\ rxbuf \in RxBuffer /\ rcv \in RxRuntime /\ rcvFC \in FCParam
      /\ RcvTypeOK /\ PduFromBus /\ FlowUnread
  BY DEF RcvIInv, RcvTypeOK, RcvFlow
<1>1. ASSUME rcv'.status \in {"RX_IDLE", "RCV_FF", "RCV_OK"}, rxbuf' = rxbuf,
             rcv'.N_result = rcv.N_result \/ rcv'.N_result # "N_OK"
      PROVE  Whole'
  BY <1>1 DEF BeganMultiple, OKMeansWhole, Receiving
<1>2. ASSUME rcv'.N_result # "N_OK", ~Receiving'
      PROVE  Whole'
  BY <1>2 DEF BeganMultiple, OKMeansWhole
<1>3. ASSUME UNCHANGED <<rxbuf, rcv, rcvFC>>
      PROVE  Whole'
  BY <1>3 DEF BeganMultiple, OKMeansWhole, Receiving
<1>4. CASE RcvUnknown \/ FlowControlUnsent \/ ConsecutiveFramePending
  BY <1>3, <1>4 DEF RcvUnknown, FlowControlUnsent, ConsecutiveFramePending
<1>5. CASE RcvSingleFrame
  <2>1. rcv.status = "RX_IDLE" /\ Pdu.f.type = "SF" /\ Pdu.f.lo \in 1 .. CF_DATA
    BY <1>0, <1>5, KindFromBus DEF RcvSingleFrame, Kind, Unknown, RcvTypeOK
  <2>2. ~Receiving'
    BY <1>0, <1>5, <2>1 DEF RcvSingleFrame, Receiving, RxRuntime
  <2>3. /\ rxbuf'.segs = <<Copied(Pdu.f)>> /\ Copied(Pdu.f).type = "SF"
        /\ rxbuf'.length \in 1 .. CF_DATA
    BY <1>5, <2>1 DEF RcvSingleFrame, Copied
  <2>4. OKMeansWhole'
    BY <2>3 DEF OKMeansWhole
  <2> QED
    BY <2>2, <2>4 DEF BeganMultiple
<1>6. CASE RcvSingleFrameError
  <2>1. rcv.status = "RX_IDLE"
    BY <1>0, <1>6 DEF RcvSingleFrameError, Kind, Unknown, RcvTypeOK
  <2> QED
    BY <1>0, <1>2, <1>6, <2>1 DEF RcvSingleFrameError, Receiving, RxRuntime
<1>7. CASE IdleFirstFrame \/ FinishReceive
  BY <1>0, <1>1, <1>7 DEF IdleFirstFrame, FinishReceive, InFlow, RxRuntime
<1>8. CASE FirstFrame
  <2>1. Pdu.f.type \in {"FF", "CF"}
    BY <1>0, <1>8, KindFromBus DEF FirstFrame, InFlow, Unknown
  <2>2. rxbuf'.segs = <<Copied(Pdu.f)>>
    BY <1>8 DEF FirstFrame
  <2>3. Copied(Pdu.f).type # "SF"
    BY <2>1 DEF Copied
  <2>4. rcv'.N_result = "N_INVALID"
    BY <1>0, <1>8 DEF FirstFrame, ResultCleared, RxRuntime
  <2>5. rxbuf'.segs # <<>> /\ rxbuf'.segs[1].type # "SF"
    BY <2>2, <2>3
  <2> QED
    BY <2>4, <2>5 DEF BeganMultiple, OKMeansWhole
<1>9. CASE FirstFrameTooLong
  <2>1. rcv'.status = "SEND_FC" /\ rcvFC'.FS = OVFLW /\ rcv'.N_result = "N_INVALID"
    BY <1>0, <1>9 DEF FirstFrameTooLong, ResultCleared, FlowControl, RxRuntime
  <2> QED
    BY <1>2, <2>1 DEF Receiving, OVFLW, CTS
<1>10. CASE FirstFrameTooShort
  BY <1>0, <1>2, <1>10 DEF FirstFrameTooShort, ResultCleared, InFlow, Receiving, RxRuntime
<1>11. ASSUME NEW r, r # "N_OK", rcv' = RcvOK(r)
       PROVE  Whole'
  BY <1>0, <1>2, <1>11 DEF RcvOK, Receiving, RxRuntime
<1>12. CASE FlowControlSent
  <2>1. CASE rcvFC.FS = CTS
    <3>1. Receiving /\ UNCHANGED <<rxbuf, rcvFC>>
      BY <1>12, <2>1 DEF Receiving, FlowControlSent, InFlow
    <3>2. rcv'.N_result = "N_INVALID"
      BY <1>0, <1>12, <2>1 DEF FlowControlSent, InFlow, FlowUnread, RxRuntime
    <3> QED
      BY <3>1, <3>2 DEF BeganMultiple, OKMeansWhole
  <2> QED
    BY <1>11, <1>12, <2>1 DEF FlowControlSent
<1>13. CASE FlowControlLate \/ WrongSequenceNumber \/ ConsecutiveFrameTimeout
  BY <1>11, <1>13 DEF FlowControlLate, WrongSequenceNumber, ConsecutiveFrameTimeout
<1>14. CASE ConsecutiveFrame
  <2> DEFINE n == Len(rxbuf.segs)
  <2>1. Receiving /\ rcv.N_result = "N_INVALID"
    BY <1>0, <1>14 DEF ConsecutiveFrame, InFlow, Receiving, FlowUnread
  <2>2. /\ rxbuf.length - rcv.length = FF_DATA + CF_DATA * (n - 1)
        /\ rcv.length > 0 /\ rxbuf.segs # <<>> /\ rxbuf.segs[1].type # "SF"
    BY <2>1 DEF RcvIInv, RcvAccounting, BeganMultiple
  <2>3. /\ n \in Nat /\ rxbuf.length \in 0 .. N_DATA_MAX
        /\ rcv.length \in 0 .. N_DATA_MAX /\ rxbuf.segs \in Segments
    BY <1>0 DEF RxBuffer, RxRuntime, Segments
  <2>4. rxbuf' = [rxbuf EXCEPT !.segs = Append(@, Copied(Pdu.f))]
    BY <1>14, <2>2, <2>3 DEF ConsecutiveFrame
  <2>5. /\ rxbuf'.length = rxbuf.length /\ Len(rxbuf'.segs) = n + 1
        /\ rxbuf'.segs # <<>> /\ rxbuf'.segs[1].type # "SF"
    BY <1>0, <2>2, <2>3, <2>4 DEF RxBuffer, Segments
  <2>6. BeganMultiple'
    BY <2>5 DEF BeganMultiple
  <2>7. OKMeansWhole'
    <3>1. CASE LastMissing
      <4>1. rcv.length \in 1 .. CF_DATA
        BY <2>2, <2>3, <3>1, Sizes DEF LastMissing
      <4>2. Consecutives(rxbuf.length) = n
        BY <2>2, <2>3, <4>1, LastFrameCounts
      <4> QED
        BY <2>3, <2>5, <4>2 DEF OKMeansWhole
    <3>2. CASE ~LastMissing
      <4>1. rcv'.N_result = "N_INVALID"
        BY <1>0, <1>14, <2>1, <3>2 DEF ConsecutiveFrame, RxRuntime
      <4> QED
        BY <4>1 DEF OKMeansWhole
    <3> QED
      BY <3>1, <3>2
  <2> QED
    BY <2>6, <2>7
<1> QED
  BY <1>4, <1>5, <1>6, <1>7, <1>8, <1>9, <1>10, <1>12, <1>13, <1>14
  DEF RxPart, RcvMultipleFrame

LEMMA WholeStep ==
  ASSUME RefusesFF, RcvIInv, RcvFlow, BeganMultiple, OKMeansWhole, Next
  PROVE  BeganMultiple' /\ OKMeansWhole'
<1>0. rxbuf \in RxBuffer /\ rcv \in RxRuntime /\ rcvFC \in FCParam
  BY DEF RcvIInv, RcvTypeOK
<1>1. CASE Rx /\ RxPart
  BY <1>1, WholeRx
<1>2. ASSUME UNCHANGED <<rxbuf, rcv>>, rcvFC'.FS = rcvFC.FS
      PROVE  BeganMultiple' /\ OKMeansWhole'
  BY <1>2 DEF BeganMultiple, OKMeansWhole, Receiving
<1>3. CASE Tx \/ Fc \/ TimerCtrl \/ (\E m \in Messages : Send(m))
           \/ (\E f \in Frames : Deliver(f)) \/ (Rx /\ TakeFlowCtrlFrame)
  BY <1>0, <1>2, <1>3
  DEF Tx, Fc, SendFlowCtrlFrame, NoFlowCtrlFrame, TimerCtrl, RcvTimerCtrl, Send, rcvVars,
      Deliver, RxFrameData, TakeFlowCtrlFrame, FCParam
<1>4. ASSUME NEW id \in RcvIds, Receive(id)
      PROVE  BeganMultiple' /\ OKMeansWhole'
  <2>1. ~Receiving /\ rcv'.N_result = "N_INVALID"
    BY <1>0, <1>4
    DEF RcvFlow, FlowUnread, Receive, ReceiveNetworkLayer, Receiving, RxRuntime
  <2>2. ~Receiving'
    BY <1>0, <1>4, <2>1 DEF Receive, ReceiveNetworkLayer, Receiving, RxRuntime
  <2> QED
    BY <2>1, <2>2 DEF BeganMultiple, OKMeansWhole
<1>5. ASSUME NEW id \in FFIds, ReceiveFF(id)
      PROVE  BeganMultiple' /\ OKMeansWhole'
  <2>1. rcv'.status = "RCV_OK" /\ rcv'.N_result = "N_ERROR"
    BY <1>0, <1>5, RefusedFF DEF RcvOK, RxRuntime
  <2> QED
    BY <2>1 DEF BeganMultiple, OKMeansWhole, Receiving
<1> QED
  BY <1>1, <1>3, <1>4, <1>5 DEF Next, MainNetworkLayer, Rx

(* As long as there is a result N_OK to be read, as many frames were copied  *)
(* as the message needs, for any lengths, whatever frames came in between    *)
(* and whoever read and refused what (can_tp.c:571-579, 661-672).            *)
THEOREM OKMeansWholeHolds ==
  ASSUME RefusesFF PROVE Spec => []OKMeansWhole
<1> DEFINE Inv == RcvIInv /\ RcvFlow /\ BeganMultiple /\ OKMeansWhole
<1>1. Init => Inv
  <2>1. Init => BeganMultiple /\ OKMeansWhole
    BY DEF Init, RcvInit, BeganMultiple, OKMeansWhole, Receiving
  <2> QED
    BY <2>1, RcvIInitially, RcvFlowInitially
<1>2. Inv /\ [Next]_vars => Inv'
  <2>1. ASSUME Inv, UNCHANGED vars PROVE (BeganMultiple /\ OKMeansWhole)'
    BY <2>1 DEF vars, BeganMultiple, OKMeansWhole, Receiving
  <2> QED
    BY <2>1, RcvStep, RcvFlowStep, WholeStep, RcvUnchanged
<1>3. Inv => OKMeansWhole
  OBVIOUS
<1> QED
  BY <1>1, <1>2, <1>3, PTL DEF Spec
=============================================================================

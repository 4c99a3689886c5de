-------------------------- MODULE CanTpTestProofs --------------------------
(* Proofs about the program of can_tp_test.c, whose two threads share the    *)
(* transport layer without a lock, for every value of the constants.         *)
EXTENDS CanTpTest, CanTpProofs

(* The main thread is between two calls, or in send_network_layer while it   *)
(* waits for the result.                                                     *)
Users == [at : {"none", "send_data", "send_length", "send_result"}, n : {0},
          m : TxBuffer, got : {[length |-> 0, segs |-> <<>>]}]

UserInv ==
    /\ user \in Users /\ confirming \in BOOLEAN
    /\ user.at # "none" => confirming

(* The tick finds nothing to send before the call has stored the length, and *)
(* after the main thread has its result.                                     *)
IdleInv ==
    /\ user.at \in {"send_data", "send_length"} =>
           send.status = "TX_IDLE" /\ txbuf.length = 0
    /\ /\ user.at = "none" /\ send.status = "TX_IDLE"
       /\ ~confirming \/ send.N_result # "N_INVALID"
       => txbuf.length = 0

(* From then on what is in Tx_buf is what the main thread sends.             *)
OwnInv ==
    /\ user.at = "send_length" => txbuf = [user.m EXCEPT !.length = txbuf.length]
    /\ user.at \in {"send_result", "none"} /\ txbuf.length # 0 => txbuf = user.m

(* The frames that went out are those that a peer must see.                  *)
FrameSeen(f) == [type |-> f.type, lo |-> f.lo, data |-> f.data]

OutInv ==
    send.status \in {"WAIT_FC", "SEND_CF", "SEND_OK"} =>
        /\ wire \in Seq(Frame) /\ wire # <<>>
        /\ Len(wire) <= Consecutives(txbuf.length) + 1
        /\ \A i \in 1 .. Len(wire) : FrameSeen(wire[i]) = WireOf(txbuf)[i]
        /\ Sending => send.pos = FF_DATA + CF_DATA * (Len(wire) - 1)
        /\ send.status = "SEND_OK" /\ send.N_result = "N_OK" =>
               Len(wire) = Consecutives(txbuf.length) + 1

(* N_OK between two calls is that of the message the main thread gave last.  *)
ToldInv ==
    user.at = "none" /\ send.N_result = "N_OK" =>
        /\ send.status \in {"TX_IDLE", "SEND_OK"}
        /\ send.status = "TX_IDLE" => Seen(wire) = WireOf(user.m)

(* None of this is promised once an invalid flow control frame has made the  *)
(* main thread go on too early.                                              *)
SharedInv == SendIInv /\ IdleInv /\ OwnInv /\ OutInv /\ ToldInv

TestIInv ==
    /\ RcvTypeOK
    /\ ~refused => UserInv /\ SharedInv

-----------------------------------------------------------------------------
(* A complete sequence of frames is the one that a peer must see.            *)
LEMMA SeenWhole ==
  ASSUME NEW m \in TxBuffer, NEW w \in Seq(Frame), m.length >= CAN_FRAME_SIZE,
         Len(w) = Consecutives(m.length) + 1,
         \A i \in 1 .. Len(w) : FrameSeen(w[i]) = WireOf(m)[i]
  PROVE  Seen(w) = WireOf(m)
<1> DEFINE l == Len(w)
<1>1. DOMAIN w = 1 .. l
  OBVIOUS
<1>2. Seen(w) = [i \in 1 .. l |-> FrameSeen(w[i])]
  BY <1>1 DEF Seen, FrameSeen
<1>3. ~(m.length < CAN_FRAME_SIZE)
  BY Sizes DEF TxBuffer
<1>4. DOMAIN WireOf(m) = 1 .. l /\ WireOf(m) = [i \in 1 .. l |-> WireOf(m)[i]]
  BY <1>3 DEF WireOf
<1> HIDE DEF l
<1> QED
  BY <1>2, <1>4 DEF l

(* A step that leaves the message, the frames, the position and the result   *)
(* alone, and at most has flow control arrive.                               *)
LEMMA QuietStep ==
  ASSUME UserInv, SharedInv, UNCHANGED <<user, confirming, txbuf, wire>>,
         send'.pos = send.pos, send'.N_result = send.N_result,
         send'.status = send.status \/
             (send.status = "WAIT_FC" /\ send'.status = "SEND_CF")
  PROVE  (IdleInv /\ OwnInv /\ OutInv /\ ToldInv)'
<1>1. IdleInv' /\ OwnInv'
  BY DEF SharedInv, IdleInv, OwnInv
<1>2. OutInv'
  <2>1. WireOf(txbuf') = WireOf(txbuf)
    OBVIOUS
  <2> QED
    BY <2>1 DEF SharedInv, OutInv, Sending
<1>3. ToldInv'
  <2>1. WireOf(user'.m) = WireOf(user.m) /\ Seen(wire') = Seen(wire)
    OBVIOUS
  <2> QED
    BY <2>1 DEF SharedInv, ToldInv
<1> QED
  BY <1>1, <1>2, <1>3

(* The part of a tick that sends.                                            *)
Recorded == wire' = IF out' = <<>> \/ out'[1].type = "FC" THEN wire
                    ELSE IF out'[1].type = "CF" THEN wire \o out' ELSE out'

LEMMA TxStep ==
  ASSUME UserInv, SharedInv, TxPart, SendIInv', UNCHANGED <<user, confirming>>, Recorded
  PROVE  (IdleInv /\ OwnInv /\ OutInv /\ ToldInv)'
<1>0. /\ send \in TxRuntime /\ txbuf \in TxBuffer /\ LongMessage /\ SendIInv
      /\ user \in Users /\ confirming \in BOOLEAN
  BY DEF SharedInv, SendIInv, SendTypeOK, UserInv
<1>1. CASE SendSingleFrame
  <2>1. send.status = "TX_IDLE"
    BY <1>0, <1>1, Sizes DEF LongMessage, SendSingleFrame, TxBuffer
  <2>2. /\ txbuf.length # 0 /\ txbuf.length < CAN_FRAME_SIZE
    BY <1>0, <1>1, Sizes DEF SendSingleFrame, TxBuffer
  <2>3. /\ send'.status = "TX_IDLE" /\ txbuf' = [txbuf EXCEPT !.length = 0]
        /\ txbuf'.length = 0
    BY <1>0, <1>1, <2>1 DEF SendSingleFrame, TxRuntime, TxBuffer
  <2>4. user.at \in {"none", "send_result"}
    BY <1>0, <2>2 DEF SharedInv, IdleInv, Users
  <2>5. txbuf = user.m
    BY <2>2, <2>4 DEF SharedInv, OwnInv
  <2>6. Seen(wire') = WireOf(user'.m)
    <3> DEFINE f == [type |-> "SF", lo |-> txbuf.length, b1 |-> 0, b2 |-> 0,
                     id |-> txbuf.id, data |-> [msg |-> txbuf.msg, pos |-> 0]]
    <3>1. out' = <<f>> /\ f.type = "SF"
      BY <1>1 DEF SendSingleFrame
    <3>2. wire' = <<f>>
      BY <3>1 DEF Recorded
    <3>3. [type |-> f.type, lo |-> f.lo, data |-> f.data] =
            [type |-> "SF", lo |-> txbuf.length, data |-> [msg |-> txbuf.msg, pos |-> 0]]
      OBVIOUS
    <3> HIDE DEF f
    <3>4. Seen(wire') = <<[type |-> f.type, lo |-> f.lo, data |-> f.data]>>
      BY <3>2 DEF Seen
    <3> QED
      BY <2>2, <2>5, <3>3, <3>4 DEF WireOf
  <2> QED
    BY <2>3, <2>4, <2>6 DEF IdleInv, OwnInv, OutInv, ToldInv
<1>2. CASE StartMultipleFrame
  <2>1. send.status = "TX_IDLE" /\ txbuf.length # 0
    BY <1>0, <1>2, Sizes DEF StartMultipleFrame, InState, TxBuffer
  <2>2. send'.status = "SEND_FF" /\ send'.N_result = send.N_result /\ txbuf' = txbuf
    BY <1>0, <1>2 DEF StartMultipleFrame, TxRuntime
  <2>3. user.at \in {"none", "send_result"} /\ (user.at = "none" => send.N_result # "N_OK")
    BY <1>0, <2>1 DEF SharedInv, IdleInv, Users
  <2> QED
    BY <2>2, <2>3 DEF SharedInv, IdleInv, OwnInv, OutInv, ToldInv
<1>3. CASE SendFirstFrame
  <2>1. /\ send.status = "SEND_FF" /\ txbuf.length >= CAN_FRAME_SIZE /\ txbuf' = txbuf
        /\ send'.status = "WAIT_FC" /\ send'.pos = FF_DATA
        /\ send'.N_result = send.N_result
    BY <1>0, <1>3 DEF SendFirstFrame, InState, TxRuntime
  <2>2. IdleInv' /\ OwnInv' /\ ToldInv'
    BY <2>1 DEF SharedInv, IdleInv, OwnInv, ToldInv
  <2> DEFINE f == [type |-> "FF", lo |-> txbuf.length \div 256,
                   b1 |-> txbuf.length % 256, b2 |-> 0, id |-> txbuf.id,
                   data |-> [msg |-> txbuf.msg, pos |-> 0]]
  <2>3. out' = <<f>> /\ f.type = "FF"
    BY <1>3 DEF SendFirstFrame
  <2>4. FrameSeen(f) = [type |-> "FF", lo |-> txbuf.length \div 256,
                        data |-> [msg |-> txbuf.msg, pos |-> 0]]
    BY DEF FrameSeen
  <2> HIDE DEF f
  <2>5. wire' = <<f>>
    BY <2>3 DEF Recorded
  <2>6. /\ Consecutives(txbuf.length) \in Nat /\ 1 \in 1 .. Consecutives(txbuf.length) + 1
        /\ ~(txbuf.length < CAN_FRAME_SIZE)
    BY <1>0, <2>1, SomeToCome, Sizes DEF TxBuffer
  <2>7. FrameSeen(f) = WireOf(txbuf)[1]
    BY <2>4, <2>6 DEF WireOf
  <2>8. /\ Len(wire') = 1 /\ wire' # <<>> /\ wire'[1] = f
        /\ \A i \in 1 .. Len(wire') : i = 1
    BY <2>5
  <2>9. FF_DATA = FF_DATA + CF_DATA * (Len(wire') - 1)
    BY <2>8, Sizes
  <2>10. Len(wire') <= Consecutives(txbuf'.length) + 1
    BY <2>1, <2>6, <2>8
  <2>11. \A i \in 1 .. Len(wire') : FrameSeen(wire'[i]) = WireOf(txbuf')[i]
    BY <2>1, <2>7, <2>8
  <2>12. wire' \in Seq(Frame)
    BY <2>3, <2>5 DEF SendIInv, SendTypeOK
  <2>13. OutInv'
    BY <2>1, <2>12, <2>8, <2>9, <2>10, <2>11 DEF OutInv
  <2> QED
    BY <2>2, <2>13
<1>4. CASE SendConsecutiveFrame
  <2> DEFINE n == Len(wire)
             c == Consecutives(txbuf.length)
  <2>1. /\ send.status = "SEND_CF" /\ txbuf' = txbuf /\ txbuf.length >= CAN_FRAME_SIZE
    BY <1>4 DEF SendConsecutiveFrame, InState
  <2>2. /\ wire \in Seq(Frame) /\ wire # <<>>
        /\ \A i \in 1 .. n : FrameSeen(wire[i]) = WireOf(txbuf)[i]
        /\ send.pos = FF_DATA + CF_DATA * (n - 1)
    BY <2>1 DEF SharedInv, OutInv, Sending
  <2>3. n \in Nat /\ n >= 1
    BY <2>2
  <2> HIDE DEF n
  <2>4. /\ out' = <<out'[1]>> /\ out'[1] \in Frame
        /\ out'[1].type = "CF" /\ out'[1].lo = n % SN_MOD
        /\ out'[1].data = [msg |-> txbuf.msg, pos |-> FF_DATA + CF_DATA * (n - 1)]
        /\ c \in Nat /\ c >= n
        /\ IF send.length <= CF_DATA
           THEN send'.status = "SEND_OK" /\ c = n
           ELSE send'.status \in {"WAIT_FC", "SEND_CF"} /\ send'.pos = FF_DATA + CF_DATA * n
    BY <1>0, <1>4, <2>2, <2>3, ConsecutiveSent
  <2> DEFINE f == out'[1]
  <2>5. out' = <<f>> /\ f \in Frame /\ wire' = wire \o out'
    <3>1. out' = <<f>> /\ f \in Frame /\ f.type = "CF"
      BY <2>4
    <3> HIDE DEF f
    <3>2. out' # <<>> /\ out'[1] = f
      BY <3>1
    <3> QED
      BY <3>1, <3>2 DEF Recorded
  <2> HIDE DEF c
  <2>6. FrameSeen(f) = WireOf(txbuf)[n + 1]
    <3>1. n + 1 \in 1 .. c + 1 /\ n + 1 # 1 /\ (n + 1) - 1 = n /\ (n + 1) - 2 = n - 1
      BY <2>3, <2>4
    <3>2. ~(txbuf.length < CAN_FRAME_SIZE)
      BY <1>0, <2>1, Sizes DEF TxBuffer
    <3>3. WireOf(txbuf)[n + 1] =
            [type |-> "CF", lo |-> ((n + 1) - 1) % SN_MOD,
             data |-> [msg |-> txbuf.msg, pos |-> FF_DATA + CF_DATA * ((n + 1) - 2)]]
      BY <3>1, <3>2 DEF WireOf, c
    <3>4. FrameSeen(f) = [type |-> "CF", lo |-> n % SN_MOD,
                          data |-> [msg |-> txbuf.msg, pos |-> FF_DATA + CF_DATA * (n - 1)]]
      BY <2>4 DEF FrameSeen
    <3> QED
      BY <3>1, <3>3, <3>4
  <2> HIDE DEF f
  <2>7. /\ wire' \in Seq(Frame) /\ wire' # <<>> /\ Len(wire') = n + 1
        /\ \A i \in 1 .. n : wire'[i] = wire[i]
        /\ wire'[n + 1] = f
    <3>1. wire' = Append(wire, f)
      BY <2>2, <2>5
    <3> QED
      BY <2>2, <2>3, <2>5, <3>1 DEF n
  <2>8. \A i \in 1 .. Len(wire') : FrameSeen(wire'[i]) = WireOf(txbuf)[i]
    BY <2>2, <2>3, <2>6, <2>7
  <2>9. user.at = "none" => send.N_result # "N_OK"
    BY <2>1 DEF SharedInv, ToldInv
  <2>10. CASE send.length <= CF_DATA
    <3>1. send'.status = "SEND_OK"
      BY <2>4, <2>10
    <3>2. Len(wire') = Consecutives(txbuf'.length) + 1
      BY <2>1, <2>4, <2>7, <2>10 DEF c
    <3>3. Len(wire') <= Consecutives(txbuf'.length) + 1
      BY <2>3, <2>7, <3>2
    <3>4. OutInv'
      BY <2>1, <2>7, <2>8, <3>1, <3>2, <3>3 DEF OutInv, Sending
    <3> QED
      BY <2>1, <3>1, <3>4 DEF SharedInv, IdleInv, OwnInv, ToldInv
  <2>11. CASE ~(send.length <= CF_DATA)
    <3>1. send'.status \in {"WAIT_FC", "SEND_CF"} /\ send'.pos = FF_DATA + CF_DATA * n
      BY <2>4, <2>11
    <3>2. Len(wire') <= Consecutives(txbuf'.length) + 1
      BY <2>1, <2>3, <2>4, <2>7 DEF c
    <3>3. Len(wire') - 1 = n
      BY <2>3, <2>7
    <3>4. send'.pos = FF_DATA + CF_DATA * (Len(wire') - 1)
      BY <3>1, <3>3
    <3>5. OutInv'
      BY <2>1, <2>7, <2>8, <3>1, <3>2, <3>4 DEF OutInv, Sending
    <3>6. send'.N_result = send.N_result
      BY <1>0, <1>4, <2>11 DEF SendConsecutiveFrame, TxRuntime
    <3> QED
      BY <2>1, <2>9, <3>1, <3>5, <3>6 DEF SharedInv, IdleInv, OwnInv, ToldInv
  <2> QED
    BY <2>10, <2>11
<1>5. CASE FlowControlTimeout \/ FlowOverflow
  <2>1. /\ send.status \in {"WAIT_FC", "SEND_CF"} /\ txbuf' = txbuf /\ out' = <<>>
        /\ send'.status = "SEND_OK" /\ send'.N_result \in {"N_TIMEOUT_Bs", "N_BUFFER_OVFLW"}
    BY <1>0, <1>5 DEF FlowControlTimeout, FlowOverflow, InState, TxRuntime
  <2>2. wire' = wire /\ WireOf(txbuf') = WireOf(txbuf)
    BY <2>1 DEF Recorded
  <2>3. OutInv'
    BY <2>1, <2>2 DEF SharedInv, OutInv, Sending
  <2> QED
    BY <2>1, <2>3 DEF SharedInv, IdleInv, OwnInv, ToldInv
<1>6. CASE FinishSend
  <2>1. /\ send.status = "SEND_OK" /\ txbuf.length >= CAN_FRAME_SIZE /\ out' = <<>>
        /\ send'.status = "TX_IDLE" /\ send'.N_result = send.N_result
        /\ txbuf' = [txbuf EXCEPT !.length = 0] /\ txbuf'.length = 0
    BY <1>0, <1>6 DEF FinishSend, InState, TxRuntime, TxBuffer
  <2>2. wire' = wire /\ txbuf.length # 0
    BY <1>0, <2>1, Sizes DEF Recorded, TxBuffer
  <2>3. user.at \in {"none", "send_result"}
    BY <1>0, <2>1 DEF SharedInv, IdleInv, Users
  <2>4. txbuf = user.m
    BY <2>2, <2>3 DEF SharedInv, OwnInv
  <2>5. send.N_result = "N_OK" => Seen(wire) = WireOf(user.m)
    BY <1>0, <2>1, <2>4, SeenWhole DEF SharedInv, OutInv
  <2> QED
    BY <2>1, <2>2, <2>3, <2>5 DEF IdleInv, OwnInv, OutInv, ToldInv
<1>7. CASE TxNothing \/ SeparationWait \/ FlowWait \/ FlowReserved
  BY <1>7, QuietStep DEF Recorded, TxNothing, SeparationWait, FlowWait, FlowReserved, sendVars
<1>8. CASE FlowControlPending \/ FlowControlArrived
  BY <1>0, <1>8, QuietStep
  DEF Recorded, FlowControlPending, FlowControlArrived, InState, TxRuntime
<1> QED
  BY <1>1, <1>2, <1>3, <1>4, <1>5, <1>6, <1>7, <1>8 DEF TxPart, SendMultipleFrame

(* The other steps of the thread that ticks, and the callback.               *)
LEMMA TickStep ==
  ASSUME UserInv, SharedInv, SendIInv', ~refused',
         Daemon \/ DaemonReceive \/ RxNotification
  PROVE  SharedInv'
<1>0. /\ send \in TxRuntime /\ UNCHANGED <<user, confirming>>
  BY DEF SharedInv, SendIInv, SendTypeOK, Daemon, DaemonReceive, RxNotification, testHistory
<1>1. ASSUME (IdleInv /\ OwnInv /\ OutInv /\ ToldInv)'
      PROVE  SharedInv'
  BY <1>1 DEF SharedInv
<1>2. ASSUME UNCHANGED sendVars, wire' = wire
      PROVE  SharedInv'
  BY <1>0, <1>1, <1>2, QuietStep DEF sendVars
<1>3. CASE Tx /\ Daemon
  <2>1. (IdleInv /\ OwnInv /\ OutInv /\ ToldInv)'
    BY <1>0, <1>3, TxStep DEF Recorded, Daemon, Tx
  <2> QED
    BY <1>1, <2>1
<1>4. CASE Fc /\ Daemon
  <2>1. UNCHANGED sendVars /\ (out' = <<>> \/ out'[1].type = "FC")
    BY <1>4 DEF Fc, SendFlowCtrlFrame, NoFlowCtrlFrame
  <2>2. wire' = wire
    BY <1>4, <2>1 DEF Daemon
  <2> QED
    BY <1>2, <2>1, <2>2
<1>5. CASE Rx /\ Daemon
  <2>1. wire' = wire /\ pc = "rx"
    BY <1>5 DEF Rx, Step, Daemon
  <2>2. CASE UNCHANGED sendVars
    BY <1>2, <2>1, <2>2
  <2>3. CASE RcvFlowCtrlFrame(Pdu.f)
    <3>1. send'.N_result # "N_INVALID_FS"
      BY <1>5, <2>1 DEF Daemon
    <3>2. send' = send \/ send' = [send EXCEPT !.N_result = "N_INVALID_FS"]
      BY <2>3 DEF RcvFlowCtrlFrame
    <3>3. send' = send /\ txbuf' = txbuf
      BY <1>0, <2>3, <3>1, <3>2 DEF RcvFlowCtrlFrame, TxRuntime
    <3>4. (IdleInv /\ OwnInv /\ OutInv /\ ToldInv)'
      BY <1>0, <2>1, <3>3, QuietStep
    <3> QED
      BY <1>1, <3>4
  <2> QED
    BY <1>5, <2>2, <2>3 DEF Rx
<1>6. CASE TimerCtrl /\ Daemon
  <2>1. wire' = wire /\ txbuf' = txbuf /\ send' = send
    BY <1>6 DEF TimerCtrl, SendTimerCtrl, Daemon
  <2>2. (IdleInv /\ OwnInv /\ OutInv /\ ToldInv)'
    BY <1>0, <2>1, QuietStep
  <2> QED
    BY <1>1, <2>2
<1>7. CASE DaemonReceive
  BY <1>2, <1>7 DEF DaemonReceive, Receive, testHistory
<1>8. CASE RxNotification
  BY <1>2, <1>8 DEF RxNotification, Deliver, testHistory
<1> QED
  BY <1>3, <1>4, <1>5, <1>6, <1>7, <1>8 DEF Daemon, MainNetworkLayer

(* The main thread: the call does not touch a message under way, for it      *)
(* began at TX_IDLE with nothing to send.                                    *)
LEMMA MainStep ==
  ASSUME UserInv, SharedInv, SendInput \/ InCall \/ Confirm
  PROVE  UserInv' /\ SharedInv'
<1>0. /\ send \in TxRuntime /\ txbuf \in TxBuffer /\ SendIInv
      /\ user \in Users /\ confirming \in BOOLEAN
  BY DEF SharedInv, SendIInv, SendTypeOK, UserInv
<1>1. ASSUME UNCHANGED sendVars, out' \in Seq(Frame)
      PROVE  SendIInv'
  BY <1>0, <1>1 DEF SendIInv, SendTypeOK, sendVars, LongMessage, SendAccounting, Sending
<1>2. <<>> \in Seq(Frame)
  OBVIOUS
<1>3. ASSUME NEW m \in Messages, BeginSend(m), SendInput
      PROVE  UserInv' /\ SharedInv'
  <2>1. m \in TxBuffer
    BY MessageType
  <2>2. /\ user' \in Users /\ user'.at = "send_data"
        /\ user.at = "none" /\ send.status = "TX_IDLE"
    BY <1>0, <1>3, <2>1 DEF BeginSend, Users
  <2>3. ~confirming /\ confirming' = TRUE /\ refused' = refused
    BY <1>3 DEF SendInput
  <2>4. UNCHANGED <<txbuf, send>> /\ UNCHANGED sendVars /\ out' = <<>>
    BY <1>3 DEF BeginSend, UserStep, sendVars
  <2>5. txbuf.length = 0
    BY <2>2, <2>3 DEF SharedInv, IdleInv
  <2>6. UserInv'
    BY <1>0, <2>2, <2>3 DEF UserInv
  <2>7. SendIInv'
    BY <1>1, <1>2, <2>4
  <2>8. (IdleInv /\ OwnInv /\ OutInv /\ ToldInv)'
    BY <2>2, <2>4, <2>5 DEF IdleInv, OwnInv, OutInv, ToldInv
  <2> QED
    BY <2>6, <2>7, <2>8 DEF SharedInv
<1>4. ASSUME SendInput, UNCHANGED <<vars, user>>, send.status # "TX_IDLE"
      PROVE  UserInv' /\ SharedInv'
  <2>1. /\ UNCHANGED <<txbuf, send, user, wire, refused>> /\ UNCHANGED sendVars /\ out' = out
        /\ confirming' = TRUE
    BY <1>4 DEF SendInput, vars, sendVars
  <2>2. UserInv'
    BY <2>1 DEF UserInv
  <2>3. SendIInv'
    BY <1>1, <2>1 DEF SharedInv, SendIInv, SendTypeOK
  <2>4. WireOf(txbuf') = WireOf(txbuf) /\ WireOf(user'.m) = WireOf(user.m)
    BY <2>1
  <2>5. Seen(wire') = Seen(wire)
    BY <2>1
  <2>6. (IdleInv /\ OwnInv /\ OutInv /\ ToldInv)'
    BY <1>4, <2>1, <2>4, <2>5 DEF SharedInv, IdleInv, OwnInv, OutInv, ToldInv, Sending
  <2> QED
    BY <2>2, <2>3, <2>6 DEF SharedInv
<1>5. CASE InCall
  <2>1. UNCHANGED <<confirming, wire, refused>> /\ user.at # "none"
    BY <1>5 DEF InCall, SendStores, SendData, SendLength, SendResult, Go, testHistory
  <2>2. confirming = TRUE
    BY <2>1 DEF UserInv
  <2>3. CASE SendData
    <3>1. /\ user.at = "send_data" /\ user' = [user EXCEPT !.at = "send_length"]
          /\ txbuf' = [user.m EXCEPT !.length = txbuf.length]
          /\ send' = send /\ UNCHANGED <<sendFC, sendTimer>> /\ out' = <<>>
      BY <2>3 DEF SendData, Go, UserStep
    <3>2. user' \in Users /\ user'.at = "send_length" /\ user'.m = user.m
      BY <1>0, <3>1 DEF Users
    <3>3. send.status = "TX_IDLE" /\ txbuf.length = 0
      BY <3>1 DEF SharedInv, IdleInv
    <3>4. user.m \in TxBuffer
      BY <1>0 DEF Users
    <3>5. txbuf' \in TxBuffer /\ txbuf'.length = 0
      BY <3>1, <3>3, <3>4, Zeros DEF TxBuffer
    <3>6. UserInv'
      BY <1>0, <2>1, <2>2, <3>2 DEF UserInv
    <3>7. SendIInv'
      BY <1>0, <1>2, <3>1, <3>3, <3>5
      DEF SendIInv, SendTypeOK, LongMessage, SendAccounting, Sending
    <3>8. txbuf' = [user'.m EXCEPT !.length = txbuf'.length]
      BY <3>1, <3>2, <3>3, <3>5
    <3>9. (IdleInv /\ OwnInv /\ OutInv /\ ToldInv)'
      BY <3>1, <3>2, <3>3, <3>5, <3>8 DEF IdleInv, OwnInv, OutInv, ToldInv
    <3> QED
      BY <3>6, <3>7, <3>9 DEF SharedInv
  <2>4. CASE SendLength
    <3>1. /\ user.at = "send_length" /\ user' = [user EXCEPT !.at = "send_result"]
          /\ txbuf' = [txbuf EXCEPT !.length = user.m.length]
          /\ send' = send /\ UNCHANGED <<sendFC, sendTimer>> /\ out' = <<>>
      BY <2>4 DEF SendLength, Go, UserStep
    <3>2. user' \in Users /\ user'.at = "send_result" /\ user'.m = user.m
      BY <1>0, <3>1 DEF Users
    <3>3. send.status = "TX_IDLE"
      BY <3>1 DEF SharedInv, IdleInv
    <3>4. user.m \in TxBuffer
      BY <1>0 DEF Users
    <3>5. txbuf = [user.m EXCEPT !.length = txbuf.length]
      BY <3>1 DEF SharedInv, OwnInv
    <3>6. txbuf' = user.m
      BY <3>1, <3>4, <3>5 DEF TxBuffer
    <3>7. UserInv'
      BY <1>0, <2>1, <2>2, <3>2 DEF UserInv
    <3>8. SendIInv'
      BY <1>0, <1>2, <3>1, <3>3, <3>4, <3>6
      DEF SendIInv, SendTypeOK, LongMessage, SendAccounting, Sending
    <3>9. (IdleInv /\ OwnInv /\ OutInv /\ ToldInv)'
      BY <3>1, <3>2, <3>3, <3>6 DEF IdleInv, OwnInv, OutInv, ToldInv
    <3> QED
      BY <3>7, <3>8, <3>9 DEF SharedInv
  <2>5. CASE SendResult
    <3>1. /\ user.at = "send_result" /\ user' = [user EXCEPT !.at = "none"]
          /\ send' = [send EXCEPT !.N_result = "N_INVALID"]
          /\ UNCHANGED <<txbuf, sendFC, sendTimer>> /\ out' = <<>>
      BY <2>5 DEF SendResult, Go, UserStep
    <3>2. user' \in Users /\ user'.at = "none" /\ user'.m = user.m
      BY <1>0, <3>1 DEF Users
    <3>3. /\ send' \in TxRuntime /\ send'.N_result = "N_INVALID"
          /\ send'.status = send.status /\ send'.pos = send.pos
          /\ send'.length = send.length /\ send'.CF_SN = send.CF_SN
      BY <1>0, <3>1 DEF TxRuntime, SendResults
    <3>4. UserInv'
      BY <1>0, <2>1, <2>2, <3>2 DEF UserInv
    <3>5. SendIInv'
      BY <1>0, <1>2, <3>1, <3>3
      DEF SendIInv, SendTypeOK, LongMessage, SendAccounting, Sending
    <3>6. IdleInv' /\ ToldInv'
      BY <2>1, <2>2, <3>2, <3>3 DEF IdleInv, ToldInv
    <3>7. OwnInv'
      BY <3>1, <3>2 DEF SharedInv, OwnInv
    <3>8. WireOf(txbuf') = WireOf(txbuf)
      BY <3>1
    <3>9. OutInv'
      BY <2>1, <3>1, <3>3, <3>8 DEF SharedInv, OutInv, Sending
    <3> QED
      BY <3>4, <3>5, <3>6, <3>7, <3>9 DEF SharedInv
  <2> QED
    BY <1>5, <2>3, <2>4, <2>5 DEF InCall, SendStores
<1>6. CASE Confirm
  <2>1. /\ UNCHANGED <<txbuf, send, user, wire, refused>> /\ UNCHANGED sendVars /\ out' = out
        /\ confirming' = FALSE /\ user.at = "none" /\ send.N_result # "N_INVALID"
    BY <1>6 DEF Confirm, vars, sendVars, testHistory
  <2>2. UserInv'
    BY <2>1 DEF UserInv
  <2>3. SendIInv'
    BY <1>1, <2>1 DEF SharedInv, SendIInv, SendTypeOK
  <2>4. WireOf(txbuf') = WireOf(txbuf) /\ WireOf(user'.m) = WireOf(user.m)
    BY <2>1
  <2>5. Seen(wire') = Seen(wire)
    BY <2>1
  <2>6. (IdleInv /\ OwnInv /\ OutInv /\ ToldInv)'
    BY <2>1, <2>4, <2>5 DEF SharedInv, IdleInv, OwnInv, OutInv, ToldInv, Sending
  <2> QED
    BY <2>2, <2>3, <2>6 DEF SharedInv
<1> QED
  BY <1>3, <1>4, <1>5, <1>6 DEF SendInput

-----------------------------------------------------------------------------
LEMMA TestInitially == TestInit => TestIInv
<1> SUFFICES ASSUME TestInit
             PROVE  TestIInv
  OBVIOUS
<1>1. SendIInv /\ RcvTypeOK
  BY SendInitially, RcvInitially DEF TestInit, Init
<1>2. [length |-> 0, id |-> NoId, msg |-> NoData.msg] \in TxBuffer
  BY Zeros, Defaults DEF TxBuffer, Data
<1>3. user \in Users /\ user.at = "none" /\ confirming = FALSE
  BY <1>2 DEF TestInit, UserInit, Users
<1>4. send.status = "TX_IDLE" /\ send.N_result = "N_INVALID" /\ txbuf.length = 0
  BY DEF TestInit, Init, SendInit
<1>5. UserInv /\ SharedInv
  BY <1>1, <1>3, <1>4 DEF UserInv, SharedInv, IdleInv, OwnInv, OutInv, ToldInv
<1> QED
  BY <1>1, <1>5 DEF TestIInv

LEMMA TestStep == TestIInv /\ [TestNext]_test => TestIInv'
<1> SUFFICES ASSUME TestIInv, [TestNext]_test
             PROVE  TestIInv'
  OBVIOUS
<1>1. CASE UNCHANGED test
  <2>1. /\ UNCHANGED <<txbuf, send, sendFC, sendTimer, out>>
        /\ UNCHANGED <<rxbuf, rcv, rcvFC, rcvTimer, pdu, frame_type, mailbox>>
        /\ UNCHANGED <<user, confirming, wire, refused>>
    BY <1>1 DEF test, vars, testHistory
  <2>2. RcvTypeOK' = RcvTypeOK
    BY <2>1 DEF RcvTypeOK
  <2>3. SendIInv' = SendIInv
    BY <2>1 DEF SendIInv, SendTypeOK, LongMessage, SendAccounting, Sending
  <2>4. WireOf(txbuf') = WireOf(txbuf) /\ WireOf(user'.m) = WireOf(user.m)
    BY <2>1
  <2>5. Seen(wire') = Seen(wire)
    BY <2>1
  <2>6. UserInv /\ SharedInv => UserInv' /\ SharedInv'
    BY <2>1, <2>3, <2>4, <2>5
    DEF UserInv, SharedInv, IdleInv, OwnInv, OutInv, ToldInv, Sending
  <2> QED
    BY <2>1, <2>2, <2>6 DEF TestIInv
<1>2. CASE Daemon \/ DaemonReceive \/ RxNotification
  <2>1. Next
    <3>1. Daemon => MainNetworkLayer
      BY DEF Daemon
    <3>2. DaemonReceive => \E id \in RcvIds : Receive(id)
      BY DEF DaemonReceive
    <3>3. RxNotification => \E f \in Frames : Deliver(f)
      BY DEF RxNotification
    <3> QED
      BY <1>2, <3>1, <3>2, <3>3 DEF Next
  <2>2. RcvTypeOK'
    <3>1. RcvTypeOK
      BY DEF TestIInv
    <3>2. CASE RxPart /\ Rx
      BY <3>1, <3>2, RxTypes
    <3>3. CASE ~(RxPart /\ Rx)
      BY <2>1, <3>1, <3>3, RcvOthers
    <3> QED
      BY <3>2, <3>3
  <2>3. ASSUME ~refused'
        PROVE  UserInv' /\ SharedInv'
    <3>1. ~refused
      BY <1>2, <2>3 DEF Daemon, DaemonReceive, RxNotification, testHistory
    <3>2. UserInv /\ SharedInv /\ RcvTypeOK
      BY <3>1 DEF TestIInv
    <3>3. SendIInv'
      <4>1. SendIInv
        BY <3>2 DEF SharedInv
      <4>2. CASE Tx
        BY <4>1, <4>2, TxKeeps DEF Tx
      <4>3. CASE ~Tx
        BY <2>1, <3>2, <4>1, <4>3, SendOthers
      <4> QED
        BY <4>2, <4>3
    <3>4. UserInv'
      BY <1>2, <3>2 DEF UserInv, Daemon, DaemonReceive, RxNotification
    <3> QED
      BY <1>2, <2>3, <3>2, <3>3, <3>4, TickStep
  <2> QED
    BY <2>2, <2>3 DEF TestIInv
<1>3. CASE SendInput \/ InCall \/ Confirm
  <2>1. UNCHANGED <<rxbuf, rcv, rcvFC, rcvTimer, pdu, frame_type, mailbox, refused>>
    <3>1. CASE SendInput
      BY <3>1 DEF SendInput, BeginSend, UserStep, vars
    <3>2. CASE InCall
      BY <3>2 DEF InCall, SendStores, SendData, SendLength, SendResult, UserStep, testHistory
    <3>3. CASE Confirm
      BY <3>3 DEF Confirm, vars, testHistory
    <3> QED
      BY <1>3, <3>1, <3>2, <3>3
  <2>2. RcvTypeOK'
    BY <2>1 DEF TestIInv, RcvTypeOK
  <2>3. ~refused' => UserInv' /\ SharedInv'
    BY <1>3, <2>1, MainStep DEF TestIInv
  <2> QED
    BY <2>2, <2>3 DEF TestIInv
<1> QED
  BY <1>1, <1>2, <1>3 DEF TestNext

(* The stores of send_network_layer, made while the other thread ticks,      *)
(* never reach into a message that is being sent, unless an invalid flow     *)
(* control frame came (can_tp.c:197-202, 269-290).                           *)
THEOREM NotWedgedHolds == TestSpec => []NotWedged
<1>1. TestIInv => NotWedged
  BY DEF TestIInv, SharedInv, SendIInv, NotWedged
<1> QED
  BY <1>1, TestInitially, TestStep, PTL DEF TestSpec

(* When the main thread is told N_OK its message has gone out, whole and     *)
(* with nothing of another (can_tp.c:269-298, can_tp_test.c:95-148).         *)
THEOREM OKMeansSentHolds == TestSpec => OKMeansSent
<1>1. TestIInv /\ [TestNext]_test =>
        [Confirm /\ send.N_result = "N_OK" /\ ~dropped /\ ~refused
           => Seen(wire) = WireOf(user.m)]_test
  <2> SUFFICES ASSUME TestIInv, Confirm, send.N_result = "N_OK", ~refused
               PROVE  Seen(wire) = WireOf(user.m)
    OBVIOUS
  <2>1. SharedInv /\ user.at = "none"
    BY DEF TestIInv, Confirm
  <2>2. CASE send.status = "TX_IDLE"
    BY <2>1, <2>2 DEF SharedInv, ToldInv
  <2>3. CASE send.status = "SEND_OK"
    <3>1. txbuf \in TxBuffer /\ txbuf.length >= CAN_FRAME_SIZE
      BY <2>1, <2>3 DEF SharedInv, SendIInv, SendTypeOK, LongMessage
    <3>2. txbuf = user.m
      BY <2>1, <3>1, Sizes DEF SharedInv, OwnInv, TxBuffer
    <3> QED
      BY <2>1, <2>3, <3>1, <3>2, SeenWhole DEF SharedInv, OutInv
  <2> QED
    BY <2>1, <2>2, <2>3 DEF SharedInv, ToldInv
<1> QED
  BY <1>1, TestInitially, TestStep, PTL DEF TestSpec, OKMeansSent
=============================================================================

----------------------------- MODULE CanTpCalls -----------------------------
(* send_network_layer and receive_network_layer store by store, as a thread  *)
(* executes them beside the one that calls main_network_layer: there is no   *)
(* lock.  Stores take effect in the order of the program, and a part of a    *)
(* tick (tx, fc, rx, timer) is one step.  What a caller does between its     *)
(* calls is left to the module that EXTENDS this one.                        *)
EXTENDS CanTp

VARIABLE user   \* the next statement of a call, the argument of a send, the
                \* segments copied so far, and the user's buffer

UserInit == user = [at |-> "none", n |-> 0,
                    m |-> [length |-> 0, id |-> NoId, msg |-> NoData.msg],
                    got |-> [length |-> 0, segs |-> <<>>]]

Go(from, to) == user.at = from /\ user' = [user EXCEPT !.at = to]

(* A step of the user changes nothing else of the transport layer.           *)
UserStep == out' = <<>> /\ UNCHANGED <<sendFC, sendTimer, rcvFC, rcvTimer, pdu,
                                       frame_type, mailbox, pc>>

-----------------------------------------------------------------------------
(* send_network_layer: a message is taken if the status is TX_IDLE, and else *)
(* dropped, which is no step.  The fault: it is taken at any time.           *)
BeginSendAnyway(m) ==
    /\ user.at = "none"
    /\ user' = [user EXCEPT !.at = "send_data", !.m = m]
    /\ UserStep /\ UNCHANGED <<txbuf, send, rxbuf, rcv>>
BeginSend(m) ==
    /\ user.at = "none" /\ send.status = "TX_IDLE"
    /\ user' = [user EXCEPT !.at = "send_data", !.m = m]
    /\ UserStep /\ UNCHANGED <<txbuf, send, rxbuf, rcv>>

SendData ==
    /\ Go("send_data", "send_length")
    /\ txbuf' = [user.m EXCEPT !.length = txbuf.length]
    /\ UserStep /\ UNCHANGED <<send, rxbuf, rcv>>

SendLength ==
    /\ Go("send_length", "send_result")
    /\ txbuf' = [txbuf EXCEPT !.length = user.m.length]
    /\ UserStep /\ UNCHANGED <<send, rxbuf, rcv>>

(* The fault: the result of the last message stays.                          *)
SendResultKept ==
    /\ Go("send_result", "none")
    /\ UserStep /\ UNCHANGED <<txbuf, send, rxbuf, rcv>>
SendResult ==
    /\ Go("send_result", "none")
    /\ send' = [send EXCEPT !.N_result = "N_INVALID"]
    /\ UserStep /\ UNCHANGED <<txbuf, rxbuf, rcv>>

SendStores == SendData \/ SendLength \/ SendResult

-----------------------------------------------------------------------------
(* receive_network_layer: a call that finds no message changes nothing.      *)
BeginReceive(id) ==
    /\ user.at = "none" /\ rcv.N_result = "N_OK" /\ rxbuf.id = id
    /\ user' = [user EXCEPT !.at = "rcv_data", !.n = 0]
    /\ UserStep /\ UNCHANGED <<txbuf, send, rxbuf, rcv>>

(* The bytes are copied as long as there are some in Rx_buf.length, which is *)
(* read again for each.  Where the message that is coming in has not got to, *)
(* there is what an earlier one left.                                        *)
SegmentsIn(length, type) ==
    IF length = 0 THEN 0 ELSE IF type = "SF" THEN 1 ELSE 1 + Consecutives(length)
LeftOver == [type |-> "CF", data |-> NoData]

ReceiveData ==
    /\ user.at = "rcv_data"
    /\ user' =
         IF user.n < SegmentsIn(rxbuf.length, rxbuf.segs[1].type)
         THEN LET s == IF user.n < Len(rxbuf.segs) THEN rxbuf.segs[user.n + 1]
                       ELSE LeftOver
              IN  [user EXCEPT !.n = @ + 1,
                       !.got.segs = IF user.n = 0 THEN <<s>> ELSE Append(@, s)]
         ELSE [user EXCEPT !.at = "rcv_length"]
    /\ UserStep /\ UNCHANGED <<txbuf, send, rxbuf, rcv>>

ReceiveLength ==
    /\ user.at = "rcv_length"
    /\ user' = [user EXCEPT !.at = "rcv_clear", !.got.length = rxbuf.length]
    /\ UserStep /\ UNCHANGED <<txbuf, send, rxbuf, rcv>>

ReceiveClear ==
    /\ Go("rcv_clear", "rcv_result")
    /\ rxbuf' = [rxbuf EXCEPT !.length = 0]
    /\ UserStep /\ UNCHANGED <<txbuf, send, rcv>>

ReceiveResult ==
    /\ Go("rcv_result", "none")
    /\ rcv' = [rcv EXCEPT !.N_result = "N_INVALID"]
    /\ UserStep /\ UNCHANGED <<txbuf, send, rxbuf>>

ReceiveLoads == ReceiveData \/ ReceiveLength \/ ReceiveClear
=============================================================================

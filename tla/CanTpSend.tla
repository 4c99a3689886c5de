----------------------------- MODULE CanTpSend -----------------------------
(* The sending half of the transport layer: send_network_layer, the part of  *)
(* main_network_layer that builds single and multiple frames, and the        *)
(* reception of flow control.  An action leaves the variables of this module *)
(* that it does not name unchanged; `out` holds the frames that the last     *)
(* step handed to the link layer (fp_send_ll).                               *)
(*                                                                           *)
(* send.N_PDU is handed over in the step that builds it, so its is_valid is  *)
(* FALSE between steps and only its N_AI (send.id) is kept; the branches for *)
(* N_TIMEOUT_A (send_link_layer, line 844) cannot be reached.                *)
EXTENDS CanTpDefs

VARIABLES
    txbuf,      \* Tx_buf: the message to send
    send,       \* the state machine of send_multiple_frame
    sendFC,     \* send.FC: flow control received from the peer
    sendTimer,  \* the timers N_Bs and STmin
    out

sendVars == <<txbuf, send, sendFC, sendTimer>>

NoData == [msg |-> CHOOSE m \in Msgs : TRUE, pos |-> 0]
NoId == CHOOSE i \in Ids : TRUE

TxStates == {"TX_IDLE", "SEND_FF", "WAIT_FC", "SEND_CF", "SEND_OK"}

TxBuffer == [length : 0 .. N_DATA_MAX, id : Ids, msg : Msgs]

(* pos is p_data - Tx_buf.buf, arm the static flag of the case WAIT_FC.      *)
TxRuntime == [status : TxStates, N_result : SendResults, pos : 0 .. N_DATA_MAX,
              length : 0 .. N_DATA_MAX, CF_SN : 0 .. SN_MOD - 1, id : Ids,
              arm : BOOLEAN]

TxTimers == [N_Bs : Timer(TIMER_B_S), STmin : Timer(127)]

SendTypeOK ==
    /\ txbuf \in TxBuffer
    /\ send \in TxRuntime
    /\ sendFC \in FCParam
    /\ sendTimer \in TxTimers
    /\ out \in Seq(Frame)

SendInit ==
    /\ txbuf = [length |-> 0, id |-> NoId, msg |-> NoData.msg]
    /\ send = [status |-> "TX_IDLE", N_result |-> "N_INVALID", pos |-> 0,
               length |-> 0, CF_SN |-> 0, id |-> NoId, arm |-> TRUE]
    /\ sendFC = [is_valid |-> FALSE, FS |-> CTS, BS |-> 0, STmin |-> 0]
    /\ sendTimer = [N_Bs |-> Stopped, STmin |-> Stopped]
    /\ out = <<>>

(* The fault: p_data is not moved on.                                        *)
SegmentFromStart == [msg |-> txbuf.msg, pos |-> 0]
Segment == [msg |-> txbuf.msg, pos |-> send.pos]

-----------------------------------------------------------------------------
(* A call of send_network_layer while a multiple frame is on its way changes *)
(* nothing.                                                                  *)
SendNetworkLayer(m) ==
    /\ send.status = "TX_IDLE"
    /\ txbuf' = m
    /\ send' = [send EXCEPT !.N_result = "N_INVALID"]
    /\ out' = <<>>
    /\ UNCHANGED <<sendFC, sendTimer>>

TxNothing ==
    /\ txbuf.length = 0
    /\ out' = <<>>
    /\ UNCHANGED sendVars

SendSingleFrame ==
    /\ txbuf.length \in 1 .. CAN_FRAME_SIZE - 1
    /\ out' = <<[type |-> "SF", lo |-> txbuf.length, b1 |-> 0, b2 |-> 0,
                 id |-> txbuf.id, data |-> [msg |-> txbuf.msg, pos |-> 0]]>>
    /\ txbuf' = [txbuf EXCEPT !.length = 0]
    /\ send' = [send EXCEPT !.N_result = "N_OK", !.id = txbuf.id]
    /\ UNCHANGED <<sendFC, sendTimer>>

-----------------------------------------------------------------------------
(* One call of send_multiple_frame, a disjunct for each case of its switch.  *)
InState(s) == txbuf.length >= CAN_FRAME_SIZE /\ send.status = s

StartMultipleFrame ==
    /\ InState("TX_IDLE")
    /\ send' = [send EXCEPT !.status = "SEND_FF", !.id = txbuf.id]
    /\ out' = <<>>
    /\ UNCHANGED <<txbuf, sendFC, sendTimer>>

SendFirstFrame ==
    /\ InState("SEND_FF")
    /\ out' = <<[type |-> "FF", lo |-> txbuf.length \div 256,
                 b1 |-> txbuf.length % 256, b2 |-> 0, id |-> txbuf.id,
                 data |-> [msg |-> txbuf.msg, pos |-> 0]]>>
    /\ send' = [send EXCEPT !.status = "WAIT_FC", !.CF_SN = 1, !.pos = FF_DATA,
                            !.length = txbuf.length - FF_DATA]
    /\ UNCHANGED <<txbuf, sendFC, sendTimer>>

(* N_Bs as the case WAIT_FC reads it: armed by the first call.  The faults:  *)
(* it is not armed, or armed by every call.                                  *)
N_BsUnarmed == sendTimer.N_Bs
N_BsRestarted == TIMER_B_S
N_Bs == IF send.arm THEN TIMER_B_S ELSE sendTimer.N_Bs

FlowControlPending ==
    /\ InState("WAIT_FC") /\ ~sendFC.is_valid /\ Timing(N_Bs)
    /\ send' = [send EXCEPT !.arm = FALSE]
    /\ sendTimer' = [sendTimer EXCEPT !.N_Bs = N_Bs]
    /\ out' = <<>>
    /\ UNCHANGED <<txbuf, sendFC>>

FlowControlArrived ==
    /\ InState("WAIT_FC") /\ sendFC.is_valid /\ Timing(N_Bs)
    /\ send' = [send EXCEPT !.status = "SEND_CF", !.arm = TRUE]
    /\ sendTimer' = [N_Bs |-> N_Bs, STmin |-> 0]
    /\ out' = <<>>
    /\ UNCHANGED <<txbuf, sendFC>>

FlowControlTimeout ==
    /\ InState("WAIT_FC") /\ ~Timing(N_Bs)
    /\ send' = [send EXCEPT !.status = "SEND_OK", !.arm = TRUE,
                            !.N_result = "N_TIMEOUT_Bs"]
    /\ out' = <<>>
    /\ UNCHANGED <<txbuf, sendFC, sendTimer>>

(* STmin in ticks; the fault converts it twice.                              *)
SeparationTwice == (sendFC.STmin \div MAIN_NETWORK_LAYER_PERIOD)
                      \div MAIN_NETWORK_LAYER_PERIOD
Separation == sendFC.STmin \div MAIN_NETWORK_LAYER_PERIOD

(* The last frame leaves pos and length where they are.                      *)
SendConsecutiveFrame ==
    LET last == send.length <= CF_DATA
        blockEnds == sendFC.BS = 1
    IN
    /\ InState("SEND_CF") /\ sendFC.FS = CTS /\ ~Timing(sendTimer.STmin)
    /\ \E b1 \in DataBytes :
         out' = <<[type |-> "CF", lo |-> send.CF_SN, b1 |-> b1, b2 |-> 0,
                   id |-> txbuf.id, data |-> Segment]>>
    /\ sendFC' = [sendFC EXCEPT !.BS = DecByte(@), !.is_valid = @ /\ ~blockEnds]
    /\ send' = IF last
               THEN [send EXCEPT !.CF_SN = NextSN(@), !.status = "SEND_OK",
                                 !.N_result = "N_OK"]
               ELSE [send EXCEPT !.CF_SN = NextSN(@),
                                 !.status = IF blockEnds THEN "WAIT_FC" ELSE @,
                                 !.pos = @ + CF_DATA, !.length = @ - CF_DATA]
    /\ sendTimer' = [sendTimer EXCEPT !.STmin = Separation]
    /\ UNCHANGED txbuf

SeparationWait ==
    /\ InState("SEND_CF") /\ sendFC.FS = CTS /\ Timing(sendTimer.STmin)
    /\ out' = <<>>
    /\ UNCHANGED sendVars

FlowWait ==
    /\ InState("SEND_CF") /\ sendFC.FS = WT
    /\ sendTimer' = [sendTimer EXCEPT !.N_Bs = TIMER_B_S]
    /\ out' = <<>>
    /\ UNCHANGED <<txbuf, send, sendFC>>

FlowOverflow ==
    /\ InState("SEND_CF") /\ sendFC.FS = OVFLW
    /\ send' = [send EXCEPT !.status = "SEND_OK", !.N_result = "N_BUFFER_OVFLW"]
    /\ out' = <<>>
    /\ UNCHANGED <<txbuf, sendFC, sendTimer>>

FlowReserved ==
    /\ InState("SEND_CF") /\ sendFC.FS >= RESERVED
    /\ out' = <<>>
    /\ UNCHANGED sendVars

FinishSend ==
    /\ InState("SEND_OK")
    /\ txbuf' = [txbuf EXCEPT !.length = 0]
    /\ send' = [send EXCEPT !.status = "TX_IDLE", !.pos = 0, !.length = 0,
                            !.CF_SN = 0]
    /\ sendFC' = [sendFC EXCEPT !.is_valid = FALSE]
    /\ sendTimer' = [N_Bs |-> Stopped, STmin |-> Stopped]
    /\ out' = <<>>

SendMultipleFrame ==
    \/ StartMultipleFrame
    \/ SendFirstFrame
    \/ FlowControlPending \/ FlowControlArrived \/ FlowControlTimeout
    \/ SendConsecutiveFrame \/ SeparationWait
    \/ FlowWait \/ FlowOverflow \/ FlowReserved
    \/ FinishSend

TxPart == TxNothing \/ SendSingleFrame \/ SendMultipleFrame

-----------------------------------------------------------------------------
ValidFC(f) == f.lo < RESERVED /\ f.b1 < FC_BS_BAX /\ f.b2 < FC_STMIN_BAX

(* The parameters are stored before they are judged.                         *)
RcvFlowCtrlFrame(f) ==
    /\ sendFC' = [is_valid |-> sendFC.is_valid \/ ValidFC(f),
                  FS |-> f.lo, BS |-> f.b1, STmin |-> f.b2]
    /\ send' = IF ValidFC(f) THEN send
               ELSE [send EXCEPT !.N_result = "N_INVALID_FS"]
    /\ UNCHANGED <<txbuf, sendTimer>>

SendTimerCtrl ==
    /\ sendTimer' = [N_Bs |-> Tick(sendTimer.N_Bs), STmin |-> Tick(sendTimer.STmin)]
    /\ UNCHANGED <<txbuf, send, sendFC>>
-----------------------------------------------------------------------------
(* A multiple frame is on its way only for a message that needs one          *)
(* (can_tp.c:195-202, 536).                                                  *)
LongMessage == send.status # "TX_IDLE" => txbuf.length >= CAN_FRAME_SIZE

Sending == send.status \in {"WAIT_FC", "SEND_CF"}

(* The sender keeps its counters in step: what is left and what was sent     *)
(* make up the message, and the sequence number follows from the place in it *)
(* (can_tp.c:409-426, 453-497).                                              *)
SendAccounting ==
    Sending => \E k \in 0 .. N_DATA_MAX :
        /\ send.pos = FF_DATA + CF_DATA * k
        /\ send.pos + send.length = txbuf.length
        /\ send.length > 0
        /\ send.CF_SN = (k + 1) % SN_MOD
=============================================================================

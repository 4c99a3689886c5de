------------------------------ MODULE CanTpRcv ------------------------------
(* The receiving half of the transport layer: the part of main_network_layer *)
(* that takes a frame from the link layer and runs rcv_single_frame and      *)
(* rcv_multiple_frame, and receive_network_layer.  An action leaves the      *)
(* variables of this module that it does not name unchanged.                 *)
(*                                                                           *)
(* rcv.FC.FS is only ever CTS or OVFLW, and a masked type is one of the four *)
(* that the switch of main_network_layer names: the other branches (lines    *)
(* 259-262, 699-702, 712, 717) cannot be reached.                            *)
EXTENDS CanTpDefs

VARIABLES
    rxbuf,      \* Rx_buf: the message received
    rcv,        \* the state machine of rcv_multiple_frame
    rcvFC,      \* rcv.FC: flow control to send to the peer
    rcvTimer,   \* the timers N_Br and N_Cr
    pdu,        \* rcv.N_PDU: the last frame taken from the link layer
    frame_type, \* the static variable of main_network_layer
    mailbox     \* the link layer's one-place buffer

rcvVars == <<rxbuf, rcv, rcvFC, rcvTimer, pdu, frame_type, mailbox>>

RxStates == {"RX_IDLE", "RCV_FF", "SEND_FC", "RCV_CF", "RCV_OK"}
Unknown == "UNKOWN"

(* The frames whose data was copied to buf, in the order of their places.    *)
Segments == Seq([type : FrameTypes, data : Data])
RxBuffer == [length : 0 .. N_DATA_MAX, id : Ids, segs : Segments]

RxRuntime == [status : RxStates, N_result : RcvResults, length : 0 .. N_DATA_MAX,
              CF_SN : 0 .. SN_MOD - 1]

RxTimers == [N_Br : Timer(TIMER_B_R), N_Cr : Timer(TIMER_C_R)]

NoFrame == [type |-> "SF", lo |-> 0, b1 |-> 0, b2 |-> 0,
            id |-> CHOOSE i \in Ids : TRUE,
            data |-> [msg |-> CHOOSE m \in Msgs : TRUE, pos |-> 0]]

RcvTypeOK ==
    /\ rxbuf \in RxBuffer
    /\ rcv \in RxRuntime
    /\ rcvFC \in FCParam
    /\ rcvTimer \in RxTimers
    /\ pdu \in [is_valid : BOOLEAN, f : Frame]
    /\ frame_type \in {"FF", "CF", Unknown}
    /\ mailbox \in Seq(Frame) /\ Len(mailbox) <= 1

RcvInit ==
    /\ rxbuf = [length |-> 0, id |-> NoFrame.id, segs |-> <<>>]
    /\ rcv = [status |-> "RX_IDLE", N_result |-> "N_INVALID", length |-> 0,
              CF_SN |-> 0]
    /\ rcvFC = [is_valid |-> FALSE, FS |-> CTS, BS |-> 0, STmin |-> 0]
    /\ rcvTimer = [N_Br |-> Stopped, N_Cr |-> Stopped]
    /\ pdu = [is_valid |-> FALSE, f |-> NoFrame]
    /\ frame_type = Unknown
    /\ mailbox = <<>>

Copied(f) == [type |-> f.type, data |-> f.data]

-----------------------------------------------------------------------------
(* receive_link_layer: an empty mailbox leaves the PDU as it is.  Frame and  *)
(* Kind are what the switch of main_network_layer then works on.             *)
Pdu == IF mailbox = <<>> THEN pdu ELSE [is_valid |-> TRUE, f |-> mailbox[1]]

Kind == IF ~Pdu.is_valid THEN frame_type
        ELSE IF Pdu.f.type = "SF" /\ rcv.status # "RX_IDLE" THEN Unknown
        ELSE Pdu.f.type

Take(valid) == pdu' = [Pdu EXCEPT !.is_valid = @ /\ valid] /\ mailbox' = <<>>
Keep == Take(TRUE)
Consume == Take(FALSE)

RcvUnknown ==
    /\ Kind = Unknown
    /\ Keep
    /\ frame_type' = Unknown
    /\ UNCHANGED <<rxbuf, rcv, rcvFC, rcvTimer>>

RcvSingleFrame ==
    /\ Kind = "SF"
    /\ Pdu.f.lo \in 1 .. CF_DATA
    /\ rxbuf' = [length |-> Pdu.f.lo, id |-> Pdu.f.id, segs |-> <<Copied(Pdu.f)>>]
    /\ rcv' = [rcv EXCEPT !.N_result = "N_OK"]
    /\ Consume
    /\ frame_type' = Unknown
    /\ UNCHANGED <<rcvFC, rcvTimer>>

RcvSingleFrameError ==
    /\ Kind = "SF"
    /\ Pdu.f.lo \notin 1 .. CF_DATA
    /\ rxbuf' = [rxbuf EXCEPT !.id = Pdu.f.id]
    /\ rcv' = [rcv EXCEPT !.N_result = "N_ERROR"]
    /\ Keep
    /\ frame_type' = Unknown
    /\ UNCHANGED <<rcvFC, rcvTimer>>

-----------------------------------------------------------------------------
(* One call of rcv_multiple_frame, a disjunct for each case of its switch.   *)
(* The static frame_type keeps the machine running until it is idle again.   *)
InFlow(s) == Kind \in {"FF", "CF"} /\ rcv.status = s

Continue == frame_type' = IF rcv'.status = "RX_IDLE" THEN Unknown ELSE Kind

(* RCV_SEND_FC and SWITCH_TO_RCV_OK.                                         *)
FlowControl(fs, bs) == [is_valid |-> TRUE, FS |-> fs, BS |-> bs,
                        STmin |-> TIMER_FC_STMIN]
RcvOK(result) == [rcv EXCEPT !.status = "RCV_OK", !.N_result = result]

IdleFirstFrame ==
    /\ InFlow("RX_IDLE")
    /\ rcv' = IF Pdu.f.type = "FF" THEN [rcv EXCEPT !.status = "RCV_FF"] ELSE rcv
    /\ Keep
    /\ UNCHANGED <<rxbuf, rcvFC, rcvTimer>>
    /\ Continue

(* A first frame takes the result of the last message away; the fault keeps  *)
(* it.                                                                       *)
ResultKept == rcv
ResultCleared == [rcv EXCEPT !.N_result = "N_INVALID"]

(* rcv_first_frame parses whatever frame the PDU holds by now.               *)
FirstFrame ==
    /\ InFlow("RCV_FF")
    /\ FF_DL(Pdu.f) \in FF_DATA + 1 .. N_DATA_MAX
    /\ rxbuf' = [length |-> FF_DL(Pdu.f), id |-> Pdu.f.id,
                 segs |-> <<Copied(Pdu.f)>>]
    /\ rcv' = [ResultCleared EXCEPT !.status = "SEND_FC", !.CF_SN = 1,
                                     !.length = FF_DL(Pdu.f) - FF_DATA]
    /\ rcvFC' = FlowControl(CTS, FC_BS - 1)
    /\ rcvTimer' = [rcvTimer EXCEPT !.N_Br = TIMER_B_R]
    /\ Consume
    /\ Continue

FirstFrameTooLong ==
    /\ InFlow("RCV_FF")
    /\ FF_DL(Pdu.f) > N_DATA_MAX
    /\ rxbuf' = [rxbuf EXCEPT !.id = Pdu.f.id]
    /\ rcv' = [ResultCleared EXCEPT !.status = "SEND_FC"]
    /\ rcvFC' = FlowControl(OVFLW, FC_BS)
    /\ rcvTimer' = [rcvTimer EXCEPT !.N_Br = TIMER_B_R]
    /\ Consume
    /\ Continue

FirstFrameTooShort ==
    /\ InFlow("RCV_FF")
    /\ FF_DL(Pdu.f) <= FF_DATA
    /\ rxbuf' = [rxbuf EXCEPT !.id = Pdu.f.id]
    /\ rcv' = ResultCleared
    /\ Consume
    /\ UNCHANGED <<rcvFC, rcvTimer>>
    /\ Continue

(* The fault: N_Cr is not armed.                                             *)
FlowControlSentUnarmed ==
    /\ InFlow("SEND_FC") /\ ~rcvFC.is_valid /\ Timing(rcvTimer.N_Br)
    /\ rcv' = IF rcvFC.FS = CTS THEN [rcv EXCEPT !.status = "RCV_CF"]
              ELSE RcvOK("N_ERROR")
    /\ rcvTimer' = [rcvTimer EXCEPT !.N_Br = Stopped]
    /\ Keep
    /\ UNCHANGED <<rxbuf, rcvFC>>
    /\ Continue

FlowControlSent ==
    /\ InFlow("SEND_FC") /\ ~rcvFC.is_valid /\ Timing(rcvTimer.N_Br)
    /\ rcv' = IF rcvFC.FS = CTS THEN [rcv EXCEPT !.status = "RCV_CF"]
              ELSE RcvOK("N_ERROR")
    /\ rcvTimer' = [N_Br |-> Stopped, N_Cr |-> TIMER_C_R]
    /\ Keep
    /\ UNCHANGED <<rxbuf, rcvFC>>
    /\ Continue

FlowControlLate ==
    /\ InFlow("SEND_FC") /\ ~Timing(rcvTimer.N_Br)
    /\ rcv' = RcvOK("N_ERROR")
    /\ Keep
    /\ UNCHANGED <<rxbuf, rcvFC, rcvTimer>>
    /\ Continue

FlowControlUnsent ==
    /\ InFlow("SEND_FC") /\ rcvFC.is_valid /\ Timing(rcvTimer.N_Br)
    /\ Keep
    /\ UNCHANGED <<rxbuf, rcv, rcvFC, rcvTimer>>
    /\ Continue

(* No more than a frame's worth is missing; the fault is off by one.         *)
LastMissingEarly == rcv.length <= CF_DATA + 1
LastMissing == rcv.length <= CF_DATA

(* rcv_consecutive_frame looks at the low half of the first byte, not at the *)
(* type.  A block that ends asks for flow control, also with the last frame. *)
(* Nothing is copied while p_data is NULL, that is while length is 0.        *)
ConsecutiveFrame ==
    LET blockEnds == rcvFC.BS = 1
    IN
    /\ InFlow("RCV_CF") /\ Pdu.is_valid /\ Timing(rcvTimer.N_Cr)
    /\ Pdu.f.lo = rcv.CF_SN
    /\ rxbuf' = IF rcv.length = 0 THEN rxbuf
                ELSE [rxbuf EXCEPT !.segs = Append(@, Copied(Pdu.f))]
    /\ rcv' = IF LastMissing
              THEN [RcvOK("N_OK") EXCEPT !.CF_SN = NextSN(@)]
              ELSE [rcv EXCEPT !.CF_SN = NextSN(@), !.length = @ - CF_DATA,
                               !.status = IF blockEnds THEN "SEND_FC" ELSE @]
    /\ rcvFC' = IF blockEnds THEN FlowControl(CTS, FC_BS)
                ELSE [rcvFC EXCEPT !.BS = DecByte(@)]
    /\ rcvTimer' = [N_Br |-> IF blockEnds THEN TIMER_B_R ELSE rcvTimer.N_Br,
                    N_Cr |-> TIMER_C_R]
    /\ Consume
    /\ Continue

WrongSequenceNumber ==
    /\ InFlow("RCV_CF") /\ Pdu.is_valid /\ Timing(rcvTimer.N_Cr)
    /\ Pdu.f.lo # rcv.CF_SN
    /\ rcv' = RcvOK("N_WRONG_SN")
    /\ rcvTimer' = [rcvTimer EXCEPT !.N_Cr = TIMER_C_R]
    /\ Consume
    /\ UNCHANGED <<rxbuf, rcvFC>>
    /\ Continue

ConsecutiveFrameTimeout ==
    /\ InFlow("RCV_CF") /\ ~Timing(rcvTimer.N_Cr)
    /\ rcv' = RcvOK("N_TIMEOUT_Cr")
    /\ Keep
    /\ UNCHANGED <<rxbuf, rcvFC, rcvTimer>>
    /\ Continue

ConsecutiveFramePending ==
    /\ InFlow("RCV_CF") /\ ~Pdu.is_valid /\ Timing(rcvTimer.N_Cr)
    /\ Keep
    /\ UNCHANGED <<rxbuf, rcv, rcvFC, rcvTimer>>
    /\ Continue

FinishReceive ==
    /\ InFlow("RCV_OK")
    /\ rcv' = [rcv EXCEPT !.status = "RX_IDLE", !.length = 0, !.CF_SN = 0]
    /\ rcvFC' = [rcvFC EXCEPT !.is_valid = FALSE]
    /\ rcvTimer' = [N_Br |-> Stopped, N_Cr |-> Stopped]
    /\ Consume
    /\ Continue
    /\ UNCHANGED rxbuf

RcvMultipleFrame ==
    \/ IdleFirstFrame
    \/ FirstFrame \/ FirstFrameTooLong \/ FirstFrameTooShort
    \/ FlowControlSent \/ FlowControlLate \/ FlowControlUnsent
    \/ ConsecutiveFrame \/ WrongSequenceNumber
    \/ ConsecutiveFrameTimeout \/ ConsecutiveFramePending
    \/ FinishReceive

RxPart == RcvUnknown \/ RcvSingleFrame \/ RcvSingleFrameError \/ RcvMultipleFrame

(* A flow control frame belongs to the other half; here it is consumed.      *)
TakeFlowCtrlFrame ==
    /\ Kind = "FC"
    /\ Consume
    /\ frame_type' = Unknown
    /\ UNCHANGED <<rxbuf, rcv, rcvFC, rcvTimer>>

(* The fault: N_Cr does not run.                                             *)
RcvTimerCtrlBrOnly ==
    /\ rcvTimer' = [rcvTimer EXCEPT !.N_Br = Tick(@)]
    /\ UNCHANGED <<rxbuf, rcv, rcvFC, pdu, frame_type, mailbox>>

RcvTimerCtrl ==
    /\ rcvTimer' = [N_Br |-> Tick(rcvTimer.N_Br), N_Cr |-> Tick(rcvTimer.N_Cr)]
    /\ UNCHANGED <<rxbuf, rcv, rcvFC, pdu, frame_type, mailbox>>

-----------------------------------------------------------------------------
(* The calls that change nothing (no result yet, another identifier) are not *)
(* steps.                                                                    *)
ReceiveNetworkLayer(id) ==
    /\ rcv.N_result = "N_OK" /\ rxbuf.id = id
    /\ rxbuf' = [rxbuf EXCEPT !.length = 0]
    /\ rcv' = [rcv EXCEPT !.N_result = "N_INVALID"]
    /\ UNCHANGED <<rcvFC, rcvTimer, pdu, frame_type, mailbox>>

ReceiveFFNetworkLayer(id) ==
    /\ rcv.status = "SEND_FC"
    /\ IF id = pdu.f.id
       THEN /\ rcvFC' = FlowControl(CTS, FC_BS)
            /\ rcvTimer' = [rcvTimer EXCEPT !.N_Br = TIMER_B_R]
            /\ UNCHANGED rcv
       ELSE rcv' = RcvOK("N_ERROR") /\ UNCHANGED <<rcvFC, rcvTimer>>
    /\ UNCHANGED <<rxbuf, pdu, frame_type, mailbox>>

(* The link layer's callback fills the mailbox; it drops a frame that finds  *)
(* the mailbox full.                                                         *)
RxFrameData(f) ==
    /\ mailbox = <<>>
    /\ mailbox' = <<f>>
    /\ UNCHANGED <<rxbuf, rcv, rcvFC, rcvTimer, pdu, frame_type>>
-----------------------------------------------------------------------------
(* A message that was promised room is coming in.                            *)
Receiving == \/ rcv.status = "RCV_CF"
             \/ rcv.status = "SEND_FC" /\ rcvFC.FS = CTS

(* While a message is coming in, the bytes that are missing and the sequence *)
(* number expected next follow from the number of frames copied, and there   *)
(* is room in buf for all of them (can_tp.c:602-618, 642-672).               *)
RcvAccounting ==
    Receiving =>
        LET n == Len(rxbuf.segs) IN
        /\ rxbuf.length - rcv.length = FF_DATA + CF_DATA * (n - 1)
        /\ rcv.length > 0
        /\ rcv.CF_SN = n % SN_MOD

(* A block ends with every FC_BS-th frame, the first frame counting as one:  *)
(* the place in the block follows from the number of frames copied           *)
(* (can_tp.c:619-620, 649-659).                                              *)
RcvBlock == Receiving => rcvFC.BS = FC_BS - (Len(rxbuf.segs) % FC_BS)

(* A result N_OK that the user has not taken stands for a whole message: as  *)
(* many frames were copied as its length needs (can_tp.c:571-579, 661-672).  *)
OKMeansWhole ==
    rcv.N_result = "N_OK" =>
        /\ rxbuf.segs # <<>>
        /\ IF rxbuf.segs[1].type = "SF"
           THEN Len(rxbuf.segs) = 1 /\ rxbuf.length \in 1 .. CF_DATA
           ELSE Len(rxbuf.segs) = 1 + Consecutives(rxbuf.length)
=============================================================================

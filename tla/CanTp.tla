------------------------------- MODULE CanTp -------------------------------
(* A node's transport layer (src/src/can_tp.c): the thread that calls        *)
(* main_network_layer over and over, the callback that fills the mailbox of  *)
(* the link layer, and the user's calls.                                     *)
(*                                                                           *)
(* One call of main_network_layer is four steps, in the order of the code:   *)
(* "tx" (lines 192-209), "fc" (211-221), "rx" (224-264) and "timer" (267).   *)
(* The callback and the user act between them.                               *)
EXTENDS CanTpSend, CanTpRcv

CONSTANTS
    Messages,   \* what the user may send
    Frames,     \* what the link layer may deliver
    RcvIds,     \* identifiers the user passes to receive_network_layer
    FFIds       \* identifiers it passes to receive_FF_network_layer

(* The callers in src/ send between 1 and N_DATA_MAX bytes.                  *)
ASSUME MessagesAssumption ==
    /\ Messages \subseteq [length : 1 .. N_DATA_MAX, id : Ids, msg : Msgs]
    /\ Frames \subseteq Frame
    /\ RcvIds \subseteq Ids
    /\ FFIds \subseteq Ids

VARIABLE pc

vars == <<txbuf, send, sendFC, sendTimer, out, rxbuf, rcv, rcvFC, rcvTimer, pdu,
          frame_type, mailbox, pc>>

TypeOK == SendTypeOK /\ RcvTypeOK /\ pc \in {"tx", "fc", "rx", "timer"}

Init == SendInit /\ RcvInit /\ pc = "tx"

-----------------------------------------------------------------------------
Step(from, to) == pc = from /\ pc' = to

Tx == Step("tx", "fc") /\ TxPart /\ UNCHANGED rcvVars

(* send_flow_ctrl_frame sets no address: the frame goes out with the one the *)
(* last transmission left in send.N_PDU.                                     *)
SendFlowCtrlFrame ==
    /\ Step("fc", "rx")
    /\ rcvFC.is_valid
    /\ out' = <<[type |-> "FC", lo |-> rcvFC.FS, b1 |-> rcvFC.BS,
                 b2 |-> rcvFC.STmin, id |-> send.id, data |-> NoData]>>
    /\ rcvFC' = [rcvFC EXCEPT !.is_valid = FALSE]
    /\ UNCHANGED <<sendVars, rxbuf, rcv, rcvTimer, pdu, frame_type, mailbox>>

NoFlowCtrlFrame ==
    /\ Step("fc", "rx")
    /\ ~rcvFC.is_valid
    /\ out' = <<>>
    /\ UNCHANGED <<sendVars, rcvVars>>

Fc == SendFlowCtrlFrame \/ NoFlowCtrlFrame

Rx == /\ Step("rx", "timer")
      /\ \/ RxPart /\ UNCHANGED sendVars
         \/ TakeFlowCtrlFrame /\ RcvFlowCtrlFrame(Pdu.f)
      /\ out' = <<>>

TimerCtrl == Step("timer", "tx") /\ SendTimerCtrl /\ RcvTimerCtrl /\ out' = <<>>

MainNetworkLayer == Tx \/ Fc \/ Rx \/ TimerCtrl

-----------------------------------------------------------------------------
Send(m) == SendNetworkLayer(m) /\ UNCHANGED <<rcvVars, pc>>

Receive(id) == ReceiveNetworkLayer(id) /\ out' = <<>> /\ UNCHANGED <<sendVars, pc>>

ReceiveFF(id) == ReceiveFFNetworkLayer(id) /\ out' = <<>> /\ UNCHANGED <<sendVars, pc>>

Deliver(f) == RxFrameData(f) /\ out' = <<>> /\ UNCHANGED <<sendVars, pc>>

Next ==
    \/ MainNetworkLayer
    \/ \E m \in Messages : Send(m)
    \/ \E id \in RcvIds : Receive(id)
    \/ \E id \in FFIds : ReceiveFF(id)
    \/ \E f \in Frames : Deliver(f)

Spec == Init /\ [][Next]_vars

(* The thread that calls main_network_layer loops forever; nothing is        *)
(* promised about frames or users.                                           *)
FairSpec == Spec /\ WF_vars(MainNetworkLayer)
=============================================================================

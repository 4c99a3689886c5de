---------------------------- MODULE CanTpTraffic ----------------------------
(* The transport layer observed from outside: CanTp with history variables   *)
(* for what went over the bus and how long the machine has been waiting, and *)
(* the properties that relate its states to that history.                    *)
EXTENDS CanTp, SequencesExt

VARIABLES
    wire,     \* frames sent of the multiple frame on its way
    grant,    \* the block size of the last flow control received, and the
              \* consecutive frames sent since
    gap,      \* ticks since the last consecutive frame, and the STmin promised
    waited,   \* ticks the sender has been in WAIT_FC
    silence   \* ticks since the receiver last saw progress

history == <<wire, grant, gap, waited, silence>>
traffic == <<vars, history>>

(* Counters stop where no property tells values apart any more.              *)
Count(n, bound) == IF n < bound THEN n + 1 ELSE n
WaitedBound == TIMER_B_S + 3
SilenceBound == TIMER_C_R

Sent(type) == out' # <<>> /\ out'[1].type = type
TickEnds == pc = "timer" /\ pc' = "tx"
FlowControlReceived == pc = "rx" /\ pc' = "timer" /\ Kind = "FC"

ObserveInit ==
    /\ wire = <<>>
    /\ grant = [BS |-> 0, used |-> 0]
    /\ gap = [ticks |-> 0, STmin |-> 0]
    /\ waited = 0
    /\ silence = 0

Observe ==
    /\ wire' = IF Sent("FF") THEN out'
               ELSE IF Sent("CF") THEN wire \o out'
               ELSE IF send'.status = "TX_IDLE" THEN <<>>
               ELSE wire
    /\ grant' = IF FlowControlReceived
                THEN [BS |-> Pdu.f.b1, used |-> 0]
                ELSE IF Sent("CF") THEN [grant EXCEPT !.used = @ + 1] ELSE grant
    /\ gap' = IF send'.status # "SEND_CF" THEN [ticks |-> 0, STmin |-> 0]
              ELSE IF Sent("CF") THEN [ticks |-> 0, STmin |-> sendFC.STmin]
              ELSE IF TickEnds THEN [gap EXCEPT !.ticks = Count(@, gap.STmin)] ELSE gap
    /\ waited' = IF {send.status, send'.status} # {"WAIT_FC"} THEN 0
                 ELSE IF TickEnds THEN Count(waited, WaitedBound) ELSE waited
    /\ silence' = IF rcv'.status # "RCV_CF" THEN 0
                  ELSE IF rcv.status # "RCV_CF" THEN 0
                  ELSE IF rxbuf'.segs # rxbuf.segs THEN 0
                  ELSE IF TickEnds THEN Count(silence, SilenceBound) ELSE silence

TrafficInit == Init /\ ObserveInit
TrafficNext == Next /\ Observe
TrafficSpec == TrafficInit /\ [][TrafficNext]_traffic

(* The history variables follow every step, so that fairness of the thread   *)
(* is fairness of the observed thread.                                       *)
FairTrafficSpec == TrafficSpec /\ WF_traffic(MainNetworkLayer /\ Observe)

-----------------------------------------------------------------------------
(* The segmentation of a message, from ISO 15765-2 as the receiving side of  *)
(* can_tp.c expects it, without reference to the sender's counters.          *)
Segmentation(m) ==
    [i \in 1 .. Consecutives(m.length) + 1 |->
       IF i = 1 THEN [type |-> "FF", lo |-> m.length \div 256,
                      data |-> [msg |-> m.msg, pos |-> 0]]
       ELSE [type |-> "CF", lo |-> (i - 1) % SN_MOD,
             data |-> [msg |-> m.msg, pos |-> FF_DATA + CF_DATA * (i - 2)]]]

Shape(fs) == [i \in DOMAIN fs |-> [type |-> fs[i].type, lo |-> fs[i].lo,
                                   data |-> fs[i].data]]

(* What has gone out of a multiple frame is always a prefix of its           *)
(* segmentation, whatever flow control and the user's calls do in between,   *)
(* and N_OK is reported only when all of it has (can_tp.c:397-542).          *)
WireIsSegmentation ==
    send.status \in {"WAIT_FC", "SEND_CF", "SEND_OK"} =>
        /\ wire # <<>> /\ wire[1].b1 = txbuf.length % 256
        /\ IsPrefix(Shape(wire), Segmentation(txbuf))
        /\ (send.status = "SEND_OK" /\ send.N_result = "N_OK") =>
               Shape(wire) = Segmentation(txbuf)

(* After a flow control frame no more than BS consecutive frames follow      *)
(* before the next one; BS = 0 sets no limit (can_tp.c:459-468).             *)
BlockSizeHonoured == grant.BS # 0 => grant.used <= grant.BS

(* Within a block two consecutive frames are at least STmin milliseconds     *)
(* apart (can_tp.c:452, 499).                                                *)
SeparationHonoured ==
    [][Sent("CF") => gap.ticks * MAIN_NETWORK_LAYER_PERIOD >= gap.STmin]_traffic

(* The sender gives up for want of flow control after TIMER_B_S ticks in     *)
(* WAIT_FC and never before, though the flag that arms N_Bs is static and    *)
(* survives from one wait, and one message, to the next (can_tp.c:428-449).  *)
TimeoutBsEarned ==
    [][send'.N_result = "N_TIMEOUT_Bs" /\ send.status = "WAIT_FC" =>
         waited \in TIMER_B_S .. TIMER_B_S + 2]_traffic

(* A send in progress comes to an end, and the user may send again, unless   *)
(* the peer holds it with a flow status that is neither CTS nor OVFLW: then  *)
(* no timer ends it (can_tp.c:397-542, 503-516).                             *)
Held == send.status = "SEND_CF" /\ sendFC.FS \notin {CTS, OVFLW}
SendTerminates == send.status # "TX_IDLE" ~> (send.status = "TX_IDLE" \/ Held)

-----------------------------------------------------------------------------
(* The receiver gives up for want of a consecutive frame only after          *)
(* TIMER_C_R ticks in which none came (can_tp.c:720-729).                    *)
TimeoutCrEarned ==
    [][rcv'.N_result = "N_TIMEOUT_Cr" /\ rcv.status = "RCV_CF" =>
         silence >= TIMER_C_R]_traffic

(* A reception whose first frame was accepted or refused comes to an end,    *)
(* whatever the peer does or leaves undone, unless a single frame (can_tp.c: *)
(* 232-243) or a flow control frame (253-255) stops the machine: each leaves *)
(* frame_type at UNKOWN_FRAME, with which rcv_multiple_frame is not called,  *)
(* nor N_Cr looked at, until another first or consecutive frame comes.       *)
RcvTerminates ==
    rcv.status \notin {"RX_IDLE", "RCV_FF"} ~>
        (rcv.status = "RX_IDLE" \/ frame_type = Unknown)

(* The flow of a multiple frame runs to its end (the comment at can_tp.c:248) *)
(* and frames other than consecutive ones do not disturb it (the comment at  *)
(* can_tp.c:230).                                                            *)
FlowRunsToItsEnd == rcv.status # "RX_IDLE" ~> rcv.status = "RX_IDLE"
=============================================================================

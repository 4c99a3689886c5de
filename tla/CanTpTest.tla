------------------------------ MODULE CanTpTest ------------------------------
(* The program of src/src/test/can_tp_test.c: one thread ticks and receives, *)
(* the other sends what is typed and polls confirm_network_layer until there *)
(* is a result.  `user` is its place in send_network_layer.  The input that  *)
(* ends the program is left out.                                             *)
EXTENDS CanTpCalls

VARIABLES
    confirming, \* the main thread is in the loop that waits for a result
    dropped,    \* history: send_network_layer ignored the last message,
    wire,       \*   the frames that went out since a message began,
    early,      \*   the tick had a result before the last call ended,
    refused     \*   a flow control frame was found invalid

testHistory == <<dropped, wire, early, refused>>
test == <<vars, user, confirming, testHistory>>

TestInit ==
    /\ Init /\ UserInit
    /\ confirming = FALSE
    /\ dropped = FALSE /\ wire = <<>> /\ early = FALSE /\ refused = FALSE

(* can_tp_daemon: receive_network_layer follows each tick.                   *)
Received == rcv.N_result = "N_OK" /\ rxbuf.id \in RcvIds

(* The tick puts a result: the message has gone out, or is given up.         *)
HasResult ==
    \/ send.status = "TX_IDLE" /\ txbuf.length # 0 /\ txbuf'.length = 0
    \/ send.status # "SEND_OK" /\ send'.status = "SEND_OK"

Daemon ==
    /\ pc = "tx" => ~Received
    /\ MainNetworkLayer
    /\ wire' = IF out' = <<>> \/ out'[1].type = "FC" THEN wire
               ELSE IF out'[1].type = "CF" THEN wire \o out' ELSE out'
    /\ early' = (early \/ (user.at = "send_result" /\ HasResult))
    /\ refused' = (refused \/ (pc = "rx" /\ send'.N_result = "N_INVALID_FS"))
    /\ UNCHANGED <<user, confirming, dropped>>

DaemonReceive ==
    /\ pc = "tx"
    /\ \E id \in RcvIds : Receive(id)
    /\ UNCHANGED <<user, confirming, testHistory>>

RxNotification ==
    /\ \E f \in Frames : Deliver(f)
    /\ UNCHANGED <<user, confirming, testHistory>>

-----------------------------------------------------------------------------
SendInput ==
    /\ user.at = "none" /\ ~confirming
    /\ confirming' = TRUE
    /\ \E m \in Messages :
         \/ BeginSend(m) /\ dropped' = FALSE
         \/ /\ send.status # "TX_IDLE"
            /\ dropped' = TRUE
            /\ UNCHANGED <<vars, user>>
    /\ early' = FALSE
    /\ UNCHANGED <<wire, refused>>

InCall == SendStores /\ UNCHANGED <<confirming, testHistory>>

(* The loop ends with the first result that is not N_INVALID.                *)
Confirm ==
    /\ user.at = "none" /\ confirming
    /\ send.N_result # "N_INVALID"
    /\ confirming' = FALSE
    /\ UNCHANGED <<vars, user, testHistory>>

TestNext ==
    \/ Daemon \/ DaemonReceive \/ RxNotification
    \/ SendInput \/ InCall \/ Confirm

(* Both threads run.                                                         *)
TestSpec ==
    /\ TestInit /\ [][TestNext]_test
    /\ WF_test(Daemon \/ DaemonReceive)
    /\ WF_test(InCall) /\ WF_test(Confirm)

-----------------------------------------------------------------------------
(* The frames of m, as a peer must see them.                                 *)
WireOf(m) ==
    IF m.length < CAN_FRAME_SIZE
    THEN << [type |-> "SF", lo |-> m.length, data |-> [msg |-> m.msg, pos |-> 0]] >>
    ELSE [i \in 1 .. Consecutives(m.length) + 1 |->
            IF i = 1 THEN [type |-> "FF", lo |-> m.length \div 256,
                           data |-> [msg |-> m.msg, pos |-> 0]]
            ELSE [type |-> "CF", lo |-> (i - 1) % SN_MOD,
                  data |-> [msg |-> m.msg, pos |-> FF_DATA + CF_DATA * (i - 2)]]]

Seen(fs) == [i \in DOMAIN fs |-> [type |-> fs[i].type, lo |-> fs[i].lo,
                                  data |-> fs[i].data]]

(* When the main thread is told N_OK its message has gone out, whole and     *)
(* with nothing of another, though send_network_layer takes no lock; unless  *)
(* the call came while the last message was still being put away and was     *)
(* ignored, or an invalid flow control frame had ended an earlier wait before *)
(* its time (can_tp.c:269-298, can_tp_test.c:95-148).                        *)
OKMeansSent ==
    [][Confirm /\ send.N_result = "N_OK" /\ ~dropped /\ ~refused
         => Seen(wire) = WireOf(user.m)]_test

(* No call reaches into a message that is being sent: the sender's machine   *)
(* never finds a message that is too short for it, which it would keep from  *)
(* ever being idle again; unless an invalid flow control frame let the main  *)
(* thread go on while its message had not begun (can_tp.c:197-202, 278).     *)
NotWedged == ~refused => LongMessage

(* The main thread gets its result, unless the tick had it before the call   *)
(* cleared the result of the last message, the peer holds the sender, or an  *)
(* invalid flow control frame came (can_tp_test.c:107-144,                   *)
(* can_tp.c:289-290).                                                        *)
Held == send.status = "SEND_CF" /\ sendFC.FS \notin {CTS, OVFLW}
WaitEnds == confirming ~> (~confirming \/ early \/ Held \/ refused)
=============================================================================

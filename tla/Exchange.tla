------------------------------ MODULE Exchange ------------------------------
(* The tester (cantp.py, dcm.py) and a node (can_tp.c and a user that        *)
(* answers, as uds_test.c has one) on a bus.  A frame of the tester waits    *)
(* with the driver until the callback puts it in the node's mailbox, or      *)
(* drops it because the mailbox is full; a frame of the node goes to the     *)
(* queue of the tester's library.  The node's ticks and its user are two     *)
(* threads.  Nobody waits for anybody but by timers, and nothing is said     *)
(* about the speed of any of them.                                           *)
EXTENDS CanTpCalls, Tester, Functions

CONSTANTS
    Script,     \* the requests of the tester, each made at most once
    MaxAsked,   \* bound on the number of requests made
    Answers     \* for a request, the messages the server may answer it with

ASSUME ScriptAssumption ==
    /\ Script \subseteq Requests /\ MaxAsked \in Nat
    /\ Answers \in [Msgs -> SUBSET Messages]

VARIABLES
    poll,       \* the request that the server has taken and not answered yet
    asked,      \* history: the requests handed to cantp.transmit,
    served,     \*   their places, in the order in which the server got them;
    replied,    \*   the answers handed to send_network_layer,
    got,        \*   their places, in the order in which the tester got them
    crossed,    \* an answer was handed over while another was to be sent
    disturbed,  \* a timer ran out, a frame or an answer was dropped, or an
                \* answer was sent that the tester does not wait for;
    overrun,    \* the tester's library had no room for a frame
    hasty       \* the tester asked while something of an earlier request
                \* could still come

nodeVars == <<vars, user>>
historyVars == <<asked, served, replied, got, crossed, disturbed, overrun, hasty>>
exchange == <<nodeVars, testerVars, poll, historyVars>>

ExchangeInit ==
    /\ Init /\ UserInit /\ TesterInit
    /\ poll = None
    /\ asked = <<>> /\ served = <<>> /\ replied = <<>> /\ got = <<>>
    /\ crossed = FALSE /\ disturbed = FALSE /\ overrun = FALSE /\ hasty = FALSE

(* The place of the last message of which parts is all; 0 if it is of none.  *)
IsAllOf(parts, m) ==
    /\ Len(parts) = IF parts[1].type = "SF" THEN 1 ELSE 1 + Consecutives(m.length)
    /\ \A i \in DOMAIN parts : parts[i].data =
          [msg |-> m.msg, pos |-> IF i = 1 THEN 0 ELSE FF_DATA + CF_DATA * (i - 2)]

Place(parts, messages) ==
    LET places == {i \in DOMAIN messages : IsAllOf(parts, messages[i])}
    IN  IF places = {} THEN 0 ELSE CHOOSE i \in places : \A j \in places : j <= i

-----------------------------------------------------------------------------
TimerRanOut ==
    \/ send'.N_result = "N_TIMEOUT_Bs" /\ send.status = "WAIT_FC"
    \/ rcv'.N_result \in {"N_TIMEOUT_Cr", "N_ERROR"} /\ rcv'.N_result # rcv.N_result

(* The library drops a frame for which it has no room.  The fault: it keeps  *)
(* every frame.                                                              *)
QueuedAnyway(f) == Append(inbox, f)
Queued(f) == IF Len(inbox) = CAN_BUS_PDU_NUM THEN inbox ELSE Append(inbox, f)

(* A frame that comes in the tick after the end of a message is thrown away. *)
Swallowed == pc = "rx" /\ rcv.status = "RCV_OK" /\ Pdu.is_valid

(* So is one that was taken from the mailbox but not looked at, because the  *)
(* node was about to see that its flow control was sent, if another comes    *)
(* before the next tick.                                                     *)
Overwritten == pc = "rx" /\ pdu.is_valid /\ mailbox # <<>>

NodeTick ==
    /\ MainNetworkLayer
    /\ inbox' = IF out' = <<>> THEN inbox ELSE Queued(out'[1])
    /\ LET lost == out' # <<>> /\ Len(inbox) = CAN_BUS_PDU_NUM IN
       /\ overrun' = (overrun \/ lost)
       /\ disturbed' = (disturbed \/ lost \/ TimerRanOut \/ Swallowed \/ Overwritten)
    /\ UNCHANGED <<tp, call, request, response, outcome, bus, user, poll,
                   asked, served, replied, got, crossed, hasty>>

RxNotification ==
    /\ bus # <<>>
    /\ bus' = Tail(bus)
    /\ IF mailbox = <<>>
       THEN Deliver(Head(bus)) /\ UNCHANGED <<user, disturbed>>
       ELSE UNCHANGED nodeVars /\ disturbed' = TRUE
    /\ UNCHANGED <<tp, call, request, response, outcome, inbox, poll,
                   asked, served, replied, got, crossed, overrun, hasty>>

(* Something of an earlier request is still on its way or may be sent.       *)
Unsettled ==
    \/ inbox # <<>> \/ bus # <<>> \/ mailbox # <<>>
    \/ user.at # "none" \/ poll # None
    \/ (txbuf.length # 0 /\ send.status # "SEND_OK")
    \/ rcv.status \notin {"RX_IDLE", "RCV_OK"} \/ rcv.N_result = "N_OK"
    \/ rcvFC.is_valid

(* main_uds_polling: a request is taken, and answered.  The answer replaces  *)
(* a single frame that has not gone out yet, and is dropped if a multiple    *)
(* frame is on its way.                                                      *)
Poll ==
    /\ poll = None
    /\ \E id \in RcvIds : BeginReceive(id)
    /\ UNCHANGED <<testerVars, poll, historyVars>>

InCall ==
    /\ SendStores \/ ReceiveLoads
    /\ UNCHANGED <<testerVars, poll, historyVars>>

(* What a hasty tester's next request does to the copy of the last one is    *)
(* a disturbance.                                                            *)
TakeRequest ==
    /\ ReceiveResult /\ user.got.length # 0
    /\ poll' = <<user.got.segs[1].data.msg>>
    /\ LET place == Place(user.got.segs, asked) IN
       /\ served' = IF hasty THEN served ELSE Append(served, place)
       /\ disturbed' = (disturbed \/ (hasty /\ place = 0))
    /\ UNCHANGED <<testerVars, asked, replied, got, crossed, overrun, hasty>>

(* N_OK without a message: a message came in while the last one was being    *)
(* copied, and its length was cleared with the other's.                      *)
TakeNothing ==
    /\ ReceiveResult /\ user.got.length = 0
    /\ disturbed' = (disturbed \/ hasty)
    /\ UNCHANGED <<testerVars, poll, asked, served, replied, got, crossed, overrun,
                   hasty>>

AnswerRequest ==
    /\ poll # None /\ user.at = "none"
    /\ poll' = None
    /\ \E a \in Answers[poll[1]] :
         IF send.status = "TX_IDLE"
         THEN /\ BeginSend(a)
              /\ replied' = Append(replied, a)
              /\ crossed' = (crossed \/ txbuf.length # 0)
              /\ disturbed' = (disturbed \/ txbuf.length # 0 \/ poll[1] \in Quiet)
         ELSE /\ disturbed' = TRUE
              /\ UNCHANGED <<nodeVars, replied, crossed>>
    /\ UNCHANGED <<testerVars, asked, served, got, overrun, hasty>>

-----------------------------------------------------------------------------
Ask ==
    /\ Len(asked) < MaxAsked
    /\ \E m \in Script \ Range(asked) : Transmit(m) /\ asked' = Append(asked, m)
    /\ hasty' = (hasty \/ Unsettled)
    /\ UNCHANGED <<nodeVars, poll, served, replied, got, crossed, disturbed, overrun>>

Answered == call # "none" /\ call' = "none" /\ outcome'.res # None

TesterProceeds ==
    /\ Proceed
    /\ got' = IF Answered /\ ~hasty THEN Append(got, Place(outcome'.res, replied)) ELSE got
    /\ UNCHANGED <<nodeVars, poll, asked, served, replied, crossed, disturbed, overrun,
                   hasty>>

(* The second that the tester waits is longer than each of the node's        *)
(* timers, but the node may be kept from running for as long.  Only then is  *)
(* the wait itself the disturbance.                                          *)
TesterTimesOut ==
    /\ WaitTimeout
    /\ disturbed' = (disturbed \/ Unsettled)
    /\ UNCHANGED <<nodeVars, poll, asked, served, replied, got, crossed, overrun, hasty>>

ExchangeNext ==
    \/ NodeTick \/ RxNotification
    \/ Poll \/ InCall \/ TakeRequest \/ TakeNothing \/ AnswerRequest
    \/ Ask \/ TesterProceeds \/ TesterTimesOut

ExchangeSpec == ExchangeInit /\ [][ExchangeNext]_exchange

-----------------------------------------------------------------------------
Requesting == INSTANCE TpService WITH
    Messages <- Script,
    submitted <- asked, delivered <- served
Answering == INSTANCE TpService WITH
    submitted <- replied, delivered <- got

(* What the server takes from receive_network_layer are requests of the      *)
(* tester, whole, in order and none twice, whatever frames were dropped,     *)
(* whichever timers ran out on either side, and however the stores of the    *)
(* server's thread fall between the parts of a tick, as long as the tester   *)
(* asks nothing while something of an earlier request may still come         *)
(* (can_tp.c:296-334, 571-740, cantp.py:154-184).                            *)
RequestsDelivered == Requesting!Spec

(* What dcm.transmit returns are answers of the server, whole, in order and  *)
(* none twice, under the same condition (cantp.py:254-350,                   *)
(* can_tp.c:269-292, 397-542).                                               *)
AnswersDelivered == Answering!Spec

(* The last frame of a request ends a block: the node asks for flow control  *)
(* once more, and cantp.receive takes that frame for its answer              *)
(* (can_tp.c:649-655, cantp.py:254-278).                                     *)
EndsBlock(m) == m.length >= CF_DATA /\ (1 + Consecutives(m.length)) % FC_BS = 0

(* A request that fails, and not by a negative answer, fails because a timer *)
(* ran out or something was dropped, because the last frame of a request     *)
(* ended a block, or because a request is longer than Rx_buf: but for that   *)
(* the two programs understand each other, however hasty the tester is       *)
(* (cantp.py:154-350, can_tp.c:571-740).                                     *)
FailureHasCause ==
    (call = "none" /\ ~outcome.ercd /\ outcome.res = None) =>
        disturbed \/ \E m \in Range(asked) : EndsBlock(m) \/ m.length > N_DATA_MAX

(* A positive result of dcm.transmit is a whole message of the server, and   *)
(* of the service that was asked for, however hasty the tester was and       *)
(* whatever was left over from earlier requests: neither parts of two        *)
(* answers nor an answer with a part missing.  Only an answer that was       *)
(* handed over while another was still to be sent may have mixed with it,    *)
(* and the frames of two answers if the library had no room for those        *)
(* between them: the sequence number, which is all that would tell, starts   *)
(* with each answer.  For a tester who is not hasty there is no such         *)
(* exception (dcm.py:117-142, cantp.py:254-350, can_tp.c:269-292).           *)
PositiveIsWhole ==
    (call = "none" /\ outcome.ercd /\ outcome.res # None) =>
        \/ hasty /\ (crossed \/ overrun)
        \/ \E a \in Range(replied) :
            a.msg \in Positive[request.msg] /\ IsAllOf(outcome.res, a)
=============================================================================

------------------------------- MODULE Tester -------------------------------
(* The tester's side of an exchange: dcm.transmit of                         *)
(* src/src/python_auto_test/dcm.py on top of cantp.transmit and              *)
(* cantp.receive of cantp.py, for classic frames (ll_dl = 8).                *)
(*                                                                           *)
(* One program runs all of it, so that its state is the attributes of the    *)
(* cantp object, which survive from one call to the next, and the place in   *)
(* the calls that are under way.  A wait of one second may end with the      *)
(* frame that is next in the library's queue or without one, also if one has *)
(* just come.  The separation time passes between steps, writing to the bus  *)
(* succeeds, and 0x78 (response pending), which no server in src/ sends, is  *)
(* left out.                                                                 *)
EXTENDS CanTpDefs

CONSTANTS
    cBS,                \* block size the tester grants (8)
    cSTmin,             \* separation time it asks for (10)
    CAN_BUS_PDU_NUM,    \* frames the library keeps for an identifier (16)
    TxId,               \* identifier of the tester's frames (0x777)
    Positive,           \* for a request, the answers with its service | 0x40
    Quiet               \* requests that ask for no positive answer

ASSUME TesterAssumption ==
    /\ cBS \in 0 .. 254 /\ cSTmin \in 0 .. 127
    /\ CAN_BUS_PDU_NUM \in Nat \ {0}
    /\ TxId \in Ids
    /\ Positive \in [Msgs -> SUBSET Msgs] /\ Quiet \subseteq Msgs

VARIABLES
    tp,       \* the attributes of the cantp object
    call,     \* where dcm.transmit is
    request,  \* its argument
    response, \* the frames whose data cantp.receive has put together
    outcome,  \* what dcm.transmit returned last
    inbox,    \* the library's queue for rxid
    bus       \* frames on their way to the node

testerVars == <<tp, call, request, response, outcome, inbox, bus>>

(* The attribute state.  CANTP_ST_START_TO_SEND and CANTP_ST_SENDING are     *)
(* never assigned.                                                           *)
TpStates == {"IDLE", "WAIT_FC", "WAIT_CF", "SEND_CF", "SEND_FC"}

(* transmit is in the loop of __schedule_tx__, receive in __waitSForFF__ or  *)
(* in the loop that follows.                                                 *)
Calls == {"none", "schedule_tx", "waitSForFF", "receive"}

Requests == [length : 1 .. 4095, msg : Msgs]
None == <<>>

TesterTypeOK ==
    /\ tp \in [state : TpStates, SN : 0 .. SN_MOD - 1, t_size : 0 .. 4095,
               BS : 0 .. 255]
    /\ call \in Calls
    /\ request \in Requests
    /\ response \in Seq([type : FrameTypes, data : Data])
    /\ outcome \in [ercd : BOOLEAN, res : Seq([type : FrameTypes, data : Data])]
    /\ inbox \in Seq(Frame) /\ Len(inbox) <= CAN_BUS_PDU_NUM
    /\ bus \in Seq(Frame)

TesterInit ==
    /\ tp = [state |-> "IDLE", SN |-> 0, t_size |-> 0, BS |-> 0]
    /\ call = "none"
    /\ request = [length |-> 1, msg |-> CHOOSE m \in Msgs : TRUE]
    /\ response = <<>>
    /\ outcome = [ercd |-> TRUE, res |-> None]
    /\ inbox = <<>>
    /\ bus = <<>>

-----------------------------------------------------------------------------
Write(type, lo, b1, b2, data) ==
    bus' = Append(bus, [type |-> type, lo |-> lo, b1 |-> b1, b2 |-> b2,
                        id |-> TxId, data |-> data])
NoPayload == [msg |-> request.msg, pos |-> 0]

Return(ercd, res) == outcome' = [ercd |-> ercd, res |-> res] /\ call' = "none"

(* After transmitting: wait for the answer, unless none is asked for.        *)
AwaitAnswer(req) ==
    /\ response' = <<>>
    /\ IF req.msg \in Quiet THEN Return(TRUE, None)
       ELSE call' = "waitSForFF" /\ UNCHANGED outcome

(* Transmitting or receiving failed.                                         *)
GiveUp == Return(call = "schedule_tx" /\ request.msg \in Quiet, None)

TransmitSingle(m) ==
    /\ call = "none" /\ m.length < CF_DATA
    /\ request' = m
    /\ Write("SF", m.length, 0, 0, [msg |-> m.msg, pos |-> 0])
    /\ AwaitAnswer(m)
    /\ UNCHANGED <<tp, inbox>>

TransmitFirst(m) ==
    /\ call = "none" /\ m.length >= CF_DATA
    /\ request' = m
    /\ Write("FF", m.length \div 256, m.length % 256, 0, [msg |-> m.msg, pos |-> 0])
    /\ tp' = [tp EXCEPT !.SN = 0, !.t_size = FF_DATA, !.state = "WAIT_FC"]
    /\ call' = "schedule_tx"
    /\ UNCHANGED <<response, outcome, inbox>>

-----------------------------------------------------------------------------
(* __waitRF__ with the frame f that is first in the queue.                   *)
Taken == inbox' = Tail(inbox)

HandleFC(f) ==
    /\ call = "schedule_tx" /\ tp.state = "WAIT_FC" /\ Taken
    /\ IF f.type = "FC" /\ f.lo = CTS
       THEN /\ tp' = [tp EXCEPT !.BS = f.b1, !.state = "SEND_CF"]
            /\ UNCHANGED <<call, outcome>>
       ELSE /\ IF f.type = "FC" /\ f.lo = WT THEN UNCHANGED <<call, outcome>> ELSE GiveUp
            /\ UNCHANGED tp
    /\ UNCHANGED <<request, response, bus>>

(* A block ends when BS counts down to 0; with 0 there are no blocks.  The    *)
(* fault: it ends a frame late.                                              *)
NextBlockStateLate(more, ended) == IF tp.BS = 0 THEN ended ELSE more
NextBlockState(more, ended) == IF tp.BS = 1 THEN ended ELSE more
NextBS == IF tp.BS > 0 THEN tp.BS - 1 ELSE 0

SendCF ==
    LET last == request.length - tp.t_size <= CF_DATA
        sn == NextSN(tp.SN)
    IN
    /\ call = "schedule_tx" /\ tp.state = "SEND_CF"
    /\ Write("CF", sn, 0, 0, [msg |-> request.msg, pos |-> tp.t_size])
    /\ IF last
       THEN /\ tp' = [tp EXCEPT !.SN = sn, !.t_size = request.length, !.state = "IDLE"]
            /\ AwaitAnswer(request)
       ELSE /\ tp' = [tp EXCEPT !.SN = sn, !.t_size = @ + CF_DATA, !.BS = NextBS,
                                !.state = NextBlockState("SEND_CF", "WAIT_FC")]
            /\ UNCHANGED <<call, response, outcome>>
    /\ UNCHANGED <<request, inbox>>

-----------------------------------------------------------------------------
(* dcm.transmit compares the service only; what it does not know is shown as *)
(* a negative answer.  The fault: it does not compare.                       *)
IsPositiveAny(res) == TRUE
IsPositive(res) == res[1].data.pos = 0 /\ res[1].data.msg \in Positive[request.msg]

Conclude(res) == Return(IsPositive(res), res)

Part(f) == [type |-> f.type, data |-> f.data]

WaitSingleFrame(f) ==
    /\ call = "waitSForFF" /\ Taken /\ f.type = "SF"
    /\ response' = <<Part(f)>>
    /\ Conclude(response')
    /\ UNCHANGED <<tp, request, bus>>

WaitFirstFrame(f) ==
    /\ call = "waitSForFF" /\ Taken /\ f.type = "FF"
    /\ response' = <<Part(f)>>
    /\ tp' = [tp EXCEPT !.t_size = FF_DL(f), !.state = "SEND_FC", !.SN = 0]
    /\ call' = "receive"
    /\ UNCHANGED <<request, outcome, bus>>

(* Any other frame is swallowed, and the state that the last call left       *)
(* decides what happens next.                                                *)
WaitOtherFrame(f) ==
    /\ call = "waitSForFF" /\ Taken /\ f.type \notin {"SF", "FF"}
    /\ call' = "receive"
    /\ UNCHANGED <<tp, request, response, outcome, bus>>

SendFC ==
    /\ call = "receive" /\ tp.state = "SEND_FC"
    /\ Write("FC", CTS, cBS, cSTmin, NoPayload)
    /\ tp' = [tp EXCEPT !.BS = cBS, !.state = "WAIT_CF"]
    /\ UNCHANGED <<call, request, response, outcome, inbox>>

(* The bytes received.  With the last frame its padding is appended too.     *)
ResponseSize ==
    IF response = <<>> THEN 0
    ELSE (IF response[1].type = "FF" THEN FF_DATA ELSE CF_DATA)
             + CF_DATA * (Len(response) - 1)

InSequence(f) == f.lo = NextSN(tp.SN)

WaitCF(f) ==
    /\ call = "receive" /\ tp.state = "WAIT_CF" /\ Taken
    /\ f.type = "CF" /\ InSequence(f)
    /\ response' = Append(response, Part(f))
    /\ IF tp.t_size - ResponseSize <= CF_DATA
       THEN tp' = [tp EXCEPT !.SN = NextSN(@)] /\ Conclude(response')
       ELSE /\ tp' = [tp EXCEPT !.SN = NextSN(@), !.BS = NextBS,
                                !.state = NextBlockState("WAIT_CF", "SEND_FC")]
            /\ UNCHANGED <<call, outcome>>
    /\ UNCHANGED <<request, bus>>

WaitCFError(f) ==
    /\ call = "receive" /\ tp.state = "WAIT_CF" /\ Taken
    /\ ~(f.type = "CF" /\ InSequence(f))
    /\ tp' = IF f.type = "CF" THEN [tp EXCEPT !.SN = NextSN(@)] ELSE tp
    /\ GiveUp
    /\ UNCHANGED <<request, response, bus>>

ReceiveUnknownState ==
    /\ call = "receive" /\ tp.state \notin {"SEND_FC", "WAIT_CF"}
    /\ GiveUp
    /\ UNCHANGED <<tp, request, response, inbox, bus>>

Waiting == \/ call = "schedule_tx" /\ tp.state = "WAIT_FC"
           \/ call = "waitSForFF"
           \/ call = "receive" /\ tp.state = "WAIT_CF"

WaitTimeout ==
    /\ Waiting
    /\ GiveUp
    /\ UNCHANGED <<tp, request, response, inbox, bus>>

TakeFrame(f) == \/ HandleFC(f)
                \/ WaitSingleFrame(f) \/ WaitFirstFrame(f) \/ WaitOtherFrame(f)
                \/ WaitCF(f) \/ WaitCFError(f)

Transmit(m) == TransmitSingle(m) \/ TransmitFirst(m)

Proceed == \/ SendCF \/ SendFC \/ ReceiveUnknownState
           \/ inbox # <<>> /\ TakeFrame(Head(inbox))
=============================================================================

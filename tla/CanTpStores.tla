---------------------------- MODULE CanTpStores ----------------------------
(* receive_network_layer beside the tick, store by store and without a lock, *)
(* as in uds_test.c: can_tp_daemon ticks, and the main thread polls for a    *)
(* message.  CanTp, whose tick puts a frame away in one step, is the tick's  *)
(* own view; `memory` is what the main thread sees of it.  The tick reads    *)
(* nothing that the main thread stores.  The bytes of a segment are copied   *)
(* in one step.                                                              *)
EXTENDS CanTp

VARIABLES
    memory,   \* Rx_buf and rcv.N_result
    stores,   \* what the tick has still to store there, in order
    call,     \* the next statement of receive_network_layer, the segments
              \* copied so far, and what it returns
    told,     \* history: the last message that was complete
    overlap   \* history: a call reached into the last message that began

storeVars == <<memory, stores, call, told, overlap>>
all == <<vars, storeVars>>

Message(buf) == [length |-> buf.length, segs |-> buf.segs]

StoresInit ==
    /\ Init
    /\ memory = [N_result |-> "N_INVALID", id |-> rxbuf.id, length |-> 0, segs |-> <<>>]
    /\ stores = <<>>
    /\ call = [at |-> "none", n |-> 0, got |-> Message(rxbuf)]
    /\ told = Message(rxbuf)
    /\ overlap = FALSE

-----------------------------------------------------------------------------
(* The stores of the handlers, each a field and its value.  They are taken   *)
(* from what the step has made of rxbuf and rcv.  A single frame first takes *)
(* the last result away; the fault tells of the message before its length.   *)
SingleFrameStoresEarly(buf, result) ==
    <<<<"N_result", "N_INVALID">>, <<"id", buf.id>>>> \o
    (IF result = "N_OK"
     THEN <<<<"segs", buf.segs>>, <<"N_result", result>>, <<"length", buf.length>>>>
     ELSE <<<<"N_result", result>>>>)
SingleFrameStores(buf, result) ==
    <<<<"N_result", "N_INVALID">>, <<"id", buf.id>>>> \o
    (IF result = "N_OK"
     THEN <<<<"segs", buf.segs>>, <<"length", buf.length>>, <<"N_result", result>>>>
     ELSE <<<<"N_result", result>>>>)

(* A first frame takes it away last.                                         *)
FirstFrameStores(buf, fits) ==
    <<<<"id", buf.id>>>> \o
    (IF fits THEN <<<<"length", buf.length>>, <<"segs", buf.segs>>>> ELSE <<>>) \o
    <<<<"N_result", "N_INVALID">>>>

(* The other handlers store data, if a consecutive frame was taken, and a    *)
(* result, if they end the reception (SWITCH_TO_RCV_OK).                     *)
OtherStores(buf, result, taken, ends) ==
    (IF taken THEN <<<<"segs", buf.segs>>>> ELSE <<>>) \o
    (IF ends THEN <<<<"N_result", result>>>> ELSE <<>>)

PutsSingleFrame == pc = "rx" /\ Kind = "SF"
PutsFirstFrame == pc = "rx" /\ InFlow("RCV_FF")

StoresOfTick ==
    IF PutsSingleFrame THEN SingleFrameStores(rxbuf', rcv'.N_result)
    ELSE IF PutsFirstFrame
    THEN FirstFrameStores(rxbuf', FF_DL(Pdu.f) \in FF_DATA + 1 .. N_DATA_MAX)
    ELSE OtherStores(rxbuf', rcv'.N_result, rxbuf' # rxbuf,
                     rcv.status # "RCV_OK" /\ rcv'.status = "RCV_OK")

(* A step of the tick, and then its stores.  A call that is under way when a *)
(* message begins reaches into it.                                           *)
TickThenStores ==
    /\ stores = <<>>
    /\ MainNetworkLayer
    /\ stores' = StoresOfTick
    /\ overlap' = IF PutsSingleFrame \/ PutsFirstFrame THEN call.at # "none" ELSE overlap
    /\ UNCHANGED <<memory, call, told>>

Store ==
    /\ stores # <<>>
    /\ memory' = [memory EXCEPT ![stores[1][1]] = stores[1][2]]
    /\ stores' = Tail(stores)
    /\ told' = IF stores[1] = <<"N_result", "N_OK">> THEN Message(rxbuf) ELSE told
    /\ UNCHANGED <<vars, call, overlap>>

FrameArrives == (\E f \in Frames : Deliver(f)) /\ UNCHANGED storeVars

-----------------------------------------------------------------------------
(* receive_network_layer.  A call that begins while a first frame is being   *)
(* put over a message that was not read reaches into it as well.             *)
Statement(from, to) == call.at = from /\ call' = [call EXCEPT !.at = to]

CheckResult ==
    /\ Statement("none", "id")
    /\ memory.N_result = "N_OK"
    /\ overlap' = (overlap \/ (\E i \in DOMAIN stores : stores[i] = <<"N_result", "N_INVALID">>))
    /\ UNCHANGED <<vars, memory, stores, told>>

CheckAddress ==
    /\ call.at = "id"
    /\ call' = IF memory.id \in RcvIds
               THEN [call EXCEPT !.at = "data", !.n = 0, !.got.segs = <<>>]
               ELSE [call EXCEPT !.at = "none"]
    /\ UNCHANGED <<vars, memory, stores, told, overlap>>

(* The length is read again for each byte.  Where the message has not got to *)
(* there is what an earlier one left.                                        *)
SegmentsIn(m) ==
    IF m.length = 0 THEN 0
    ELSE IF m.segs[1].type = "SF" THEN (m.length + CF_DATA - 1) \div CF_DATA
    ELSE 1 + Consecutives(m.length)
LeftOver == [type |-> "CF", data |-> NoFrame.data]

CopyData ==
    /\ call.at = "data"
    /\ call' = IF call.n < SegmentsIn(memory)
               THEN [call EXCEPT !.n = @ + 1,
                                 !.got.segs = Append(@, IF call.n < Len(memory.segs)
                                                        THEN memory.segs[call.n + 1]
                                                        ELSE LeftOver)]
               ELSE [call EXCEPT !.at = "length"]
    /\ UNCHANGED <<vars, memory, stores, told, overlap>>

CopyLength ==
    /\ call.at = "length"
    /\ call' = [call EXCEPT !.at = "clear", !.got.length = memory.length]
    /\ UNCHANGED <<vars, memory, stores, told, overlap>>

ClearLength ==
    /\ Statement("clear", "result")
    /\ memory' = [memory EXCEPT !.length = 0]
    /\ UNCHANGED <<vars, stores, told, overlap>>

ClearResult ==
    /\ Statement("result", "none")
    /\ memory' = [memory EXCEPT !.N_result = "N_INVALID"]
    /\ UNCHANGED <<vars, stores, told, overlap>>

ReceiveNetworkLayerStores ==
    CheckResult \/ CheckAddress \/ CopyData \/ CopyLength \/ ClearLength \/ ClearResult

StoresNext == TickThenStores \/ Store \/ FrameArrives \/ ReceiveNetworkLayerStores
StoresSpec == StoresInit /\ [][StoresNext]_all

-----------------------------------------------------------------------------
(* What a call returns is the last message that was complete, all of it and  *)
(* nothing else, although it takes no lock; unless the call was under way    *)
(* when another message began, or began while a first frame was being put    *)
(* over the message (can_tp.c:242, 313-332, 569-583, 597-625, 661-672).      *)
TakenWhole == call.at = "result" /\ ~overlap => call.got = told
=============================================================================

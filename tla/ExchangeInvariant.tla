-------------------------- MODULE ExchangeInvariant --------------------------
(* What holds in every state of an exchange and makes its promises hold: the *)
(* way of a request from the tester to the server, and the way of an answer  *)
(* back, each with the places where a frame can get lost.  A lost frame      *)
(* leaves a gap that no later frame closes, so that the two sides, which     *)
(* count frames, never take a message with a gap for a whole one.            *)
EXTENDS Exchange

(* Whose place is p or, if frames were lost, further on by one or more.      *)
Skip(p, q) == q = p \/ q >= p + CF_DATA

(* The byte after a frame's, and after the first n frames of a message.      *)
EndOf(f) == f.data.pos + (IF f.type = "FF" THEN FF_DATA ELSE CF_DATA)
Expected(n) == FF_DATA + CF_DATA * (n - 1)

LastOf(s) == s[Len(s)]
Start(m) == [msg |-> m.msg, pos |-> 0]

(* Frames of one message that were put together: the first ones of it, or so *)
(* few that the last of them is too far on.                                  *)
InPlace(parts) ==
    \A i \in 1 .. Len(parts) :
        parts[i].data.pos = IF i = 1 THEN 0 ELSE FF_DATA + CF_DATA * (i - 2)
Behind(parts) == EndOf(LastOf(parts)) >= Expected(Len(parts)) + CF_DATA

PartsOf(parts, m) ==
    /\ parts # <<>> /\ parts[1].type = "FF"
    /\ \A i \in 1 .. Len(parts) : /\ parts[i].data.msg = m.msg
                                  /\ i > 1 => parts[i].type = "CF"
    /\ InPlace(parts) \/ Behind(parts)

-----------------------------------------------------------------------------
(* The way of a request.  Pdu is the frame that the node looks at next.      *)
FirstOf(f, m) ==
    /\ f.data = Start(m)
    /\ IF m.length < CF_DATA THEN f.type = "SF" /\ f.lo = m.length
       ELSE f.type = "FF" /\ FF_DL(f) = m.length
NextOf(f, m) == f.type = "CF" /\ f.data.msg = m.msg /\ f.data.pos < m.length

NoStart(f) == f.type \in {"CF", "FC"}
NoStartOnBus == \A f \in Range(bus) : NoStart(f)

(* No frame that is on the bus or still to be written is before p.           *)
From(p) == /\ \A f \in Range(bus) : Skip(p, f.data.pos)
           /\ call = "schedule_tx" => Skip(p, tp.t_size)

Ascending(fs) ==
    \A i, j \in 1 .. Len(fs) : i < j => Skip(EndOf(fs[i]), fs[j].data.pos)

InOrder ==
    /\ Ascending(bus)
    /\ call = "schedule_tx" => \A f \in Range(bus) : Skip(EndOf(f), tp.t_size)
    /\ From(EndOf(LastOf(rxbuf.segs)))
    /\ Pdu.is_valid => /\ From(EndOf(Pdu.f))
                       /\ Skip(EndOf(LastOf(rxbuf.segs)), Pdu.f.data.pos)

Reading == user.at \in {"rcv_data", "rcv_length", "rcv_clear", "rcv_result"}
NothingToRead == rcv.N_result # "N_OK" /\ ~Reading

(* No message comes in, and no frame is left that would begin one.           *)
AtRest ==
    /\ rcv.status \in {"RX_IDLE", "RCV_OK"}
    /\ Pdu.is_valid => NoStart(Pdu.f) \/ (Pdu.f.type = "SF" /\ rcv.status = "RCV_OK")

(* The tester has written the first frame, and waits for flow control unless *)
(* it was a single frame.                                                    *)
NotYetGranted ==
    /\ inbox = <<>> /\ ~rcvFC.is_valid
    /\ call \in {"schedule_tx", "none"} \/ (call = "waitSForFF" /\ request.length < CF_DATA)
    /\ call = "schedule_tx" => tp.state = "WAIT_FC" /\ tp.t_size = FF_DATA

(* Its first frame is on the bus or in the mailbox.                          *)
Coming ==
    /\ NothingToRead /\ NotYetGranted
    /\ \/ Len(bus) = 1 /\ FirstOf(bus[1], request) /\ AtRest
       \/ /\ bus = <<>> /\ mailbox # <<>> /\ FirstOf(Pdu.f, request)
          /\ rcv.status \in {"RX_IDLE", "RCV_OK"}

(* Its first frame was taken and is judged in the next tick.                 *)
Judged ==
    /\ rcv.status = "RCV_FF" /\ NothingToRead /\ NotYetGranted
    /\ request.length >= CF_DATA
    /\ bus = <<>> /\ Pdu.is_valid /\ FirstOf(Pdu.f, request)

(* Its frames are put together, as far as none is missing.                   *)
Taking ==
    /\ Receiving /\ NothingToRead
    /\ request.length >= CF_DATA /\ rxbuf.length = request.length
    /\ rxbuf.length - rcv.length = Expected(Len(rxbuf.segs)) /\ rcv.length > 0
    /\ PartsOf(rxbuf.segs, request)
    /\ \A f \in Range(bus) : NextOf(f, request)
    /\ Pdu.is_valid => NextOf(Pdu.f, request)
    /\ InOrder

(* It is whole and waits for the server, or is being copied.                 *)
Held ==
    /\ AtRest /\ NoStartOnBus
    /\ rxbuf.segs # <<>> /\ IsAllOf(rxbuf.segs, request)
    /\ rcv.N_result = "N_OK"
    /\ user.at # "rcv_result" => rxbuf.length = request.length
    /\ user.at = "rcv_data" /\ user.n > 0 =>
         /\ user.n <= Len(rxbuf.segs) /\ Len(user.got.segs) = user.n
         /\ \A i \in 1 .. user.n : user.got.segs[i] = rxbuf.segs[i]
    /\ user.at \in {"rcv_length", "rcv_clear", "rcv_result"} =>
         user.got.segs # <<>> /\ IsAllOf(user.got.segs, request)

(* Nothing of an answer is on its way to the tester, or will be.             *)
Blank == /\ \A f \in Range(inbox) : f.type = "FC"
         /\ call = "receive" => response = <<>>
SenderQuiet == /\ user.at \notin {"send_data", "send_length"}
               /\ txbuf.length = 0 \/ send.status = "SEND_OK"

(* The last request may still get to the server, or no longer.               *)
NotServed == \A i \in 1 .. Len(served) : served[i] < Len(asked)
Live ==
    /\ Coming \/ Judged \/ Taking \/ Held
    /\ asked # <<>> /\ NotServed
    /\ poll = None /\ SenderQuiet /\ Blank
Dead ==
    /\ AtRest \/ (rcv.status = "SEND_FC" /\ rcvFC.FS = OVFLW /\ (Pdu.is_valid => NoStart(Pdu.f)))
    /\ NoStartOnBus /\ NothingToRead
    /\ poll # None => SenderQuiet /\ Blank

-----------------------------------------------------------------------------
(* A tester who is not hasty.                                                *)
TesterInv ==
    /\ asked # <<>> => request = LastOf(asked)
    /\ call # "none" => asked # <<>>
    /\ call = "schedule_tx" => /\ tp.state \in {"WAIT_FC", "SEND_CF"}
                               /\ FF_DATA <= tp.t_size /\ tp.t_size < request.length
    /\ call = "receive" /\ response = <<>> => tp.state = "IDLE"
    /\ call = "receive" /\ response # <<>> => response[1].type = "FF"
    /\ call = "waitSForFF" => response = <<>>
    /\ call = "waitSForFF" /\ tp.state # "IDLE" =>
          /\ request.length < CF_DATA /\ ~rcvFC.is_valid
          /\ IF inbox = <<>> THEN ~Sending ELSE inbox[1].type \in {"SF", "FF"}

(* What a sender sends is the last answer, if it crossed no other.           *)
SenderInv ==
    /\ LongMessage /\ SendAccounting
    /\ user.at \in {"send_data", "send_length"} => send.status = "TX_IDLE" /\ txbuf.length = 0
    /\ user.at = "send_length" => txbuf.msg = user.m.msg
    /\ user.at \in {"send_data", "send_length"} => replied # <<>> /\ user.m = LastOf(replied)
    /\ txbuf.length # 0 =>
         /\ replied # <<>>
         /\ txbuf.length = LastOf(replied).length /\ txbuf.msg = LastOf(replied).msg

(* What comes to the tester are frames of the last answer.                   *)
OneAnswer ==
    /\ \/ user.at \in {"send_data", "send_length"}
       \/ txbuf.length # 0 /\ send.status \in {"TX_IDLE", "SEND_FF"}
       => Blank
    /\ \A f \in Range(inbox) : f.type # "FC" =>
         /\ replied # <<>> /\ f.data.msg = LastOf(replied).msg
         /\ f.type = "FF" => FF_DL(f) = LastOf(replied).length
         /\ f.type = "CF" => f.data.pos < LastOf(replied).length
    /\ call = "receive" /\ response # <<>> =>
         /\ replied # <<>> /\ tp.t_size = LastOf(replied).length
         /\ response[1].data.msg = LastOf(replied).msg

(* It has not got that answer while something of it is still to come.        *)
NotGotYet ==
    /\ got \in Seq(Nat)
    /\ \A i \in 1 .. Len(got) : got[i] <= Len(replied)
    /\ call # "none" /\ (~SenderQuiet \/ ~Blank) =>
         \A i \in 1 .. Len(got) : got[i] < Len(replied)

ServedInv ==
    served \in Seq(Nat) /\ \A i \in 1 .. Len(served) : served[i] <= Len(asked)

(* While the tester asks only when nothing of an earlier request can come    *)
(* any more, its last request is either on its way, in one of four places    *)
(* and with a gap that no later frame closes if a frame was lost, or it is   *)
(* lost or taken and the node is ready for the next one; the server has not  *)
(* got it before, the tester gets frames of one answer at a time, and no     *)
(* answer crosses another.  So it goes whatever is dropped and whichever     *)
(* timer runs out (cantp.py:154-350, can_tp.c:224-264, 296-334, 571-740).    *)
PatientInv ==
    ~hasty => /\ Live \/ Dead
              /\ TesterInv /\ OneAnswer /\ NotGotYet /\ ServedInv /\ ~crossed

-----------------------------------------------------------------------------
(* The way of an answer, for any tester: each consecutive frame follows the  *)
(* frame before it, up to the one that the tester took last, and what is     *)
(* still to be sent follows the last of them.                                *)
Follows(p, q) == q = p \/ (overrun /\ Skip(p, q))
Continues(f, g) ==
    f.type \in {"FF", "CF"} /\ g.type = "CF" =>
        g.data.msg = f.data.msg /\ Follows(EndOf(f), g.data.pos)
SentNext(f) ==
    f.type \in {"FF", "CF"} /\ Sending =>
        txbuf.msg = f.data.msg /\ Follows(EndOf(f), send.pos)

Begins(f, a) == f.data = Start(a) /\ (f.type = "FF" => a.length >= CAN_FRAME_SIZE
                                                       /\ FF_DL(f) = a.length)

Stream ==
    /\ \A f \in Range(inbox) :
         /\ f.type \in {"SF", "FF"} => \E a \in Range(replied) : Begins(f, a)
         /\ f.type = "CF" => f.data.pos >= FF_DATA
    /\ \A i \in 1 .. Len(inbox) - 1 : Continues(inbox[i], inbox[i + 1])
    /\ inbox # <<>> => SentNext(LastOf(inbox))

Response ==
    call = "receive" /\ response # <<>> =>
      /\ IF inbox = <<>> THEN SentNext(LastOf(response))
         ELSE Continues(LastOf(response), inbox[1])
      /\ \/ response[1].type = "CF" /\ response[1].data.pos # 0
         \/ \E a \in Range(replied) :
              /\ a.length = tp.t_size /\ tp.t_size > ResponseSize
              /\ PartsOf(response, a) /\ (~overrun => InPlace(response))

(* The way of an answer from Tx_buf over the library's queue to what the     *)
(* tester has put together has no seam: each consecutive frame continues the *)
(* message of the frame before it, where that one ended, or further on if    *)
(* the library had no room for those between; so what the tester returns is  *)
(* whole, as long as no answer crossed another (can_tp.c:269-292, 397-542,   *)
(* cantp.py:254-350).                                                        *)
StreamInv ==
    ~crossed /\ (~overrun \/ ~hasty) => Stream /\ Response /\ PositiveIsWhole

(* The machine of can_tp.c that takes frames starts from scratch.            *)
IdleType == rcv.status = "RX_IDLE" => frame_type = Unknown

-----------------------------------------------------------------------------
(* An exchange that nothing disturbs, for any tester.  Both sides count the  *)
(* frames of a message and of a block, and agree on the counts but for what  *)
(* is on its way between them.                                               *)
EndsWrong(m) == EndsBlock(m) \/ m.length > N_DATA_MAX
Smooth == ~disturbed /\ \A m \in Range(asked) : ~EndsWrong(m)

(* The frames of the tester that the node has not looked at, the next first. *)
Unseen == IF pdu.is_valid THEN <<pdu.f>> ELSE <<>>
Flight == Unseen \o (mailbox \o bus)

Grants(f) == f.type = "FC" /\ f.lo = CTS
Granted(k) == \A i \in 1 .. k : Grants(Flight[i])

(* The tester waits for the answer to its first frame.                       *)
Announced ==
    /\ call = "schedule_tx" /\ tp.state = "WAIT_FC" /\ inbox = <<>>
    /\ tp.t_size = FF_DATA /\ tp.SN = 0 /\ request.length >= CF_DATA

(* A message begins with the i-th frame in flight, the last one if it is a   *)
(* first frame or begins the request for whose answer the tester waits.      *)
BeginsAt(i) ==
    LET f == Flight[i] IN
    /\ \/ f.type = "SF" /\ f.lo \in 1 .. CF_DATA
       \/ /\ f.type = "FF" /\ i = Len(Flight) /\ Announced
          /\ FF_DL(f) = request.length /\ f.data.msg = request.msg
    /\ f.data.msg \notin Quiet =>
         /\ i = Len(Flight) /\ f.data.msg = request.msg
         /\ f.type = "SF" => call = "waitSForFF" /\ f.lo = request.length
BeginsAfter(k) == \A i \in k + 1 .. Len(Flight) : BeginsAt(i)
Announces(k) == call = "schedule_tx" => k < Len(Flight) /\ Flight[Len(Flight)].type = "FF"

Rests == /\ rcv.status \in {"RX_IDLE", "RCV_OK"} /\ ~pdu.is_valid /\ ~rcvFC.is_valid

Between ==
    /\ Rests /\ inbox = <<>>
    /\ \E k \in 0 .. Len(Flight) : Granted(k) /\ BeginsAfter(k) /\ Announces(k)

Judges ==
    /\ rcv.status = "RCV_FF" /\ pdu.is_valid /\ ~rcvFC.is_valid
    /\ Len(Flight) = 1 /\ Flight[1].type = "FF" /\ BeginsAt(1)

(* The sequence number of the frame that comes after the first k.            *)
NumberAfter(k) == IF k = 0 THEN rcv.CF_SN ELSE NextSN(Flight[k].lo)

(* The tester writes the frames of the message that the node takes.          *)
Writes(k) ==
    /\ k = Len(Flight) /\ call = "schedule_tx" /\ rxbuf.segs[1].data.msg = request.msg
    /\ request.length - tp.t_size = rcv.length - CF_DATA * k
    /\ rcv.length > CF_DATA * k
    /\ NextSN(tp.SN) = NumberAfter(k)
    /\ \/ /\ tp.state = "WAIT_FC" /\ k = 0
          /\ \/ rcv.status = "SEND_FC" /\ rcvFC.is_valid /\ inbox = <<>>
             \/ /\ ~rcvFC.is_valid /\ Len(inbox) = 1
                /\ Grants(inbox[1]) /\ inbox[1].b1 = rcvFC.BS
       \/ /\ tp.state = "SEND_CF" /\ ~rcvFC.is_valid /\ inbox = <<>>
          /\ tp.BS = rcvFC.BS - k /\ tp.BS > 0
       \/ tp.state = "WAIT_FC" /\ ~rcvFC.is_valid /\ inbox = <<>> /\ k = rcvFC.BS

(* It has written the last of them.                                          *)
Wrote(k) ==
    /\ ~rcvFC.is_valid /\ inbox = <<>> /\ 1 <= k /\ k <= rcvFC.BS
    /\ rcv.length <= CF_DATA * k /\ CF_DATA * (k - 1) < rcv.length
    /\ BeginsAfter(k) /\ Announces(k)

(* The end of the message is not the end of a block.                         *)
EndsWithin ==
    \A j \in Nat :
        LET left == CF_DATA * (rcvFC.BS + j * FC_BS)
        IN  rcv.length <= left - CF_DATA \/ left < rcv.length

Takes ==
    /\ Receiving /\ rcv.N_result = "N_INVALID"
    /\ rcv.length > 0 /\ rcvFC.BS \in 1 .. FC_BS /\ EndsWithin
    /\ rxbuf.segs # <<>> /\ rxbuf.segs[1].type = "FF"
    /\ \E k \in 0 .. Len(Flight) :
         /\ \A i \in 1 .. k : Flight[i].type = "CF" /\ Flight[i].lo = NumberAfter(i - 1)
         /\ Writes(k) \/ Wrote(k)

-----------------------------------------------------------------------------
(* What the server has of it.                                                *)
Fresh == rcv.N_result = "N_OK" \/ Receiving \/ Reading

(* Nothing of the request is left but in Rx_buf.                             *)
Drained == /\ call = "waitSForFF" /\ Flight = <<>>
           /\ rcv.status \in {"RX_IDLE", "RCV_OK"}

(* What is in Rx_buf is the request for whose answer the tester waits.       *)
Mine ==
    /\ \/ Drained
       \/ /\ Receiving /\ call # "none"
          /\ \A i \in 1 .. Len(Flight) : Flight[i].type = "CF"
          /\ rcv.length + Expected(Len(rxbuf.segs)) = request.length
    /\ user.at # "rcv_result" => rxbuf.length = request.length
    /\ rxbuf.segs[1].type = "SF" => request.length <= CF_DATA

CopyTrue ==
    /\ Mine /\ Len(user.got.segs) = user.n
    /\ \A i \in 1 .. user.n :
         \/ i <= Len(rxbuf.segs) /\ user.got.segs[i] = rxbuf.segs[i]
         \/ i > 1 /\ user.got.segs[i] = LeftOver
    /\ user.at # "rcv_data" => user.n >= SegmentsIn(request.length, rxbuf.segs[1].type)

CopyInv ==
    /\ Reading => poll = None
    /\ poll = None /\ user.at # "rcv_result" /\ Fresh => rxbuf.segs # <<>> /\ rxbuf.length > 0
    /\ poll = None /\ Fresh /\ rxbuf.segs[1].data.msg \notin Quiet => Mine
    /\ user.at \in {"rcv_clear", "rcv_result"} => user.got.length > 0
    /\ Reading /\ (user.at = "rcv_data" => user.n > 0) =>
         /\ user.n > 0 /\ user.got.segs # <<>>
         /\ user.got.segs[1].data.msg \notin Quiet => CopyTrue

(* The request for whose answer the tester waits is somewhere.               *)
Somewhere ==
    \/ Flight # <<>> /\ ~Grants(Flight[Len(Flight)])
    \/ Receiving \/ rcv.status = "RCV_FF" \/ rcv.N_result = "N_OK" \/ Reading \/ poll # None

RequestSide ==
    /\ call # "receive" /\ SenderQuiet
    /\ Between \/ Judges \/ Takes
    /\ CopyInv
    /\ call = "waitSForFF" => Somewhere
    /\ poll # None /\ poll[1] \notin Quiet => Drained /\ rcv.N_result # "N_OK"

-----------------------------------------------------------------------------
(* The answer.                                                               *)
Prepared ==
    /\ call = "waitSForFF" /\ inbox = <<>>
    /\ \/ user.at \in {"send_data", "send_length"} /\ send.status = "TX_IDLE" /\ txbuf.length = 0
       \/ /\ user.at \notin {"send_data", "send_length"} /\ txbuf.length > 0
          /\ send.status \in {"TX_IDLE", "SEND_FF"}

SentSingle == /\ call = "waitSForFF" /\ Len(inbox) = 1 /\ inbox[1].type = "SF"
              /\ SenderQuiet

(* What the tester lacks once the first n frames of the queue are taken, and *)
(* the sequence number it expects then.                                      *)
Lacks(n) == IF call = "receive" THEN tp.t_size - ResponseSize - CF_DATA * n
            ELSE FF_DL(inbox[1]) - FF_DATA - CF_DATA * (n - 1)
ExpectedAfter(n) ==
    IF n = 0 THEN NextSN(tp.SN) ELSE IF inbox[n].type = "FF" THEN 1 ELSE NextSN(inbox[n].lo)

SentFrames ==
    /\ \/ /\ call = "receive" /\ tp.state \in {"SEND_FC", "WAIT_CF"}
          /\ response # <<>> /\ response[1].type = "FF" /\ Lacks(0) > 0
       \/ call = "waitSForFF" /\ inbox # <<>> /\ inbox[1].type = "FF" /\ Lacks(1) > 0
    /\ \A i \in 1 .. Len(inbox) :
         \/ i = 1 /\ inbox[1].type = "FF" /\ call = "waitSForFF"
         \/ inbox[i].type = "CF" /\ inbox[i].lo = ExpectedAfter(i - 1) /\ Lacks(i - 1) > 0
SentMultiple ==
    /\ SentFrames
    /\ \/ /\ Sending /\ user.at \notin {"send_data", "send_length"}
          /\ send.length = Lacks(Len(inbox)) /\ send.length > 0
          /\ send.CF_SN = ExpectedAfter(Len(inbox))
       \/ SenderQuiet /\ Lacks(Len(inbox)) <= 0

(* The node has taken the request and does nothing more with it.             *)
RequestOver == /\ Rests /\ Granted(Len(Flight)) /\ rcv.N_result # "N_OK"
               /\ poll = None /\ ~Reading

AnswerSide ==
    /\ RequestOver
    /\ Prepared \/ SentSingle \/ SentMultiple

Unfailed ==
    /\ outcome.ercd \/ outcome.res # None
    /\ sendFC.FS = CTS
    /\ asked # <<>> => request = LastOf(asked)
    /\ call # "none" => asked # <<>>
    /\ call \in {"waitSForFF", "receive"} => request.msg \notin Quiet

(* As long as nothing disturbs an exchange its last request, for whose       *)
(* answer the tester waits, is on its way to the server or the answer is on  *)
(* its way back, at a place where both sides expect it, and what is left     *)
(* over from earlier requests is taken or ignored before                     *)
(* (can_tp.c:211-264, 571-740, cantp.py:154-350).                            *)
SmoothInv == Smooth => Unfailed /\ (RequestSide \/ AnswerSide)
=============================================================================

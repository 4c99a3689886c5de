------------------------------ MODULE MCCanTp ------------------------------
(* Small instances of the transport layer for TLC.  Frames and messages are  *)
(* chosen per run by the configuration.                                      *)
EXTENDS CanTpTraffic

NoPayload == [msg |-> "m", pos |-> 0]
SF(len) == [type |-> "SF", lo |-> len, b1 |-> 0, b2 |-> 0, id |-> "tester",
            data |-> NoPayload]
FF(len) == [type |-> "FF", lo |-> len \div 256, b1 |-> len % 256, b2 |-> 0,
            id |-> "tester", data |-> NoPayload]
CF(sn) == [type |-> "CF", lo |-> sn, b1 |-> 20, b2 |-> 0, id |-> "tester",
           data |-> NoPayload]
ZeroCF(sn) == [CF(sn) EXCEPT !.b1 = 0]
FC(fs, bs, st) == [type |-> "FC", lo |-> fs, b1 |-> bs, b2 |-> st,
                   id |-> "tester", data |-> NoPayload]

MCIds == {"tester", "ecu"}
MCMsgs == {"m", "n"}
NoBytes == {0}
Nothing == {}
Tester == {"tester"}
Ecu == {"ecu"}

(* Sender: a single frame, a multiple frame that ends at a frame boundary,   *)
(* one that passes it, and one whose sequence numbers wrap.                  *)
MCMessages == {[length |-> n, id |-> "ecu", msg |-> "m"] : n \in {7, 8, 13, 14, 34}}
                \union {[length |-> 20, id |-> "ecu", msg |-> "n"]}

(* Flow control of every status, with and without a block size and a         *)
(* separation time, and with a block size that the code finds too large.     *)
AllFC == {FC(CTS, 1, 0), FC(CTS, 2, 5), FC(CTS, 0, 2), FC(CTS, 255, 0),
          FC(WT, 1, 0), FC(OVFLW, 1, 0), FC(RESERVED, 1, 0)}

(* Receiver: first frames with a length for a single frame, that fit, just   *)
(* fit and do not fit; consecutive frames in and out of order; single frames *)
(* and flow control; consecutive frames in which rcv_first_frame would read  *)
(* a length of 0, one that fits, and one that does not.                      *)
AllFrames == {FF(6), FF(14), FF(34), FF(35), SF(0), SF(3), FC(CTS, 1, 0),
              ZeroCF(0)} \union {CF(sn) : sn \in 0 .. 2}
(* The tester also asks for something with a single frame.                   *)
MixedFrames == {FF(20), SF(3)} \union {CF(sn) : sn \in 0 .. 2}
=============================================================================

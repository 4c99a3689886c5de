---------------------------- MODULE MCCanTpTest ----------------------------
(* can_tp_test.c for TLC: messages in one and in several frames, flow        *)
(* control of every kind, and a message to receive.                          *)
EXTENDS CanTpTest

MCIds == {"peer", "own"}
MCMsgs == {"m", "n"}
MCMessages == {[length |-> 3, id |-> "own", msg |-> "m"],
               [length |-> 14, id |-> "own", msg |-> "n"]}
FC(fs, bs) == [type |-> "FC", lo |-> fs, b1 |-> bs, b2 |-> 0, id |-> "peer",
               data |-> NoData]
MCFrames == {FC(CTS, 1), FC(OVFLW, 0), FC(WT, 0), FC(CTS, 255),
             [FC(3, 0) EXCEPT !.type = "SF"]}
Peer == {"peer"}
NoBytes == {0}
Nothing == {}
=============================================================================

---------------------------- MODULE MCSocketCan ----------------------------
(* A small instance of the device driver for TLC.                            *)
EXTENDS SocketCanHistory

TwoPorts == {0, 1}
=============================================================================

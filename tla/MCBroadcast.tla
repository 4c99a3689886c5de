---------------------------- MODULE MCBroadcast ----------------------------
(* A small instance of the bus for TLC: three clients, so that one can be    *)
(* behind the one that is removed.                                           *)
EXTENDS Broadcast
=============================================================================

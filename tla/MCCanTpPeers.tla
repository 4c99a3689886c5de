---------------------------- MODULE MCCanTpPeers ----------------------------
(* One instance for both halves of the transport layer: the peer either only *)
(* answers what the user sends with flow control, or sends messages of its   *)
(* own to a user who only receives.                                          *)
EXTENDS MCCanTp

VARIABLE peer

Answers == AllFC
Sends == AllFrames
BothFrames == AllFC \union AllFrames

PeersInit == TrafficInit /\ peer \in {Answers, Sends}
PeersNext ==
    /\ TrafficNext
    /\ mailbox' # mailbox => \A i \in DOMAIN mailbox' : mailbox'[i] \in peer
    /\ peer = Sends => txbuf' = txbuf
    /\ UNCHANGED peer

PeersSpec == PeersInit /\ [][PeersNext]_<<traffic, peer>>
                       /\ WF_traffic(MainNetworkLayer /\ Observe)
=============================================================================

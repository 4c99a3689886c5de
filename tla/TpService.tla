----------------------------- MODULE TpService -----------------------------
(* What a transport layer promises its users in one direction: a message     *)
(* that was handed over may be lost, but what is delivered is one of those   *)
(* messages, whole, in the order in which they were handed over, and none is *)
(* delivered twice.                                                          *)
EXTENDS Naturals, Sequences

CONSTANT Messages

VARIABLES
    submitted,  \* the messages handed over, in order
    delivered   \* their places in submitted, in the order of delivery

service == <<submitted, delivered>>

Init == submitted = <<>> /\ delivered = <<>>

Submit == /\ \E m \in Messages : submitted' = Append(submitted, m)
          /\ UNCHANGED delivered

Deliver == /\ \E i \in DOMAIN submitted :
                /\ \A j \in DOMAIN delivered : delivered[j] < i
                /\ delivered' = Append(delivered, i)
           /\ UNCHANGED submitted

Next == Submit \/ Deliver

Spec == Init /\ [][Next]_service
=============================================================================

-------------------------- MODULE SocketCanHistory --------------------------
(* SocketCan with history variables for how its ports were used and for the  *)
(* start of its thread.                                                      *)
EXTENDS SocketCan

VARIABLES
    shared,     \* two ports have been open at the same time
    early       \* a daemon ended because it was not said to run yet

observed == <<vars, shared, early>>

EndsEarly ==
    user = "mark" /\ \E d \in Daemons : Live(d) /\ daemon'[d].pc = "done"

ObserveInit == shared = FALSE /\ early = FALSE
Observe ==
    /\ shared' = (shared \/ Cardinality(alive') > 1)
    /\ early' = (early \/ EndsEarly)

HistoryInit == Init /\ ObserveInit
HistoryNext == Next /\ Observe
HistorySpec == HistoryInit /\ [][HistoryNext]_observed

(* One thread receives, so that frames are notified in the order in which    *)
(* they came: for users like those in src/, who keep one port open at a      *)
(* time, however often they close it and open this or another one while the  *)
(* thread is still at the last one (socket_can.c:177-188, 219-234).          *)
AtMostOneDaemon ==
    ~shared => \A d1, d2 \in Daemons : Live(d1) /\ Live(d2) => d1 = d2

(* terminated is FALSE only while a daemon was started and has not ended, so *)
(* that a port opened now is received from without another one: unless a new *)
(* daemon looked at the flag before it was cleared for it                    *)
(* (socket_can.c:177-188, 219-236).                                          *)
DaemonServes ==
    ~early /\ ~terminated => \E d \in Daemons : Live(d)
=============================================================================

----------------------------- MODULE Broadcast -----------------------------
(* The bus of the windows build (src/src/bsp/win/socketwin_can_driver.c): a  *)
(* program that accepts clients over TCP and sends each frame it receives    *)
(* from one of them to all the others.  Its main thread walks the list of    *)
(* clients with socketLock held; a second thread puts new clients at the     *)
(* end of the list.                                                          *)
(*                                                                           *)
(* A frame is CAN_MTU bytes of a stream, and a stream may be read between    *)
(* any two of them: here a frame is two parts, numbered from 1.  The log is  *)
(* left out.  Clients are numbered in the order in which they connect, and   *)
(* one that comes again is another client.                                   *)
EXTENDS Integers, Sequences, FiniteSets, SequencesExt

CONSTANTS
    ClientsMax,         \* bound: connections in all
    CAN_BUS_NODE_MAX,   \* how many may wait to be accepted
    RoomMax,            \* frames that the socket of a client holds unread
    PartsMax            \* bound: parts that are sent in all

ASSUME BoundsAssumption == {ClientsMax, CAN_BUS_NODE_MAX, RoomMax, PartsMax} \subseteq Nat

Clients == 1..ClientsMax
NULL == 0

VARIABLES
    list,       \* socketH->head
    waiting,    \* the backlog of the listening socket
    accepted,   \* what accept returned and is not in the list yet
    locked,     \* socketLock is held by the main thread
    main,       \* where the main thread is: its frame is the last of bus
    conn,       \* the connection of each client
    put, taken, \* parts that each client sent, and that were read of them
    unread,     \* frames that wait in the socket of each client
    bus,        \* history: each frame that was read, whose it is and its first part
    heard,      \* history: the frames of bus that were sent to each client
    joined,     \* history: how long bus was when the client came into the list
    cut,        \* history: the frames of bus whose sending was broken off
    torn        \* history: clients of whom a part was read alone

server == <<list, accepted, locked, main, joined>>
streams == <<put, taken, bus, torn>>
sockets == <<unread, heard, cut>>
vars == <<server, waiting, conn, streams, sockets>>

Asleep == [pc |-> "sleep", h |-> NULL, h2 |-> NULL]

(* Each variable has its type, and no client is in two places.               *)
TypeOK ==
    /\ list \in Seq(Clients) /\ waiting \in Seq(Clients)
    /\ IsInjective(list \o waiting)
    /\ Len(waiting) <= CAN_BUS_NODE_MAX
    /\ accepted \in Clients \union {NULL}
    /\ locked \in BOOLEAN
    /\ main \in [pc : {"sleep", "recv", "send"}, h : Clients \union {NULL},
                 h2 : Clients \union {NULL}]
    /\ conn \in [Clients -> {"off", "on", "closed", "reset", "gone"}]
    /\ put \in [Clients -> Nat] /\ taken \in [Clients -> Nat]
    /\ \A c \in Clients : taken[c] <= put[c]
    /\ unread \in [Clients -> 0..RoomMax]
    /\ bus \in Seq([from : Clients, part : Nat \ {0}])
    /\ heard \in [Clients -> Seq(DOMAIN bus)]
    /\ joined \in [Clients -> 0..Len(bus)]
    /\ cut \subseteq DOMAIN bus /\ torn \subseteq Clients

BroadcastInit ==
    /\ list = <<>> /\ waiting = <<>> /\ accepted = NULL
    /\ locked = FALSE /\ main = Asleep
    /\ conn = [c \in Clients |-> "off"]
    /\ put = [c \in Clients |-> 0] /\ taken = put /\ unread = put /\ joined = put
    /\ bus = <<>> /\ heard = [c \in Clients |-> <<>>]
    /\ cut = {} /\ torn = {}

-----------------------------------------------------------------------------
(* The clients, each a program with its own socket.                          *)
Connect(c) ==
    /\ conn[c] = "off" /\ Len(waiting) < CAN_BUS_NODE_MAX
    /\ \A d \in 1..c - 1 : conn[d] # "off"
    /\ conn' = [conn EXCEPT ![c] = "on"]
    /\ waiting' = Append(waiting, c)
    /\ UNCHANGED <<server, streams, sockets>>

SumOf(f) == FoldFunction(+, 0, f)

(* A part may stay the last one only if the client goes before the next.     *)
SendsPart(c) ==
    /\ conn[c] = "on" /\ SumOf(put) < PartsMax
    /\ put' = [put EXCEPT ![c] = @ + 1]
    /\ UNCHANGED <<server, waiting, conn, taken, bus, torn, sockets>>

Reads(c) ==
    /\ conn[c] = "on" /\ unread[c] > 0
    /\ unread' = [unread EXCEPT ![c] = @ - 1]
    /\ UNCHANGED <<server, waiting, conn, streams, heard, cut>>

(* The client closes its socket or is killed.                                *)
Leaves(c) ==
    /\ conn[c] = "on"
    /\ \E how \in {"closed", "reset"} : conn' = [conn EXCEPT ![c] = how]
    /\ UNCHANGED <<server, waiting, streams, sockets>>

Client(c) == Connect(c) \/ SendsPart(c) \/ Reads(c) \/ Leaves(c)

-----------------------------------------------------------------------------
(* try_accept, in the thread rx_daemon: accept, and STAILQ_INSERT_TAIL with  *)
(* the lock.  The faults are to insert without it, and to insert what was    *)
(* accepted last also when nobody waits.                                     *)
Accept ==
    /\ accepted = NULL /\ waiting # <<>>
    /\ accepted' = Head(waiting) /\ waiting' = Tail(waiting)
    /\ UNCHANGED <<list, locked, main, joined, conn, streams, sockets>>

LockIgnored == TRUE
LockTaken == ~locked

AcceptedKept == accepted
AcceptedNext == NULL

Insert ==
    /\ accepted # NULL /\ LockTaken
    /\ list' = Append(list, accepted)
    /\ joined' = [joined EXCEPT ![accepted] = Len(bus)]
    /\ accepted' = AcceptedNext
    /\ UNCHANGED <<locked, main, waiting, conn, streams, sockets>>

-----------------------------------------------------------------------------
(* try_recv_forward, in the main thread.                                     *)
First(l) == IF l = <<>> THEN NULL ELSE Head(l)
Place(c, l) == CHOOSE i \in DOMAIN l : l[i] = c
After(c, l) == IF Place(c, l) < Len(l) THEN l[Place(c, l) + 1] ELSE NULL
Without(c, l) == RemoveAt(l, Place(c, l))

(* The outer loop goes on to h, and the lock is given back at its end.       *)
WalkEnds == main' = Asleep /\ locked' = FALSE
Walk(h) ==
    \/ h = NULL /\ WalkEnds
    \/ h # NULL /\ main' = [pc |-> "recv", h |-> h, h2 |-> NULL] /\ locked' = TRUE

(* The clients a frame of h is sent to.                                      *)
Others(h) == Without(h, list)

(* The inner loop goes on to h2.                                             *)
Forward(h, h2) ==
    \/ h2 = NULL /\ Walk(After(h, list))
    \/ h2 # NULL /\ main' = [pc |-> "send", h |-> h, h2 |-> h2] /\ UNCHANGED locked

(* remove_socket.                                                            *)
RemoveSocket(c) ==
    /\ list' = Without(c, list)
    /\ conn' = [conn EXCEPT ![c] = "gone"]

Begin ==
    /\ main.pc = "sleep" /\ ~locked
    /\ Walk(First(list))
    /\ UNCHANGED <<list, accepted, joined, waiting, conn, streams, sockets>>

(* recv on h, with so many parts to read.                                    *)
Receiving(h) == main.pc = "recv" /\ main.h = h
Readable(h) == put[h] - taken[h]

(* What counts as a frame; the fault is to take any part of one.             *)
IsFrameAny(n) == n >= 1
IsFrame(n) == n >= 2

RecvFrame(h) ==
    /\ Receiving(h) /\ conn[h] # "reset" /\ IsFrame(Readable(h))
    /\ taken' = [taken EXCEPT ![h] = IF Readable(h) > 1 THEN @ + 2 ELSE @ + 1]
    /\ bus' = Append(bus, [from |-> h, part |-> taken[h] + 1])
    /\ Forward(h, First(Others(h)))
    /\ UNCHANGED <<list, accepted, joined, waiting, conn, put, torn, sockets>>

(* Part of a frame is printed as a timeout, and is gone.                     *)
RecvPart(h) ==
    /\ Receiving(h) /\ conn[h] # "reset" /\ Readable(h) = 1 /\ ~IsFrame(1)
    /\ taken' = [taken EXCEPT ![h] = @ + 1]
    /\ torn' = torn \union {h}
    /\ Walk(After(h, list))
    /\ UNCHANGED <<list, accepted, joined, waiting, conn, put, bus, sockets>>

(* Nothing to read, or the client closed the connection: it stays either     *)
(* way.  The fault is to break off as for another error.                     *)
WhenNothingBreak(h) == NULL
WhenNothing(h) == After(h, list)

RecvNothing(h) ==
    /\ Receiving(h) /\ conn[h] # "reset" /\ Readable(h) = 0
    /\ Walk(WhenNothing(h))
    /\ UNCHANGED <<list, accepted, joined, waiting, conn, streams, sockets>>

RecvFails(h) ==
    /\ Receiving(h) /\ conn[h] = "reset"
    /\ RemoveSocket(h)
    /\ WalkEnds
    /\ UNCHANGED <<accepted, joined, waiting, streams, sockets>>

(* send to h2, which fails if the socket is full or the connection is lost;  *)
(* a frame for a client that closed is accepted, and may lose it.            *)
Sending(h, h2) == main.pc = "send" /\ main.h = h /\ main.h2 = h2
Fails(h2) == conn[h2] = "reset" \/ unread[h2] = RoomMax

SendFrame(h, h2) ==
    /\ Sending(h, h2) /\ ~Fails(h2)
    /\ heard' = [heard EXCEPT ![h2] = Append(@, Len(bus))]
    /\ unread' = [unread EXCEPT ![h2] = @ + 1]
    /\ \/ UNCHANGED conn
       \/ conn[h2] = "closed" /\ conn' = [conn EXCEPT ![h2] = "reset"]
    /\ Forward(h, After(h2, Others(h)))
    /\ UNCHANGED <<list, accepted, joined, waiting, streams, cut>>

(* The client is removed and the frame is not sent to those behind it; the   *)
(* fault is to go on from the handle that was freed.                         *)
AfterRemovalGoOn(h, h2) == Forward(h, h2)
AfterRemoval(h, h2) == Walk(After(h, list'))

SendFails(h, h2) ==
    /\ Sending(h, h2) /\ Fails(h2)
    /\ RemoveSocket(h2)
    /\ cut' = cut \union {Len(bus)}
    /\ AfterRemoval(h, h2)
    /\ UNCHANGED <<accepted, joined, waiting, streams, unread, heard>>

TryRecvForward ==
    \/ Begin
    \/ \E h \in Clients : \/ RecvFrame(h) \/ RecvPart(h) \/ RecvNothing(h)
                          \/ RecvFails(h)
    \/ \E h, h2 \in Clients : SendFrame(h, h2) \/ SendFails(h, h2)

-----------------------------------------------------------------------------
BroadcastNext ==
    \/ TryRecvForward
    \/ Accept \/ Insert
    \/ \E c \in Clients : Client(c)

(* Both loops sleep and go on for ever.  The main thread sleeps with the     *)
(* lock free, so that the other thread gets it: hence SF for Insert.         *)
BroadcastSpec ==
    /\ BroadcastInit /\ [][BroadcastNext]_vars
    /\ WF_vars(TryRecvForward) /\ WF_vars(Accept) /\ SF_vars(Insert)

-----------------------------------------------------------------------------
(* The loops stand at clients that are in the list, whose memory is not      *)
(* freed, though they remove clients while they walk it, and nobody but the  *)
(* holder of the lock changes it meanwhile (socketwin_can_driver.c:300-350). *)
WalkSound ==
    /\ main.pc # "sleep" => locked /\ Contains(list, main.h)
    /\ main.pc = "send" => Contains(list, main.h2) /\ main.h2 # main.h
    /\ locked => main.pc # "sleep"

(* A client hears, once each and in the one order of the bus, all frames of  *)
(* others since it came into the list and none of its own, except for those  *)
(* whose sending ended with the removal of another client                    *)
(* (socketwin_can_driver.c:321-331).                                         *)
Done == IF main.pc = "send" THEN 1..Len(bus) - 1 ELSE DOMAIN bus
Due(c) == {i \in Done : i > joined[c] /\ bus[i].from # c}
OneBus ==
    \A c \in ToSet(list) :
        LET h == heard[c] IN
        /\ \A i, j \in DOMAIN h : i < j => h[i] < h[j]
        /\ Due(c) \ cut \subseteq ToSet(h)
        /\ ToSet(h) \intersect Done \subseteq Due(c)

(* The frames of a client come to the bus in the order it sent them, each    *)
(* whole and none left out, as long as no read came between two parts of     *)
(* one; and no part of a frame comes to the bus twice                        *)
(* (socketwin_can_driver.c:302-303, 346-349).                                *)
PartsOnBus(c) == {bus[i].part : i \in {j \in DOMAIN bus : bus[j].from = c}}
FramesWhole ==
    /\ \A i, j \in DOMAIN bus :
          i < j /\ bus[i].from = bus[j].from => bus[i].part + 2 <= bus[j].part
    /\ \A c \in Clients \ torn :
          PartsOnBus(c) = {p \in 1..taken[c] : p % 2 = 1} /\ taken[c] % 2 = 0

(* Again and again all that was sent by the clients in the list is read and  *)
(* nobody waits to be put into it: neither the removal of a client, which    *)
(* ends a round early, nor a client that is silent or slow keeps the main    *)
(* thread from the others, or the other thread from the lock                 *)
(* (socketwin_can_driver.c:184-210, 298-353, 425-429).                       *)
Served == []<>(/\ \A c \in ToSet(list) : taken[c] = put[c]
               /\ waiting = <<>> /\ accepted = NULL)
=============================================================================

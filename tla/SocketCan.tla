----------------------------- MODULE SocketCan -----------------------------
(* The CAN device driver over sockets (src/src/bsp/linux/socket_can.c, and   *)
(* alike src/src/bsp/win/socketwin_can.c): the list of open ports, changed   *)
(* by the user's thread (socket_probe, socket_close) and walked by the       *)
(* thread that receives (rx_daemon), without a lock between them.            *)
(*                                                                           *)
(* socket_write changes nothing here and is left out.  A handle is a cell of *)
(* memory; a daemon may still be at a handle that was freed.                 *)
EXTENDS Integers, Sequences, FiniteSets

CONSTANTS
    Ports,
    Handles,    \* memory for Can_SocketHandle_s
    Daemons,    \* threads that pthread_create may start
    NULL

ASSUME HandlesAssumption == NULL \notin Handles

VARIABLES
    terminated,
    first,      \* socketH->head
    link,       \* the field entry of each handle
    port,       \* the field port of each handle
    alive,      \* handles that are allocated
    readable,   \* handles whose socket holds a frame
    user,       \* where the user's thread is: idle, spawn, mark or closing
    daemon,     \* where each rx_daemon is (pc: none, check, recv, notify or
                \* done) and its handle (at)
    running     \* FALSE once the program crashed

list == <<first, link, port, alive>>
vars == <<terminated, list, readable, user, daemon, running>>

Init ==
    /\ terminated = TRUE /\ running = TRUE
    /\ first = NULL /\ alive = {} /\ readable = {}
    /\ link = [h \in Handles |-> NULL]
    /\ port = [h \in Handles |-> CHOOSE p \in Ports : TRUE]
    /\ user = "idle"
    /\ daemon = [d \in Daemons |-> [pc |-> "none", at |-> NULL]]

UserStep(from, to) == running /\ user = from /\ user' = to

-----------------------------------------------------------------------------
(* socket_probe: a port that is not open is opened, which may fail; then the *)
(* daemon is started if it is said not to run, and only then said to run.    *)
(* The fault: getHandle looks at one handle only.                            *)
IsOpenFirst(p) == first # NULL /\ port[first] = p
IsOpen(p) == \E h \in alive : port[h] = p
Last(h) == h \in alive /\ link[h] = NULL

ProbeOpen(p) ==
    /\ UserStep("idle", "spawn")
    /\ ~IsOpen(p)
    /\ \E h \in Handles \ alive :
         /\ alive' = alive \union {h}
         /\ port' = [port EXCEPT ![h] = p]
         /\ link' = [l \in Handles |-> IF l = h THEN NULL
                                       ELSE IF Last(l) THEN h ELSE link[l]]
         /\ first' = IF first = NULL THEN h ELSE first
         /\ readable' = readable \ {h}
    /\ UNCHANGED <<terminated, daemon, running>>

ProbeFails(p) ==
    /\ UserStep("idle", "spawn")
    /\ UNCHANGED <<terminated, list, readable, daemon, running>>

StartDaemon ==
    /\ UserStep("spawn", "mark")
    /\ terminated /\ first # NULL
    /\ \E d \in Daemons :
         /\ daemon[d].pc \in {"none", "done"}
         /\ daemon' = [daemon EXCEPT ![d] = [pc |-> "check", at |-> NULL]]
    /\ UNCHANGED <<terminated, list, readable, running>>

(* There is nothing to start, or pthread_create fails; the fault is to say   *)
(* that the daemon runs all the same.                                        *)
WithoutDaemonMarked == "mark"
WithoutDaemon == "idle"

StartNoDaemon ==
    /\ UserStep("spawn", WithoutDaemon)
    /\ UNCHANGED <<terminated, list, readable, daemon, running>>

MarkStarted ==
    /\ UserStep("mark", "idle")
    /\ terminated' = FALSE
    /\ UNCHANGED <<list, readable, daemon, running>>

Probe(p) == ProbeOpen(p) \/ ProbeFails(p)

-----------------------------------------------------------------------------
(* socket_close: a handle leaves the list, its own link as it is; the daemon *)
(* is told to end if other ports are still open.                             *)
CloseHandle(p) ==
    /\ UserStep("idle", "closing")
    /\ \E h \in alive :
         /\ port[h] = p
         /\ alive' = alive \ {h}
         /\ first' = IF first = h THEN link[h] ELSE first
         /\ link' = [l \in Handles |-> IF l \in alive /\ link[l] = h THEN link[h]
                                       ELSE link[l]]
    /\ UNCHANGED <<terminated, port, readable, daemon, running>>

(* The flag socket_close leaves behind, and what one might take for a repair *)
(* of it, to end the daemon when no port is left.                            *)
EndedWhenEmpty == terminated \/ first = NULL
Ended == terminated \/ first # NULL

MarkEnded ==
    /\ UserStep("closing", "idle")
    /\ terminated' = Ended
    /\ UNCHANGED <<list, readable, daemon, running>>

-----------------------------------------------------------------------------
(* rx_daemon.                                                                *)
Goto(d, pc, h) == daemon' = [daemon EXCEPT ![d] = [pc |-> pc, at |-> h]]
DaemonAt(d, pc) == running /\ daemon[d].pc = pc

(* STAILQ_FOREACH goes on to handle h, or sees its end.                      *)
Advance(d, h) == IF h = NULL THEN Goto(d, "check", NULL) ELSE Goto(d, "recv", h)

CheckTerminated(d) ==
    /\ DaemonAt(d, "check")
    /\ \/ terminated /\ Goto(d, "done", NULL)
       \/ ~terminated /\ first # NULL /\ Goto(d, "recv", first)
    /\ UNCHANGED <<terminated, list, readable, user, running>>

(* recvfrom returns a frame or an error.                                     *)
RecvFrame(d) ==
    LET h == daemon[d].at IN
    /\ DaemonAt(d, "recv") /\ h \in alive \intersect readable
    /\ readable' = readable \ {h}
    /\ Goto(d, "notify", h)
    /\ UNCHANGED <<terminated, list, user, running>>

RecvError(d) ==
    LET h == daemon[d].at IN
    /\ DaemonAt(d, "recv") /\ h \in alive
    /\ Advance(d, link[h])
    /\ UNCHANGED <<terminated, list, readable, user, running>>

Notified(d) ==
    LET h == daemon[d].at IN
    /\ DaemonAt(d, "notify")
    /\ Advance(d, link[h])
    /\ UNCHANGED <<terminated, list, readable, user, running>>

(* The handle was freed while the daemon waited on it: it fails, returns     *)
(* what was meant for the closed socket, or ends the program.                *)
RecvFreed(d) ==
    LET h == daemon[d].at IN
    /\ DaemonAt(d, "recv") /\ h \notin alive
    /\ \/ Advance(d, link[h]) /\ UNCHANGED running
       \/ Goto(d, "notify", h) /\ UNCHANGED running
       \/ running' = FALSE /\ UNCHANGED daemon
    /\ UNCHANGED <<terminated, list, readable, user>>

RxDaemon(d) == \/ CheckTerminated(d)
               \/ RecvFrame(d) \/ RecvError(d) \/ RecvFreed(d)
               \/ Notified(d)

-----------------------------------------------------------------------------
(* The bus: a frame comes in at an open port.                                *)
Arrive(h) ==
    /\ running /\ h \in alive
    /\ readable' = readable \union {h}
    /\ UNCHANGED <<terminated, list, user, daemon, running>>

User == \/ \E p \in Ports : Probe(p)
        \/ \E p \in Ports : CloseHandle(p)
        \/ StartDaemon \/ StartNoDaemon \/ MarkStarted
        \/ MarkEnded

Next == User \/ (\E d \in Daemons : RxDaemon(d)) \/ (\E h \in Handles : Arrive(h))

Spec == Init /\ [][Next]_vars
-----------------------------------------------------------------------------
Live(d) == daemon[d].pc \notin {"none", "done"}

(* The list ends at the only handle without a successor, each handle in it   *)
(* is allocated, no port is in it twice, and a thread that receives is at a  *)
(* handle, though one it may find freed (socket_can.c:109-175, 221-227,      *)
(* 262-266).                                                                 *)
ListSound ==
    /\ first = NULL <=> alive = {}
    /\ first # NULL => first \in alive
    /\ \A h \in alive : link[h] \in (alive \union {NULL}) \ {first}
    /\ \A h, k \in alive : h # k => link[h] # link[k] /\ port[h] # port[k]
    /\ \A d \in Daemons : daemon[d].pc \in {"recv", "notify"} => daemon[d].at \in Handles
=============================================================================

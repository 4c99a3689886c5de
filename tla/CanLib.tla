------------------------------- MODULE CanLib -------------------------------
(* The library through which the test programs use a CAN bus                 *)
(* (src/src/python_auto_test/python_can_lib.c, called by can.py): the queues *)
(* of a bus, filled by the thread of the device driver (rx_notification) and *)
(* emptied by the user's thread (can_read), and their life from can_open to  *)
(* can_close.                                                                *)
(*                                                                           *)
(* The module follows one bus: can.py frees all buses whenever it opens one. *)
(* A PDU is a cell of memory.  The queues by identifier are sequences of     *)
(* cells; head2, which links the PDUs of the whole bus through a field of    *)
(* their own, is modelled link by link, since a PDU may be freed while head2 *)
(* still holds it.  can_write, which only calls the device, is left out, and *)
(* so are the calls of can_read that find no bus or no data.                 *)
EXTENDS Integers, Sequences, FiniteSetsExt

CONSTANTS
    CAN_BUS_PDU_NUM,    \* PDUs a queue holds (16)
    Cells,              \* memory for PDUs
    Ids,                \* CAN identifiers of frames on the bus
    ReadIds,            \* what the user passes to can_read
    ANY,                \* identifier -1: whatever was received first
    NULL

ASSUME QueueAssumption == CAN_BUS_PDU_NUM \in Nat \ {0}
ASSUME IdsAssumption ==
    /\ IsFiniteSet(Ids) /\ Ids # {}
    /\ ANY \notin Ids /\ ReadIds \subseteq Ids \union {ANY}
ASSUME CellsAssumption == NULL \notin Cells

VARIABLES
    online,     \* the bus is in the list canbusH, and the library initialized
    handle,     \* the device driver has the port open
    queue,      \* the PDUs by identifier, for each identifier seen so far
    head2,      \* the list of all PDUs: stqh_first and stqh_last, where NULL
                \* stands for the head's own link
    next,       \* the field entry2 of each PDU
    size2,
    id,         \* the field msg.id of each PDU
    allocated,  \* memory that malloc has given out
    user,       \* where the user's thread is, and the PDU getPdu gave it
    driver,     \* where the driver's thread is, its PDU, and whether the bus
                \* it found was freed since
    running     \* FALSE once the program crashed

bus == <<queue, head2, next, size2>>
vars == <<online, handle, bus, id, allocated, user, driver, running>>

Links == Cells \union {NULL}
PduNum == CAN_BUS_PDU_NUM * Cardinality(Ids)

TypeOK ==
    /\ online \in BOOLEAN /\ handle \in BOOLEAN /\ running \in BOOLEAN
    /\ DOMAIN queue \subseteq Ids
    /\ \A i \in DOMAIN queue : /\ queue[i] \in Seq(Cells)
                               /\ Len(queue[i]) <= CAN_BUS_PDU_NUM
    /\ head2 \in [first : Links, last : Links]
    /\ next \in [Cells -> Links]
    /\ size2 \in 0 .. PduNum
    /\ id \in [Cells -> Ids]
    /\ allocated \subseteq Cells
    /\ user \in [pc : {"idle", "probe", "insert", "copy", "free"}, cell : Links]
    /\ driver \in [pc : {"idle", "save"}, cell : Links, stale : BOOLEAN]

NoQueues == [i \in {} |-> <<>>]
NoPdus == [first |-> NULL, last |-> NULL]

Init ==
    /\ online = FALSE /\ handle = FALSE /\ running = TRUE
    /\ queue = NoQueues /\ head2 = NoPdus /\ size2 = 0
    /\ next = [c \in Cells |-> NULL]
    /\ id = [c \in Cells |-> CHOOSE i \in Ids : TRUE]
    /\ allocated = {}
    /\ user = [pc |-> "idle", cell |-> NULL]
    /\ driver = [pc |-> "idle", cell |-> NULL, stale |-> FALSE]

Queued == UNION {{queue[i][n] : n \in DOMAIN queue[i]} : i \in DOMAIN queue}

UserStep(from, to) == running /\ user.pc = from /\ user' = [pc |-> to, cell |-> NULL]
Crash == running' = FALSE

-----------------------------------------------------------------------------
(* can.py's can_open: python_can_lib_open frees what it finds, and leaves    *)
(* the devices open; probe may fail, and does if the port is open; frames    *)
(* that arrive before the bus is in the list are lost.                       *)
FreeH ==
    /\ online' = FALSE
    /\ allocated' = allocated \ Queued
    /\ queue' = NoQueues /\ head2' = NoPdus /\ size2' = 0
    /\ driver' = [driver EXCEPT !.stale = @ \/ driver.pc = "save"]
    /\ UNCHANGED <<next, id, running>>

LibOpen == UserStep("idle", "probe") /\ FreeH /\ UNCHANGED handle

Probe ==
    /\ \/ UserStep("probe", "insert") /\ ~handle /\ handle' = TRUE
       \/ UserStep("probe", "idle") /\ UNCHANGED handle
    /\ UNCHANGED <<online, bus, id, allocated, driver, running>>

InsertBus ==
    /\ UserStep("insert", "idle")
    /\ online' = TRUE
    /\ UNCHANGED <<handle, bus, id, allocated, driver, running>>

(* can.py's can_close: python_can_lib_close.                                 *)
CloseDevices ==
    /\ UserStep("idle", "free")
    /\ online
    /\ handle' = FALSE
    /\ UNCHANGED <<online, bus, id, allocated, driver, running>>

LibClose == UserStep("free", "idle") /\ FreeH /\ UNCHANGED handle

-----------------------------------------------------------------------------
(* STAILQ_INSERT_TAIL and STAILQ_REMOVE_HEAD of queue.h.                     *)
InsertTail(c) ==
    /\ next' = IF head2.last = NULL THEN [next EXCEPT ![c] = NULL]
               ELSE [next EXCEPT ![c] = NULL, ![head2.last] = c]
    /\ head2' = [first |-> IF head2.last = NULL THEN c ELSE head2.first,
                 last |-> c]

(* The same for the queue of an identifier, and the fault of STAILQ_INSERT_HEAD. *)
EnqueuedFirst(q, c) == <<c>> \o q
Enqueued(q, c) == Append(q, c)

(* The fault: stqh_last is not set back when the last element goes.          *)
RemovedKeepsLast == [head2 EXCEPT !.first = next[head2.first]]
Removed == [first |-> next[head2.first],
            last |-> IF next[head2.first] = NULL THEN NULL ELSE head2.last]

(* size2 after a PDU was taken, and the fault of forgetting it.              *)
SizeKept == size2
SizeTaken == size2 - 1

(* getPdu, in one lock.  For ANY the queue searched is that of the first PDU *)
(* of head2; in a PDU that was freed any identifier may be read.             *)
Sought(canid) ==
    IF canid # ANY THEN {canid}
    ELSE IF head2.first = NULL THEN {}
    ELSE IF head2.first \in allocated THEN {id[head2.first]}
    ELSE Ids \union {ANY}

HasPdu(i) == i \in DOMAIN queue /\ queue[i] # <<>>

ReadQueue(canid) ==
    /\ running /\ user.pc = "idle" /\ online /\ head2.first # NULL
    /\ \E i \in Sought(canid) :
         /\ HasPdu(i)
         /\ user' = [pc |-> "copy", cell |-> Head(queue[i])]
         /\ queue' = [queue EXCEPT ![i] = Tail(@)]
    /\ head2' = Removed
    /\ size2' = SizeTaken
    /\ UNCHANGED <<online, handle, next, id, allocated, driver, running>>

(* head2 was emptied before the queue was.                                   *)
ReadQueueCrash(canid) ==
    /\ running /\ user.pc = "idle" /\ online /\ head2.first = NULL
    /\ \E i \in Sought(canid) : HasPdu(i)
    /\ Crash
    /\ UNCHANGED <<online, handle, bus, id, allocated, user, driver>>

(* The first PDU of head2 is in no queue: it is returned, but not removed.   *)
ReadUnqueued(canid) ==
    /\ running /\ user.pc = "idle" /\ online
    /\ canid = ANY
    /\ \E i \in Sought(ANY) : ~HasPdu(i)
    /\ user' = [pc |-> "copy", cell |-> head2.first]
    /\ UNCHANGED <<online, handle, bus, id, allocated, driver, running>>

GetPdu(canid) == ReadQueue(canid) \/ ReadQueueCrash(canid) \/ ReadUnqueued(canid)

(* can_read copies the PDU and frees it; a second free ends the program.     *)
CopyAndFree ==
    /\ UserStep("copy", "idle")
    /\ IF user.cell \in allocated
       THEN allocated' = allocated \ {user.cell} /\ UNCHANGED running
       ELSE Crash /\ UNCHANGED allocated
    /\ UNCHANGED <<online, handle, bus, id, driver>>

-----------------------------------------------------------------------------
(* rx_notification, in two steps: the bus is looked up in one lock and used  *)
(* in the next.  A frame for a bus that is not on-line, or for which there   *)
(* is no memory, is dropped and changes nothing.                             *)
FindBus(i) ==
    /\ running /\ driver.pc = "idle" /\ handle /\ online
    /\ \E c \in Cells \ allocated :
         /\ allocated' = allocated \union {c}
         /\ id' = [id EXCEPT ![c] = i]
         /\ driver' = [pc |-> "save", cell |-> c, stale |-> FALSE]
    /\ UNCHANGED <<online, handle, bus, user, running>>

DriverStep == /\ running /\ driver.pc = "save"
              /\ driver' = [pc |-> "idle", cell |-> NULL, stale |-> FALSE]

(* A PDU that finds its queue full is freed; the fault is to forget that.    *)
DroppedKept(c) == allocated
Dropped(c) == allocated \ {c}

SaveB ==
    LET c == driver.cell
        q == IF id[c] \in DOMAIN queue THEN queue[id[c]] ELSE <<>>
    IN
    /\ DriverStep
    /\ online
    /\ IF Len(q) < CAN_BUS_PDU_NUM
       THEN /\ queue' = [i \in DOMAIN queue \union {id[c]} |->
                           IF i = id[c] THEN Enqueued(q, c) ELSE queue[i]]
            /\ InsertTail(c)
            /\ size2' = size2 + 1
            /\ UNCHANGED allocated
       ELSE /\ allocated' = Dropped(c)
            /\ UNCHANGED bus
    /\ UNCHANGED <<online, handle, id, user, running>>

(* There is no memory for the first queue of an identifier: the PDU is lost. *)
NoQueue ==
    /\ DriverStep
    /\ online /\ id[driver.cell] \notin DOMAIN queue
    /\ UNCHANGED <<online, handle, bus, id, allocated, user, running>>

(* The bus was freed between the two locks: what is written there is lost,   *)
(* lands in the bus that was opened since (SaveB), or ends the program.      *)
SaveStale ==
    /\ DriverStep
    /\ driver.stale
    /\ Crash \/ UNCHANGED running
    /\ UNCHANGED <<online, handle, bus, id, allocated, user>>

-----------------------------------------------------------------------------
User == \/ LibOpen \/ Probe \/ InsertBus
        \/ CloseDevices \/ LibClose
        \/ \E canid \in ReadIds : GetPdu(canid)
        \/ CopyAndFree

Driver == (\E i \in Ids : FindBus(i)) \/ SaveB \/ NoQueue \/ SaveStale

Next == User \/ Driver

Spec == Init /\ [][Next]_vars
=============================================================================

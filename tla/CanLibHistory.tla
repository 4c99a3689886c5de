--------------------------- MODULE CanLibHistory ---------------------------
(* CanLib with history variables for the order in which frames came, and the *)
(* properties of its queues.                                                 *)
EXTENDS CanLib

VARIABLES
    order,  \* the PDUs saved and not yet read, in the order they were saved
    lost,   \* PDUs saved to a bus that was gone or had no queue for them
    astray  \* a read has taken a PDU that was not the first of the bus: from
            \* then on memory may be freed twice, and no history is kept

observed == <<vars, order, lost, astray>>

Saved == driver.pc = "save" /\ driver'.pc = "idle"
Read == user.pc = "idle" /\ user'.pc = "copy"
Freed == queue' = NoQueues

ObserveInit == order = <<>> /\ lost = {} /\ astray = FALSE

Observe ==
    /\ astray' = (astray \/ (Read /\ user'.cell # order[1]))
    /\ order' = IF Freed \/ astray' THEN <<>>
                ELSE IF Saved /\ queue' # queue THEN Append(order, driver.cell)
                ELSE IF Read THEN Tail(order)
                ELSE order
    /\ lost' = IF astray' THEN {}
               ELSE IF /\ Saved /\ queue' = queue /\ driver.cell \in allocated'
                       /\ driver.stale \/ id[driver.cell] \notin DOMAIN queue
               THEN lost \union {driver.cell} ELSE lost

HistoryInit == Init /\ ObserveInit
HistoryNext == Next /\ Observe
HistorySpec == HistoryInit /\ [][HistoryNext]_observed
-----------------------------------------------------------------------------
(* Both queues of the bus hold the same PDUs in the same order: head2 links  *)
(* all that were saved and not yet read, each once, and the queue of an      *)
(* identifier holds those of its own, in the order in which they are linked  *)
(* (the comment at python_can_lib.c:67).                                     *)
BothQueues ==
    LET n == Len(order) IN
    /\ head2.first = IF n = 0 THEN NULL ELSE order[1]
    /\ head2.last = IF n = 0 THEN NULL ELSE order[n]
    /\ \A k \in 1 .. n : next[order[k]] = IF k = n THEN NULL ELSE order[k + 1]
    /\ \A k, l \in 1 .. n : order[k] = order[l] => k = l
    /\ Queued = {order[k] : k \in 1 .. n}
    /\ \A i \in DOMAIN queue :
         /\ \A k \in DOMAIN queue[i] : id[queue[i][k]] = i
         /\ \A k, l \in DOMAIN queue[i], p, r \in 1 .. n :
              order[p] = queue[i][k] /\ order[r] = queue[i][l] /\ k < l => p < r

(* They do as long as every read takes the first PDU of the bus: always for  *)
(* a user who passes -1, and for one who passes the only identifier on the   *)
(* bus, as cantp.py does (python_can_lib.c:157-256).                         *)
InStep == ~astray => BothQueues

(* A read removes the PDU it returns from both queues of the bus (the        *)
(* comment at python_can_lib.c:189).                                         *)
RemovedFromBoth == [][Read => user'.cell = head2.first]_observed

(* A PDU has one owner, from malloc to free: a queue, the thread that is     *)
(* about to save it, or the thread that is copying it; none that was read,   *)
(* dropped or left in a closed bus is kept, but those lost with a bus that   *)
(* was closed under the driver (python_can_lib.c:98-120, 251, 491).          *)
OneOwner ==
    LET held == {user.cell, driver.cell} \ {NULL} IN
    ~astray =>
        /\ Queued \union held \subseteq allocated
        /\ Queued \intersect held = {}
        /\ user.cell # driver.cell \/ user.cell = NULL
        /\ allocated \subseteq Queued \union held \union lost

(* can_read with identifier -1 returns the frame that the bus received first *)
(* of those not yet read (the comment at python_can_lib.c:315).              *)
FirstReceivedFirst == [][GetPdu(ANY) /\ ~astray => user'.cell = order[1]]_observed
=============================================================================

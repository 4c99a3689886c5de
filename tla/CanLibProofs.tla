---------------------------- MODULE CanLibProofs ----------------------------
(* Proofs about the CAN library, for any number of PDUs a queue may hold,    *)
(* any memory and any set of identifiers.                                    *)
EXTENDS CanLibHistory, SequenceTheorems, FiniteSetTheorems, TLAPS

(* The places that are taken in the queues of the bus: size2 counts them.    *)
Places == Ids \X (1 .. CAN_BUS_PDU_NUM)
Taken == {s \in Places : s[1] \in DOMAIN queue /\ s[2] <= Len(queue[s[1]])}

Shapes ==
    /\ online \in BOOLEAN /\ handle \in BOOLEAN /\ running \in BOOLEAN
    /\ DOMAIN queue \subseteq Ids
    /\ \A i \in DOMAIN queue : /\ queue[i] \in Seq(Cells)
                               /\ Len(queue[i]) <= CAN_BUS_PDU_NUM
    /\ queue = [i \in DOMAIN queue |-> queue[i]]
    /\ head2 \in [first : Links, last : Links]
    /\ next \in [Cells -> Links]
    /\ id \in [Cells -> Ids]
    /\ allocated \subseteq Cells
    /\ user \in [pc : {"idle", "probe", "insert", "copy", "free"}, cell : Links]
    /\ user.pc = "copy" <=> user.cell # NULL
    /\ driver \in [pc : {"idle", "save"}, cell : Links, stale : BOOLEAN]
    /\ driver.pc = "save" <=> driver.cell # NULL

TypeInv == Shapes /\ size2 = Cardinality(Taken)

-----------------------------------------------------------------------------
LEMMA PlacesFinite ==
    /\ IsFiniteSet(Places)
    /\ Cardinality(Places) = PduNum
    /\ PduNum \in Nat
<1>1. IsFiniteSet(1 .. CAN_BUS_PDU_NUM) /\ Cardinality(1 .. CAN_BUS_PDU_NUM) = CAN_BUS_PDU_NUM
  BY QueueAssumption, FS_Interval
<1>2. IsFiniteSet(Ids) /\ Cardinality(Ids) \in Nat
  BY IdsAssumption, FS_CardinalityType
<1>3. IsFiniteSet(Places) /\ Cardinality(Places) = Cardinality(Ids) * Cardinality(1 .. CAN_BUS_PDU_NUM)
  BY <1>1, <1>2, FS_Product DEF Places
<1> QED BY <1>1, <1>2, <1>3, QueueAssumption DEF PduNum

LEMMA TakenFinite ==
    IsFiniteSet(Taken) /\ Cardinality(Taken) \in 0 .. PduNum
<1>1. Taken \in SUBSET Places
  BY DEF Taken
<1>2. IsFiniteSet(Taken) /\ Cardinality(Taken) <= Cardinality(Places)
  BY <1>1, PlacesFinite, FS_Subset
<1> QED BY <1>2, PlacesFinite, FS_CardinalityType

LEMMA TypeOKFromInv == TypeInv => TypeOK
  BY TakenFinite DEF TypeInv, Shapes, TypeOK

LEMMA NoneTaken ==
    ASSUME DOMAIN queue = {} PROVE Cardinality(Taken) = 0
<1>1. Taken = {}
  BY DEF Taken
<1> QED BY <1>1, FS_EmptySet

LEMMA InitType == Init => TypeInv
<1> SUFFICES ASSUME Init PROVE TypeInv
  OBVIOUS
<1>1. DOMAIN queue = {} /\ queue = [i \in DOMAIN queue |-> queue[i]]
  BY DEF Init, NoQueues
<1>2. \A i : i \in Ids => (CHOOSE j \in Ids : TRUE) \in Ids
  OBVIOUS
<1>3. (CHOOSE j \in Ids : TRUE) \in Ids
  BY <1>2, IdsAssumption
<1>4. Shapes
  BY <1>1, <1>3 DEF Init, Shapes, Links, NoPdus
<1> QED BY <1>1, <1>4, NoneTaken DEF Init, TypeInv

(* The PDU that is saved takes the next place in the queue of its identifier.*)
Queue(i) == IF i \in DOMAIN queue THEN queue[i] ELSE <<>>

LEMMA QueueType ==
    ASSUME Shapes, NEW i \in Ids
    PROVE  Queue(i) \in Seq(Cells) /\ Len(Queue(i)) \in 0 .. CAN_BUS_PDU_NUM
<1>1. CASE i \in DOMAIN queue
  BY <1>1, LenProperties, QueueAssumption DEF Shapes, Queue
<1>2. CASE i \notin DOMAIN queue
  BY <1>2, EmptySeq, QueueAssumption DEF Queue
<1> QED BY <1>1, <1>2

LEMMA TakenGrows ==
    ASSUME Shapes, NEW i \in Ids, NEW c \in Cells, Len(Queue(i)) < CAN_BUS_PDU_NUM,
           queue' = [j \in DOMAIN queue \union {i} |->
                       IF j = i THEN Append(Queue(i), c) ELSE queue[j]]
    PROVE  /\ DOMAIN queue' \subseteq Ids
           /\ \A j \in DOMAIN queue' : /\ queue'[j] \in Seq(Cells)
                                       /\ Len(queue'[j]) <= CAN_BUS_PDU_NUM
           /\ queue' = [j \in DOMAIN queue' |-> queue'[j]]
           /\ Cardinality(Taken') = Cardinality(Taken) + 1
<1> DEFINE n == Len(Queue(i))
<1>1. n \in Nat /\ n + 1 \in 1 .. CAN_BUS_PDU_NUM /\ Queue(i) \in Seq(Cells)
  BY QueueType, QueueAssumption
<1>2. Append(Queue(i), c) \in Seq(Cells) /\ Len(Append(Queue(i), c)) = n + 1
  BY <1>1, AppendProperties
<1>3. DOMAIN queue' = DOMAIN queue \union {i} /\ queue'[i] = Append(Queue(i), c)
  OBVIOUS
<1>4. \A j \in DOMAIN queue : j # i => queue'[j] = queue[j]
  OBVIOUS
<1>5. \A j \in DOMAIN queue : Len(queue[j]) \in Nat
  BY LenProperties DEF Shapes
<1>6. i \in DOMAIN queue => Len(queue[i]) = n
  BY DEF Queue
<1>7. i \notin DOMAIN queue => n = 0
  BY EmptySeq DEF Queue
<1>8. <<i, n + 1>> \in Places
  BY <1>1 DEF Places
<1> HIDE DEF n
<1>9. Taken' = Taken \union {<<i, n + 1>>}
  <2>1. ASSUME NEW s \in Places
        PROVE  s \in Taken' <=> s \in Taken \/ s = <<i, n + 1>>
    <3>1. s = <<s[1], s[2]>> /\ s[2] \in 1 .. CAN_BUS_PDU_NUM
      BY DEF Places
    <3>2. CASE s[1] # i
      BY <3>1, <3>2, <1>3, <1>4 DEF Taken
    <3>3. CASE s[1] = i
      <4>1. s \in Taken' <=> s[2] <= n + 1
        BY <3>3, <1>2, <1>3 DEF Taken
      <4>2. s \in Taken <=> s[2] <= n
        BY <3>1, <3>3, <1>6, <1>7 DEF Taken
      <4> QED BY <3>1, <3>3, <4>1, <4>2, <1>1
    <3> QED BY <3>2, <3>3
  <2> QED BY <2>1, <1>8 DEF Taken
<1>10. <<i, n + 1>> \notin Taken
  BY <1>1, <1>6, <1>7 DEF Taken
<1>11. Cardinality(Taken') = Cardinality(Taken) + 1
  BY <1>9, <1>10, TakenFinite, FS_AddElement
<1> QED BY <1>1, <1>2, <1>3, <1>4, <1>11 DEF Shapes

(* Reading takes the first PDU of a queue, so that its last place is free.   *)
LEMMA TakenShrinks ==
    ASSUME Shapes, NEW i \in Ids, HasPdu(i), queue' = [queue EXCEPT ![i] = Tail(@)]
    PROVE  /\ DOMAIN queue' \subseteq Ids
           /\ \A j \in DOMAIN queue' : /\ queue'[j] \in Seq(Cells)
                                       /\ Len(queue'[j]) <= CAN_BUS_PDU_NUM
           /\ queue' = [j \in DOMAIN queue' |-> queue'[j]]
           /\ Cardinality(Taken') = Cardinality(Taken) - 1
<1> DEFINE n == Len(queue[i])
<1>1. i \in DOMAIN queue /\ queue[i] \in Seq(Cells) /\ queue[i] # <<>>
  BY DEF HasPdu, Shapes
<1>2. n \in 1 .. CAN_BUS_PDU_NUM
  BY <1>1, EmptySeq, QueueAssumption DEF Shapes
<1>3. Tail(queue[i]) \in Seq(Cells) /\ Len(Tail(queue[i])) = n - 1
  BY <1>1, HeadTailProperties
<1>4. DOMAIN queue' = DOMAIN queue /\ queue'[i] = Tail(queue[i])
  BY <1>1
<1>5. \A j \in DOMAIN queue : j # i => queue'[j] = queue[j]
  OBVIOUS
<1> HIDE DEF n
<1>6. Taken' = Taken \ {<<i, n>>}
  <2>1. ASSUME NEW s \in Places
        PROVE  s \in Taken' <=> s \in Taken /\ s # <<i, n>>
    <3>1. s = <<s[1], s[2]>> /\ s[2] \in 1 .. CAN_BUS_PDU_NUM
      BY DEF Places
    <3>2. CASE s[1] # i
      BY <3>1, <3>2, <1>4, <1>5 DEF Taken
    <3>3. CASE s[1] = i
      <4>1. s \in Taken' <=> s[2] <= n - 1
        BY <3>3, <1>1, <1>3, <1>4 DEF Taken
      <4>2. s \in Taken <=> s[2] <= n
        BY <3>3, <1>1 DEF Taken, n
      <4> QED BY <3>1, <3>3, <4>1, <4>2, <1>2
    <3> QED BY <3>2, <3>3
  <2> QED BY <2>1 DEF Taken
<1>7. <<i, n>> \in Taken
  BY <1>1, <1>2 DEF Taken, Places, n
<1>8. Cardinality(Taken') = Cardinality(Taken) - 1
  BY <1>6, <1>7, TakenFinite, FS_RemoveElement
<1>9. \A j \in DOMAIN queue' : queue'[j] \in Seq(Cells) /\ Len(queue'[j]) <= CAN_BUS_PDU_NUM
  <2>1. n - 1 <= CAN_BUS_PDU_NUM
    BY <1>2, QueueAssumption
  <2>2. \A j \in DOMAIN queue : queue[j] \in Seq(Cells) /\ Len(queue[j]) <= CAN_BUS_PDU_NUM
    BY DEF Shapes
  <2> QED BY <1>3, <1>4, <1>5, <2>1, <2>2
<1>10. queue' = [j \in DOMAIN queue' |-> queue'[j]]
  OBVIOUS
<1> QED BY <1>4, <1>8, <1>9, <1>10 DEF Shapes

-----------------------------------------------------------------------------
(* The steps that fill and empty the queues.                                 *)
LEMMA SavedType ==
    ASSUME TypeInv, SaveB
    PROVE  TypeInv'
<1> DEFINE c == driver.cell
<1>1. c \in Cells /\ id[c] \in Ids /\ Shapes
  BY DEF SaveB, DriverStep, TypeInv, Shapes, Links
<1>2. /\ driver' = [pc |-> "idle", cell |-> NULL, stale |-> FALSE]
      /\ UNCHANGED <<online, handle, id, user, running>>
  BY DEF SaveB, DriverStep
<1>3. driver' \in [pc : {"idle", "save"}, cell : Links, stale : BOOLEAN] /\ (driver'.pc = "save" <=> driver'.cell # NULL)
  BY <1>2 DEF Links
<1>4. CASE /\ Len(Queue(id[c])) < CAN_BUS_PDU_NUM
           /\ queue' = [i \in DOMAIN queue \union {id[c]} |->
                          IF i = id[c] THEN Append(Queue(id[c]), c) ELSE queue[i]]
           /\ InsertTail(c)
           /\ size2' = size2 + 1
           /\ UNCHANGED allocated
  <2>1. head2' \in [first : Links, last : Links] /\ next' \in [Cells -> Links]
    BY <1>1, <1>4 DEF InsertTail, Shapes, Links
  <2>2. /\ DOMAIN queue' \subseteq Ids
        /\ \A j \in DOMAIN queue' : /\ queue'[j] \in Seq(Cells)
                                    /\ Len(queue'[j]) <= CAN_BUS_PDU_NUM
        /\ queue' = [j \in DOMAIN queue' |-> queue'[j]]
        /\ Cardinality(Taken') = Cardinality(Taken) + 1
    BY <1>1, <1>4, TakenGrows
  <2>3. Shapes'
    BY <1>1, <1>2, <1>3, <1>4, <2>1, <2>2 DEF Shapes
  <2> QED BY <1>4, <2>2, <2>3 DEF TypeInv
<1>5. CASE allocated' = Dropped(c) /\ UNCHANGED bus
  <2>1. Shapes'
    BY <1>1, <1>2, <1>3, <1>5 DEF Shapes, Dropped, bus
  <2>2. Taken' = Taken
    BY <1>5 DEF Taken, bus
  <2> QED BY <1>5, <2>1, <2>2 DEF TypeInv, bus
<1> QED BY <1>4, <1>5 DEF SaveB, Queue, Enqueued

LEMMA SoughtType ==
    ASSUME Shapes, NEW canid \in ReadIds
    PROVE  Sought(canid) \subseteq Ids \union {ANY}
  BY IdsAssumption DEF Shapes, Sought, Links

LEMMA ReadType ==
    ASSUME TypeInv, NEW canid \in ReadIds, ReadQueue(canid)
    PROVE  TypeInv'
<1>1. PICK i \in Ids : /\ HasPdu(i)
                       /\ user' = [pc |-> "copy", cell |-> Head(queue[i])]
                       /\ queue' = [queue EXCEPT ![i] = Tail(@)]
  BY DEF ReadQueue, HasPdu, TypeInv, Shapes
<1>2. /\ head2.first # NULL /\ head2' = Removed /\ size2' = size2 - 1
      /\ UNCHANGED <<online, handle, next, id, allocated, driver, running>>
  BY DEF ReadQueue, SizeTaken
<1>3. Shapes /\ size2 = Cardinality(Taken)
  BY DEF TypeInv
<1>4. head2' \in [first : Links, last : Links]
  BY <1>2, <1>3 DEF Removed, Shapes, Links
<1>5. Head(queue[i]) \in Cells
  BY <1>1, <1>3, HeadTailProperties DEF HasPdu, Shapes
<1>6. user' \in [pc : {"idle", "probe", "insert", "copy", "free"}, cell : Links] /\ (user'.pc = "copy" <=> user'.cell # NULL)
  BY <1>1, <1>5, CellsAssumption DEF Links
<1>7. /\ DOMAIN queue' \subseteq Ids
      /\ \A j \in DOMAIN queue' : /\ queue'[j] \in Seq(Cells)
                                  /\ Len(queue'[j]) <= CAN_BUS_PDU_NUM
      /\ queue' = [j \in DOMAIN queue' |-> queue'[j]]
      /\ Cardinality(Taken') = Cardinality(Taken) - 1
  BY <1>1, <1>3, TakenShrinks
<1>8. Shapes'
  BY <1>2, <1>3, <1>4, <1>6, <1>7 DEF Shapes
<1> QED BY <1>2, <1>3, <1>7, <1>8 DEF TypeInv

(* The bus is freed with its queues.                                         *)
LEMMA FreedType ==
    ASSUME TypeInv, FreeH, handle' \in BOOLEAN,
           user' \in [pc : {"idle", "probe", "insert", "copy", "free"}, cell : Links],
           user'.pc = "copy" <=> user'.cell # NULL
    PROVE  TypeInv'
<1>1. DOMAIN queue' = {} /\ queue' = [i \in DOMAIN queue' |-> queue'[i]] /\ size2' = 0
  BY DEF FreeH, NoQueues
<1>2. Taken' = {}
  BY <1>1 DEF Taken
<1>3. Cardinality(Taken') = 0
  BY <1>2, FS_EmptySet
<1>4. driver' \in [pc : {"idle", "save"}, cell : Links, stale : BOOLEAN] /\ (driver'.pc = "save" <=> driver'.cell # NULL)
  BY DEF FreeH, TypeInv, Shapes
<1>5. Shapes'
  BY <1>1, <1>4 DEF FreeH, TypeInv, Shapes, Links, NoPdus
<1> QED BY <1>1, <1>3, <1>5 DEF TypeInv

(* The other steps leave the queues as they are.                             *)
LEMMA TakenKept ==
    ASSUME TypeInv, Shapes', UNCHANGED bus
    PROVE  TypeInv'
<1>1. Taken' = Taken
  BY DEF Taken, bus
<1> QED BY <1>1 DEF TypeInv, bus

(* A thread that holds no PDU.                                               *)
UserShape(u) == /\ u \in [pc : {"idle", "probe", "insert", "copy", "free"}, cell : Links]
                /\ u.pc = "copy" <=> u.cell # NULL
DriverShape(d) == /\ d \in [pc : {"idle", "save"}, cell : Links, stale : BOOLEAN]
                  /\ d.pc = "save" <=> d.cell # NULL

LEMMA ThreadShapes ==
    /\ \A pc \in {"idle", "probe", "insert", "free"} : UserShape([pc |-> pc, cell |-> NULL])
    /\ DriverShape([pc |-> "idle", cell |-> NULL, stale |-> FALSE])
  BY DEF UserShape, DriverShape, Links

LEMMA OtherShapes ==
    ASSUME Shapes, online' \in BOOLEAN, handle' \in BOOLEAN, running' \in BOOLEAN,
           UNCHANGED bus, UNCHANGED id, allocated' \subseteq Cells,
           UserShape(user'), DriverShape(driver')
    PROVE  Shapes' /\ UNCHANGED bus
  BY DEF Shapes, UserShape, DriverShape, bus

LEMMA NextType == TypeInv /\ [Next]_vars => TypeInv'
<1> SUFFICES ASSUME TypeInv, [Next]_vars PROVE TypeInv'
  OBVIOUS
<1>1. Shapes
  BY DEF TypeInv
<1>2. CASE LibOpen \/ LibClose
  BY <1>1, <1>2, FreedType DEF LibOpen, LibClose, UserStep, Shapes, Links
<1>3. CASE Probe \/ InsertBus \/ CloseDevices
  <2>1. /\ online' \in BOOLEAN /\ handle' \in BOOLEAN
        /\ UNCHANGED <<bus, id, allocated, driver, running>>
        /\ \E pc \in {"idle", "probe", "insert", "free"} : user' = [pc |-> pc, cell |-> NULL]
    BY <1>1, <1>3 DEF Probe, InsertBus, CloseDevices, UserStep, Shapes
  <2>2. UserShape(user') /\ DriverShape(driver')
    BY <1>1, <2>1, ThreadShapes DEF Shapes, DriverShape
  <2>3. Shapes' /\ UNCHANGED bus
    BY <1>1, <2>1, <2>2, OtherShapes DEF Shapes
  <2> QED BY <2>3, TakenKept
<1>4. ASSUME NEW canid \in ReadIds, GetPdu(canid)
      PROVE  TypeInv'
  <2>1. CASE ReadQueue(canid)
    BY <2>1, ReadType
  <2>2. CASE ReadQueueCrash(canid)
    <3>1. Shapes' /\ UNCHANGED bus
      BY <1>1, <2>2 DEF ReadQueueCrash, Crash, Shapes, bus
    <3> QED BY <3>1, TakenKept
  <2>3. CASE ReadUnqueued(canid)
    <3>1. head2.first # NULL /\ head2.first \in Links
      BY <1>1, <2>3, IdsAssumption DEF ReadUnqueued, Sought, Shapes
    <3>2. user' \in [pc : {"idle", "probe", "insert", "copy", "free"}, cell : Links] /\ (user'.pc = "copy" <=> user'.cell # NULL)
      BY <2>3, <3>1 DEF ReadUnqueued
    <3>3. Shapes' /\ UNCHANGED bus
      BY <1>1, <2>3, <3>2 DEF ReadUnqueued, Shapes, bus
    <3> QED BY <3>3, TakenKept
  <2> QED BY <1>4, <2>1, <2>2, <2>3 DEF GetPdu
<1>5. CASE CopyAndFree
  <2>1. /\ running' \in BOOLEAN /\ allocated' \subseteq Cells
        /\ UNCHANGED <<online, handle, bus, id, driver>>
        /\ user' = [pc |-> "idle", cell |-> NULL]
    BY <1>1, <1>5 DEF CopyAndFree, UserStep, Crash, Shapes
  <2>2. UserShape(user') /\ DriverShape(driver')
    BY <1>1, <2>1, ThreadShapes DEF Shapes, DriverShape
  <2>3. Shapes' /\ UNCHANGED bus
    BY <1>1, <2>1, <2>2, OtherShapes DEF Shapes
  <2> QED BY <2>3, TakenKept
<1>6. ASSUME NEW i \in Ids, FindBus(i)
      PROVE  TypeInv'
  <2>1. PICK c \in Cells \ allocated :
           /\ allocated' = allocated \union {c}
           /\ id' = [id EXCEPT ![c] = i]
           /\ driver' = [pc |-> "save", cell |-> c, stale |-> FALSE]
    BY <1>6 DEF FindBus
  <2>2. Shapes' /\ UNCHANGED bus
    BY <1>1, <1>6, <2>1, CellsAssumption DEF FindBus, Shapes, Links, bus
  <2> QED BY <2>2, TakenKept
<1>7. CASE SaveB
  BY <1>7, SavedType
<1>8. CASE NoQueue \/ SaveStale
  <2>1. /\ running' \in BOOLEAN /\ UNCHANGED <<online, handle, bus, id, allocated, user>>
        /\ driver' = [pc |-> "idle", cell |-> NULL, stale |-> FALSE]
    BY <1>1, <1>8 DEF NoQueue, SaveStale, DriverStep, Crash, Shapes
  <2>2. UserShape(user') /\ DriverShape(driver')
    BY <1>1, <2>1, ThreadShapes DEF Shapes, UserShape
  <2>3. Shapes' /\ UNCHANGED bus
    BY <1>1, <2>1, <2>2, OtherShapes DEF Shapes
  <2> QED BY <2>3, TakenKept
<1>9. CASE UNCHANGED vars
  <2>1. Shapes' /\ UNCHANGED bus
    BY <1>1, <1>9 DEF vars, Shapes, bus
  <2> QED BY <2>1, TakenKept
<1> QED BY <1>2, <1>3, <1>4, <1>5, <1>6, <1>7, <1>8, <1>9 DEF Next, User, Driver

(* Whatever is read, saved, opened and closed, no queue holds more PDUs than *)
(* it may and size2 stays within the room of all of them, though reads take  *)
(* PDUs from the two kinds of queue that are not the same                    *)
(* (python_can_lib.c:98-120, 157-256).                                       *)
THEOREM TypeCorrect == Spec => []TypeOK
  BY InitType, NextType, TypeOKFromInv, PTL DEF Spec

-----------------------------------------------------------------------------
(* What is in the queues, place by place.                                    *)
PdusOf(q) == UNION {{q[i][n] : n \in DOMAIN q[i]} : i \in DOMAIN q}

LEMMA PdusAre ==
    \A q, c : c \in PdusOf(q) <=> \E i \in DOMAIN q : \E n \in DOMAIN q[i] : c = q[i][n]
  BY DEF PdusOf

LEMMA QueuedAre ==
    ASSUME NEW c
    PROVE  c \in Queued <=> \E i \in DOMAIN queue : \E n \in DOMAIN queue[i] : c = queue[i][n]
<1>1. Queued = PdusOf(queue)
  BY DEF Queued, PdusOf
<1> QED BY <1>1, PdusAre

LEMMA QueuedNext == Queued' = PdusOf(queue')
  BY DEF Queued, PdusOf

(* c is put at the end of the queue of identifier i.                         *)
Extends(i, c) ==
    /\ DOMAIN queue' = DOMAIN queue \union {i} /\ queue'[i] = Append(Queue(i), c)
    /\ \A j \in DOMAIN queue : j # i => queue'[j] = queue[j]

LEMMA PlacesSaved ==
    ASSUME Shapes, NEW i \in Ids, NEW c \in Cells, Extends(i, c)
    PROVE  /\ DOMAIN queue' = DOMAIN queue \union {i}
           /\ \A j \in DOMAIN queue : j # i => queue'[j] = queue[j]
           /\ Len(Queue(i)) \in Nat /\ DOMAIN queue'[i] = 1 .. (Len(Queue(i)) + 1)
           /\ \A k \in 1 .. Len(Queue(i)) : /\ i \in DOMAIN queue
                                            /\ k \in DOMAIN queue[i]
                                            /\ queue'[i][k] = queue[i][k]
           /\ queue'[i][Len(Queue(i)) + 1] = c
           /\ i \in DOMAIN queue => DOMAIN queue[i] = 1 .. Len(Queue(i))
           /\ queue' # queue
           /\ Queued' = Queued \union {c}
<1> DEFINE n == Len(Queue(i))
<1>1. n \in Nat /\ Queue(i) \in Seq(Cells)
  BY QueueType
<1>2. /\ Append(Queue(i), c) \in Seq(Cells) /\ Len(Append(Queue(i), c)) = n + 1
      /\ \A k \in 1 .. n : Append(Queue(i), c)[k] = Queue(i)[k]
      /\ Append(Queue(i), c)[n + 1] = c
  BY <1>1, AppendProperties
<1>3. DOMAIN queue' = DOMAIN queue \union {i} /\ queue'[i] = Append(Queue(i), c)
  BY DEF Extends
<1>4. \A j \in DOMAIN queue : j # i => queue'[j] = queue[j]
  BY DEF Extends
<1>5. DOMAIN queue'[i] = 1 .. (n + 1)
  BY <1>2, <1>3, LenProperties
<1>6. i \in DOMAIN queue => queue[i] = Queue(i) /\ DOMAIN queue[i] = 1 .. n
  BY <1>1, LenProperties DEF Queue
<1>7. i \notin DOMAIN queue => n = 0
  BY EmptySeq DEF Queue
<1> HIDE DEF n
<1>8. \A k \in 1 .. n : i \in DOMAIN queue /\ k \in DOMAIN queue[i] /\ queue'[i][k] = queue[i][k]
  BY <1>1, <1>2, <1>3, <1>6, <1>7
<1>9. queue' # queue
  BY <1>1, <1>2, <1>3, <1>6 DEF n
<1>10. ASSUME NEW x PROVE x \in Queued' <=> x \in Queued \union {c}
  <2>1. x \in Queued' <=> \E j \in DOMAIN queue' : \E k \in DOMAIN queue'[j] : x = queue'[j][k]
    BY PdusAre, QueuedNext
  <2>2. x \in Queued <=> \E j \in DOMAIN queue : \E k \in DOMAIN queue[j] : x = queue[j][k]
    BY QueuedAre
  <2>3. ASSUME x \in Queued' PROVE x \in Queued \union {c}
    <3>0. PICK j \in DOMAIN queue' : \E k \in DOMAIN queue'[j] : x = queue'[j][k]
      BY <2>1, <2>3
    <3>1. PICK k \in DOMAIN queue'[j] : x = queue'[j][k]
      BY <3>0
    <3>2. CASE j # i
      BY <2>2, <3>1, <3>2, <1>3, <1>4
    <3>3. CASE j = i /\ k = n + 1
      BY <3>1, <3>3, <1>2, <1>3
    <3>4. CASE j = i /\ k # n + 1
      <4>1. k \in 1 .. n
        BY <3>1, <3>4, <1>1, <1>5
      <4> QED BY <2>2, <3>1, <3>4, <4>1, <1>8
    <3> QED BY <3>2, <3>3, <3>4
  <2>4. ASSUME x \in Queued PROVE x \in Queued'
    <3>0. PICK j \in DOMAIN queue : \E k \in DOMAIN queue[j] : x = queue[j][k]
      BY <2>2, <2>4
    <3>1. PICK k \in DOMAIN queue[j] : x = queue[j][k]
      BY <3>0
    <3>2. CASE j # i
      BY <2>1, <3>1, <3>2, <1>3, <1>4
    <3>3. CASE j = i
      <4>1. k \in 1 .. n /\ k \in 1 .. (n + 1)
        BY <3>1, <3>3, <1>1, <1>6
      <4> QED BY <2>1, <3>1, <3>3, <4>1, <1>3, <1>5, <1>8
    <3> QED BY <3>2, <3>3
  <2>5. c \in Queued'
    <3>1. n + 1 \in 1 .. (n + 1) /\ i \in DOMAIN queue'
      BY <1>1, <1>3
    <3>2. c = queue'[i][n + 1]
      BY <1>2, <1>3
    <3>3. \E j \in DOMAIN queue' : \E k \in DOMAIN queue'[j] : c = queue'[j][k]
      BY <3>1, <3>2, <1>5
    <3> QED BY <3>3, PdusAre, QueuedNext
  <2> QED BY <2>3, <2>4, <2>5
<1>11. Queued' = Queued \union {c}
  BY <1>10
<1> QED BY <1>1, <1>2, <1>3, <1>4, <1>5, <1>6, <1>8, <1>9, <1>11 DEF n

(* The first PDU of identifier i is taken.                                   *)
Takes(i) ==
    /\ DOMAIN queue' = DOMAIN queue /\ queue'[i] = Tail(queue[i])
    /\ \A j \in DOMAIN queue : j # i => queue'[j] = queue[j]

LEMMA PlacesRead ==
    ASSUME Shapes, NEW i \in Ids, HasPdu(i), Takes(i)
    PROVE  /\ DOMAIN queue' = DOMAIN queue /\ i \in DOMAIN queue
           /\ \A j \in DOMAIN queue : j # i => queue'[j] = queue[j]
           /\ 1 \in DOMAIN queue[i] /\ Head(queue[i]) = queue[i][1]
           /\ \A k \in DOMAIN queue'[i] : /\ k + 1 \in DOMAIN queue[i] /\ k \in Nat \ {0}
                                          /\ queue'[i][k] = queue[i][k + 1]
           /\ \A k \in DOMAIN queue[i] : k # 1 => /\ k - 1 \in DOMAIN queue'[i]
                                                  /\ queue'[i][k - 1] = queue[i][k]
<1> DEFINE n == Len(queue[i])
<1>1. i \in DOMAIN queue /\ queue[i] \in Seq(Cells) /\ queue[i] # <<>>
  BY DEF HasPdu, Shapes
<1>2. n \in Nat \ {0} /\ DOMAIN queue[i] = 1 .. n
  BY <1>1, EmptySeq, LenProperties
<1>3. /\ Tail(queue[i]) \in Seq(Cells) /\ Len(Tail(queue[i])) = n - 1
      /\ \A k \in 1 .. Len(Tail(queue[i])) : Tail(queue[i])[k] = queue[i][k + 1]
  BY <1>1, HeadTailProperties
<1>4. DOMAIN queue' = DOMAIN queue /\ queue'[i] = Tail(queue[i])
  BY DEF Takes
<1>5. \A j \in DOMAIN queue : j # i => queue'[j] = queue[j]
  BY DEF Takes
<1>6. DOMAIN queue'[i] = 1 .. (n - 1)
  BY <1>3, <1>4, LenProperties
<1>7. Head(queue[i]) = queue[i][1]
  BY <1>1
<1> HIDE DEF n
<1>8. \A k \in 1 .. (n - 1) : k + 1 \in 1 .. n /\ k \in Nat \ {0}
  BY <1>2
<1>9. \A k \in 1 .. n : k # 1 => k - 1 \in 1 .. (n - 1) /\ (k - 1) + 1 = k
  BY <1>2
<1>10. \A k \in 1 .. (n - 1) : queue'[i][k] = queue[i][k + 1]
  BY <1>3, <1>4
<1> QED BY <1>1, <1>2, <1>4, <1>5, <1>6, <1>7, <1>8, <1>9, <1>10

(* BothQueues of the lists h and q, where n PDUs are in order o.             *)
Linked(h, x, q, d, o, n) ==
    /\ h.first = IF n = 0 THEN NULL ELSE o[1]
    /\ h.last = IF n = 0 THEN NULL ELSE o[n]
    /\ \A k \in 1 .. n : x[o[k]] = IF k = n THEN NULL ELSE o[k + 1]
    /\ \A k, l \in 1 .. n : o[k] = o[l] => k = l
    /\ PdusOf(q) = {o[k] : k \in 1 .. n}
    /\ \A i \in DOMAIN q :
         /\ \A k \in DOMAIN q[i] : d[q[i][k]] = i
         /\ \A k, l \in DOMAIN q[i], p, r \in 1 .. n :
              o[p] = q[i][k] /\ o[r] = q[i][l] /\ k < l => p < r

LEMMA LinkedNow == BothQueues <=> Linked(head2, next, queue, id, order, Len(order))
  BY DEF BothQueues, Linked, Queued, PdusOf

LEMMA LinkedNext == BothQueues' <=> Linked(head2', next', queue', id', order', Len(order'))
  BY DEF BothQueues, Linked, Queued, PdusOf

(* A PDU saved comes last in both queues.                                    *)
LEMMA SavedInStep ==
    ASSUME Shapes, order \in Seq(Cells), BothQueues, NEW c \in Cells, c \notin Queued,
           Len(Queue(id[c])) < CAN_BUS_PDU_NUM, InsertTail(c), id' = id,
           Extends(id[c], c),
           order' = Append(order, c)
    PROVE  order' \in Seq(Cells) /\ BothQueues'
<1> DEFINE i == id[c]
           m == Len(Queue(i))
<1>0. PICK n \in Nat : n = Len(order)
  BY LenProperties
<1>1. i \in Ids /\ n \in Nat /\ DOMAIN order = 1 .. n /\ \A k \in 1 .. n : order[k] \in Cells
  BY <1>0, LenProperties DEF Shapes
<1>2. /\ order' \in Seq(Cells) /\ Len(order') = n + 1
      /\ \A k \in 1 .. n : order'[k] = order[k]
      /\ order'[n + 1] = c
  BY <1>0, AppendProperties
<1>3. \A k \in 1 .. n : order[k] \in Queued /\ order[k] # c
  BY <1>0 DEF BothQueues
<1>4. /\ DOMAIN queue' = DOMAIN queue \union {i}
      /\ \A j \in DOMAIN queue : j # i => queue'[j] = queue[j]
      /\ Len(Queue(i)) \in Nat /\ DOMAIN queue'[i] = 1 .. (Len(Queue(i)) + 1)
      /\ \A k \in 1 .. Len(Queue(i)) : /\ i \in DOMAIN queue
                                       /\ k \in DOMAIN queue[i]
                                       /\ queue'[i][k] = queue[i][k]
      /\ queue'[i][Len(Queue(i)) + 1] = c
      /\ i \in DOMAIN queue => DOMAIN queue[i] = 1 .. Len(Queue(i))
      /\ Queued' = Queued \union {c}
  BY <1>1, PlacesSaved
<1>5. /\ head2.first = IF n = 0 THEN NULL ELSE order[1]
      /\ head2.last = IF n = 0 THEN NULL ELSE order[n]
      /\ \A k \in 1 .. n : next[order[k]] = IF k = n THEN NULL ELSE order[k + 1]
      /\ \A k, l \in 1 .. n : order[k] = order[l] => k = l
      /\ Queued = {order[k] : k \in 1 .. n}
  BY <1>0 DEF BothQueues
<1>6. \A j \in DOMAIN queue :
        /\ \A k \in DOMAIN queue[j] : id[queue[j][k]] = j
        /\ \A k, l \in DOMAIN queue[j], p, r \in 1 .. n :
             order[p] = queue[j][k] /\ order[r] = queue[j][l] /\ k < l => p < r
  BY <1>0 DEF BothQueues
<1> HIDE DEF i, m
<1>7. head2'.first = order'[1] /\ head2'.last = order'[n + 1]
  <2>1. CASE n = 0
    BY <2>1, <1>2, <1>5 DEF InsertTail
  <2>2. CASE n # 0
    <3>1. n \in 1 .. n /\ 1 \in 1 .. n
      BY <1>1, <2>2
    <3>2. head2.last # NULL
      BY <1>1, <1>5, <2>2, <3>1, CellsAssumption
    <3> QED BY <2>2, <3>1, <3>2, <1>2, <1>5 DEF InsertTail
  <2> QED BY <2>1, <2>2
<1>8. \A k \in 1 .. (n + 1) : next'[order'[k]] = IF k = n + 1 THEN NULL ELSE order'[k + 1]
  <2> SUFFICES ASSUME NEW k \in 1 .. (n + 1)
               PROVE  next'[order'[k]] = IF k = n + 1 THEN NULL ELSE order'[k + 1]
    OBVIOUS
  <2>0. next \in [Cells -> Links]
    BY DEF Shapes
  <2>1. CASE n = 0
    <3>1. k = n + 1 /\ order'[k] = c /\ head2.last = NULL
      BY <2>1, <1>2, <1>5
    <3> QED BY <2>0, <3>1 DEF InsertTail
  <2>2. CASE n # 0
    <3>1. n \in 1 .. n
      BY <1>1, <2>2
    <3>2. head2.last = order[n] /\ order[n] \in Cells /\ order[n] # c
      BY <1>1, <1>3, <1>5, <2>2, <3>1
    <3>3. next' = [next EXCEPT ![c] = NULL, ![order[n]] = c]
      BY <3>2, CellsAssumption DEF InsertTail
    <3>4. CASE k = n + 1
      BY <2>0, <3>2, <3>3, <3>4, <1>2
    <3>5. CASE k = n
      BY <2>0, <3>1, <3>2, <3>3, <3>5, <1>1, <1>2
    <3>6. CASE k \in 1 .. (n - 1)
      <4>1. k \in 1 .. n /\ k + 1 \in 1 .. n /\ k # n /\ k # n + 1
        BY <1>1, <3>6
      <4>2. order[k] # order[n] /\ order[k] # c /\ order[k] \in Cells
        BY <4>1, <3>1, <1>1, <1>3, <1>5
      <4> QED BY <4>1, <4>2, <2>0, <3>3, <1>2, <1>5
    <3> QED BY <1>1, <3>4, <3>5, <3>6
  <2> QED BY <2>1, <2>2
<1>9. \A k, l \in 1 .. (n + 1) : order'[k] = order'[l] => k = l
  <2> SUFFICES ASSUME NEW k \in 1 .. (n + 1), NEW l \in 1 .. (n + 1), order'[k] = order'[l]
               PROVE  k = l
    OBVIOUS
  <2>1. k # n + 1 => k \in 1 .. n
    BY <1>1
  <2>2. l # n + 1 => l \in 1 .. n
    BY <1>1
  <2> QED BY <2>1, <2>2, <1>2, <1>3, <1>5
<1>10. Queued' = {order'[k] : k \in 1 .. (n + 1)}
  <2>1. n + 1 \in 1 .. (n + 1) /\ \A k \in 1 .. n : k \in 1 .. (n + 1)
    BY <1>1
  <2>2. \A k \in 1 .. (n + 1) : k = n + 1 \/ k \in 1 .. n
    BY <1>1
  <2>3. \A x : x \in Queued' <=> (x = c \/ \E k \in 1 .. n : x = order[k])
    BY <1>4, <1>5
  <2>4. \A x : x \in {order'[k] : k \in 1 .. (n + 1)} <=> (x = c \/ \E k \in 1 .. n : x = order[k])
    BY <2>1, <2>2, <1>2
  <2> QED BY <2>3, <2>4
<1>11. \A j \in DOMAIN queue' : \A k \in DOMAIN queue'[j] :
          \/ j \in DOMAIN queue /\ k \in DOMAIN queue[j] /\ queue'[j][k] = queue[j][k]
          \/ j = i /\ k = m + 1 /\ queue'[j][k] = c
  <2> SUFFICES ASSUME NEW j \in DOMAIN queue', NEW k \in DOMAIN queue'[j]
               PROVE  \/ j \in DOMAIN queue /\ k \in DOMAIN queue[j] /\ queue'[j][k] = queue[j][k]
                      \/ j = i /\ k = m + 1 /\ queue'[j][k] = c
    OBVIOUS
  <2>1. CASE j # i
    BY <2>1, <1>4
  <2>2. CASE j = i
    <3>1. k \in 1 .. m \/ k = m + 1
      BY <2>2, <1>4 DEF m
    <3> QED BY <2>2, <3>1, <1>4 DEF m
  <2> QED BY <2>1, <2>2
<1>12. \A j \in DOMAIN queue' : \A k \in DOMAIN queue'[j] : id'[queue'[j][k]] = j
  <2> SUFFICES ASSUME NEW j \in DOMAIN queue', NEW k \in DOMAIN queue'[j]
               PROVE  id[queue'[j][k]] = j
    OBVIOUS
  <2>1. CASE j \in DOMAIN queue /\ k \in DOMAIN queue[j] /\ queue'[j][k] = queue[j][k]
    BY <2>1, <1>6
  <2>2. CASE j = i /\ k = m + 1 /\ queue'[j][k] = c
    BY <2>2 DEF i
  <2> QED BY <2>1, <2>2, <1>11
<1>13. \A j \in DOMAIN queue : \A l \in DOMAIN queue[j] : queue[j][l] \in Queued
  BY QueuedAre
<1>14. ASSUME NEW j \in DOMAIN queue', NEW k \in DOMAIN queue'[j], NEW l \in DOMAIN queue'[j],
              NEW p \in 1 .. (n + 1), NEW r \in 1 .. (n + 1),
              order'[p] = queue'[j][k], order'[r] = queue'[j][l], k < l
       PROVE  p < r
  <2>1. \A q \in 1 .. (n + 1) : /\ q = n + 1 \/ q \in 1 .. n
                                /\ order'[q] = c <=> q = n + 1
    BY <1>1, <1>2, <1>3
  <2>2. CASE r = n + 1
    <3>1. p # n + 1
      <4>1. ASSUME p = n + 1 PROVE FALSE
        <5>1. queue'[j][k] = c /\ queue'[j][l] = c
          BY <2>2, <4>1, <1>2, <1>14
        <5>2. \A y \in DOMAIN queue'[j] : queue'[j][y] = c => j = i /\ y = m + 1
          <6>1. \A y \in DOMAIN queue'[j] : j \in DOMAIN queue /\ y \in DOMAIN queue[j] => queue[j][y] # c
            BY <1>13
          <6> QED BY <6>1, <1>11
        <5>3. k = m + 1 /\ l = m + 1 /\ m \in Nat
          BY <5>1, <5>2, <1>4 DEF m
        <5> QED BY <5>3, <1>14
      <4> QED BY <4>1
    <3> QED BY <2>1, <2>2, <3>1, <1>1
  <2>3. CASE r # n + 1
    <3>1. r \in 1 .. n /\ order'[r] # c /\ order'[r] = order[r]
      BY <2>1, <2>3, <1>2
    <3>2. j \in DOMAIN queue /\ l \in DOMAIN queue[j] /\ queue'[j][l] = queue[j][l]
      BY <3>1, <1>11, <1>14
    <3>3. k \in DOMAIN queue[j] /\ queue'[j][k] = queue[j][k]
      <4>1. CASE j # i
        BY <4>1, <3>2, <1>11
      <4>2. CASE j = i
        <5>1. DOMAIN queue[i] = 1 .. m
          BY <3>2, <4>2, <1>4 DEF m
        <5>2. k # m + 1
          BY <5>1, <3>2, <4>2, <1>4, <1>14 DEF m
        <5> QED BY <5>2, <4>2, <3>2, <1>11
      <4> QED BY <4>1, <4>2
    <3>4. p \in 1 .. n /\ order'[p] = order[p]
      <4>1. queue[j][k] \in Queued
        BY <3>2, <3>3, <1>13
      <4>2. order'[p] # c
        BY <4>1, <3>3, <1>14
      <4> QED BY <4>2, <2>1, <1>2
    <3> QED BY <3>1, <3>2, <3>3, <3>4, <1>6, <1>14
  <2> QED BY <2>2, <2>3
<1>15. n + 1 # 0
  BY <1>1
<1>16. \A j \in DOMAIN queue' : \A k, l \in DOMAIN queue'[j], p, r \in 1 .. (n + 1) :
          order'[p] = queue'[j][k] /\ order'[r] = queue'[j][l] /\ k < l => p < r
  <2> TAKE j \in DOMAIN queue'
  <2> SUFFICES ASSUME NEW k \in DOMAIN queue'[j], NEW l \in DOMAIN queue'[j],
                      NEW p \in 1 .. (n + 1), NEW r \in 1 .. (n + 1)
               PROVE  order'[p] = queue'[j][k] /\ order'[r] = queue'[j][l] /\ k < l => p < r
    OBVIOUS
  <2> QED BY <1>14
<1>17. Linked(head2', next', queue', id', order', n + 1)
  BY <1>7, <1>8, <1>9, <1>10, <1>12, <1>15, <1>16, QueuedNext DEF Linked
<1>18. BothQueues'
  BY <1>2, <1>17, LinkedNext
<1> QED BY <1>2, <1>18

(* The first PDU of the bus is the first of its identifier.                  *)
LEMMA FirstIsFirst ==
    ASSUME Shapes, order \in Seq(Cells), BothQueues, order # <<>>
    PROVE  /\ order[1] \in Cells /\ order[1] \in Queued
           /\ HasPdu(id[order[1]])
           /\ Head(queue[id[order[1]]]) = order[1]
           /\ head2.first = order[1]
<1>1. /\ Len(order) \in Nat \ {0} /\ 1 \in 1 .. Len(order) /\ order[1] \in Cells
  BY EmptySeq, LenProperties
<1>2. order[1] \in Queued /\ head2.first = order[1]
  BY <1>1 DEF BothQueues
<1>3. PICK i \in DOMAIN queue : \E k \in DOMAIN queue[i] : order[1] = queue[i][k]
  BY <1>2, QueuedAre
<1>4. PICK k \in DOMAIN queue[i] : order[1] = queue[i][k]
  BY <1>3
<1>5. id[order[1]] = i
  BY <1>4 DEF BothQueues
<1>6. queue[i] \in Seq(Cells) /\ Len(queue[i]) \in Nat /\ DOMAIN queue[i] = 1 .. Len(queue[i])
  BY LenProperties DEF Shapes
<1>7. queue[i] # <<>> /\ 1 \in DOMAIN queue[i] /\ k \in Nat \ {0}
  BY <1>4, <1>6, EmptySeq
<1>8. k = 1
  <2>1. queue[i][1] \in Queued
    BY <1>7, QueuedAre
  <2>2. PICK p \in 1 .. Len(order) : queue[i][1] = order[p]
    BY <2>1 DEF BothQueues
  <2>3. 1 < k => p < 1
    BY <1>1, <1>4, <1>7, <2>2 DEF BothQueues
  <2> QED BY <2>2, <2>3, <1>7
<1> QED BY <1>1, <1>2, <1>4, <1>5, <1>6, <1>7, <1>8 DEF HasPdu

(* A PDU read that is the first of the bus leaves both queues.               *)
LEMMA ReadInStep ==
    ASSUME Shapes, order \in Seq(Cells), BothQueues, NEW i \in Ids, HasPdu(i),
           Takes(i), head2' = Removed, next' = next, id' = id, Head(queue[i]) = order[1], order' = Tail(order)
    PROVE  /\ order' \in Seq(Cells) /\ BothQueues'
           /\ Queued' = Queued \ {order[1]} /\ order[1] \in Queued
<1>0. PICK n \in Nat : n = Len(order)
  BY LenProperties
<1>1. DOMAIN order = 1 .. n /\ \A k \in 1 .. n : order[k] \in Cells
  BY <1>0, LenProperties
<1>2. /\ DOMAIN queue' = DOMAIN queue /\ i \in DOMAIN queue
      /\ \A j \in DOMAIN queue : j # i => queue'[j] = queue[j]
      /\ 1 \in DOMAIN queue[i] /\ Head(queue[i]) = queue[i][1]
      /\ \A k \in DOMAIN queue'[i] : /\ k + 1 \in DOMAIN queue[i] /\ k \in Nat \ {0}
                                     /\ queue'[i][k] = queue[i][k + 1]
      /\ \A k \in DOMAIN queue[i] : k # 1 => /\ k - 1 \in DOMAIN queue'[i]
                                             /\ queue'[i][k - 1] = queue[i][k]
  BY PlacesRead
<1>3. /\ head2.first = IF n = 0 THEN NULL ELSE order[1]
      /\ head2.last = IF n = 0 THEN NULL ELSE order[n]
      /\ \A k \in 1 .. n : next[order[k]] = IF k = n THEN NULL ELSE order[k + 1]
      /\ \A k, l \in 1 .. n : order[k] = order[l] => k = l
      /\ Queued = {order[k] : k \in 1 .. n}
  BY <1>0 DEF BothQueues
<1>4. \A j \in DOMAIN queue :
        /\ \A k \in DOMAIN queue[j] : id[queue[j][k]] = j
        /\ \A k, l \in DOMAIN queue[j], p, r \in 1 .. n :
             order[p] = queue[j][k] /\ order[r] = queue[j][l] /\ k < l => p < r
  BY <1>0 DEF BothQueues
<1>5. order[1] = queue[i][1] /\ order[1] \in Queued
  BY <1>2, QueuedAre
<1>6. n # 0
  BY <1>3, <1>5
<1>7. order # <<>>
  BY <1>0, <1>6, EmptySeq
<1>8. /\ order' \in Seq(Cells) /\ Len(order') = n - 1
      /\ \A k \in 1 .. (n - 1) : order'[k] = order[k + 1]
  BY <1>0, <1>7, HeadTailProperties
<1>9. n - 1 \in Nat /\ 1 \in 1 .. n /\ n \in 1 .. n
  BY <1>6
<1>10. \A k \in 1 .. (n - 1) : k \in 1 .. n /\ k + 1 \in 1 .. n /\ k # n /\ k + 1 # 1
  BY <1>9
<1>11. next[order[1]] = IF n = 1 THEN NULL ELSE order[2]
  BY <1>3, <1>9
<1>12. /\ head2'.first = IF n - 1 = 0 THEN NULL ELSE order'[1]
       /\ head2'.last = IF n - 1 = 0 THEN NULL ELSE order'[n - 1]
  <2>1. CASE n = 1
    BY <2>1, <1>3, <1>11 DEF Removed
  <2>2. CASE n # 1
    <3>1. 1 \in 1 .. (n - 1) /\ n - 1 \in 1 .. (n - 1) /\ 2 \in 1 .. n
      BY <2>2, <1>9
    <3>2. order'[1] = order[2] /\ order'[n - 1] = order[n] /\ order[2] \in Cells
      BY <3>1, <1>1, <1>8
    <3>3. head2.first = order[1] /\ head2.last = order[n]
      BY <1>3, <1>6
    <3>4. next[head2.first] = order[2] /\ order[2] # NULL
      BY <2>2, <3>2, <3>3, <1>11, CellsAssumption
    <3>5. head2'.first = order[2] /\ head2'.last = order[n]
      BY <3>3, <3>4 DEF Removed
    <3>6. n - 1 # 0
      BY <2>2, <1>9
    <3> QED BY <3>2, <3>5, <3>6
  <2> QED BY <2>1, <2>2
<1>13. \A k \in 1 .. (n - 1) : next'[order'[k]] = IF k = n - 1 THEN NULL ELSE order'[k + 1]
  <2> SUFFICES ASSUME NEW k \in 1 .. (n - 1)
               PROVE  next[order[k + 1]] = IF k = n - 1 THEN NULL ELSE order'[k + 1]
    BY <1>8
  <2>1. next[order[k + 1]] = IF k + 1 = n THEN NULL ELSE order[(k + 1) + 1]
    BY <1>3, <1>10
  <2>2. k # n - 1 => k + 1 \in 1 .. (n - 1)
    BY <1>9
  <2>3. k + 1 = n <=> k = n - 1
    BY <1>9
  <2> QED BY <2>1, <2>2, <2>3, <1>8
<1>14. \A k, l \in 1 .. (n - 1) : order'[k] = order'[l] => k = l
  <2> SUFFICES ASSUME NEW k \in 1 .. (n - 1), NEW l \in 1 .. (n - 1), order'[k] = order'[l]
               PROVE  k = l
    OBVIOUS
  <2>1. order[k + 1] = order[l + 1]
    BY <1>8
  <2>2. k + 1 = l + 1
    BY <2>1, <1>3, <1>10
  <2> QED BY <2>2
<1>15. \A j \in DOMAIN queue' : \A k \in DOMAIN queue'[j] :
         /\ j \in DOMAIN queue /\ queue'[j][k] # order[1]
         /\ \/ j # i /\ k \in DOMAIN queue[j] /\ queue'[j][k] = queue[j][k]
            \/ j = i /\ k + 1 \in DOMAIN queue[j] /\ k \in Nat /\ queue'[j][k] = queue[j][k + 1]
  <2> SUFFICES ASSUME NEW j \in DOMAIN queue', NEW k \in DOMAIN queue'[j]
               PROVE  /\ j \in DOMAIN queue /\ queue'[j][k] # order[1]
                      /\ \/ j # i /\ k \in DOMAIN queue[j] /\ queue'[j][k] = queue[j][k]
                         \/ j = i /\ k + 1 \in DOMAIN queue[j] /\ k \in Nat
                              /\ queue'[j][k] = queue[j][k + 1]
    OBVIOUS
  <2>1. CASE j # i
    <3>1. j \in DOMAIN queue /\ k \in DOMAIN queue[j] /\ queue'[j][k] = queue[j][k]
      BY <2>1, <1>2
    <3>2. id[queue[j][k]] = j /\ id[order[1]] = i
      BY <3>1, <1>2, <1>4, <1>5
    <3> QED BY <2>1, <3>1, <3>2
  <2>2. CASE j = i
    <3>1. k + 1 \in DOMAIN queue[i] /\ k \in Nat \ {0} /\ queue'[i][k] = queue[i][k + 1]
      BY <2>2, <1>2
    <3>2. 1 < k + 1
      BY <3>1
    <3>3. queue[i][k + 1] = order[1] => 1 < 1
      BY <3>1, <3>2, <1>2, <1>4, <1>5, <1>9
    <3> QED BY <2>2, <3>1, <3>3, <1>2
  <2> QED BY <2>1, <2>2
<1>16. Queued' = Queued \ {order[1]}
  <2>1. ASSUME NEW x, x \in Queued' PROVE x \in Queued \ {order[1]}
    <3>1. PICK j \in DOMAIN queue' : \E k \in DOMAIN queue'[j] : x = queue'[j][k]
      BY <2>1, PdusAre, QueuedNext
    <3>2. PICK k \in DOMAIN queue'[j] : x = queue'[j][k]
      BY <3>1
    <3> QED BY <3>2, <1>15, QueuedAre
  <2>2. ASSUME NEW x, x \in Queued, x # order[1] PROVE x \in Queued'
    <3>1. PICK j \in DOMAIN queue : \E k \in DOMAIN queue[j] : x = queue[j][k]
      BY <2>2, QueuedAre
    <3>2. PICK k \in DOMAIN queue[j] : x = queue[j][k]
      BY <3>1
    <3>3. \E l \in DOMAIN queue'[j] : x = queue'[j][l]
      <4>1. CASE j # i
        BY <4>1, <3>2, <1>2
      <4>2. CASE j = i
        <5>1. k # 1
          BY <2>2, <3>2, <4>2, <1>5
        <5>2. k - 1 \in DOMAIN queue'[i] /\ queue'[i][k - 1] = queue[i][k]
          BY <5>1, <3>2, <4>2, <1>2
        <5> QED BY <5>2, <3>2, <4>2
      <4> QED BY <4>1, <4>2
    <3> QED BY <3>3, <1>2, PdusAre, QueuedNext
  <2> QED BY <2>1, <2>2
<1>17. Queued' = {order'[k] : k \in 1 .. (n - 1)}
  <2>1. ASSUME NEW x PROVE x \in Queued' <=> \E k \in 1 .. (n - 1) : x = order[k + 1]
    <3>1. ASSUME NEW k \in 1 .. n, k # 1 PROVE k - 1 \in 1 .. (n - 1) /\ (k - 1) + 1 = k
      BY <3>1
    <3>2. ASSUME x \in Queued' PROVE \E k \in 1 .. (n - 1) : x = order[k + 1]
      <4>1. PICK k \in 1 .. n : x = order[k]
        BY <3>2, <1>3, <1>16
      <4>2. k # 1
        BY <3>2, <4>1, <1>16
      <4> QED BY <3>1, <4>1, <4>2
    <3>3. ASSUME NEW k \in 1 .. (n - 1), x = order[k + 1] PROVE x \in Queued'
      <4>1. order[k + 1] # order[1]
        BY <1>3, <1>9, <1>10
      <4> QED BY <3>3, <4>1, <1>3, <1>10, <1>16
    <3> QED BY <3>2, <3>3
  <2> QED BY <2>1, <1>8
<1>18. \A j \in DOMAIN queue' : \A k \in DOMAIN queue'[j] : id'[queue'[j][k]] = j
  BY <1>4, <1>15
<1>19. ASSUME NEW j \in DOMAIN queue', NEW k \in DOMAIN queue'[j], NEW l \in DOMAIN queue'[j],
              NEW p \in 1 .. (n - 1), NEW r \in 1 .. (n - 1),
              order'[p] = queue'[j][k], order'[r] = queue'[j][l], k < l
       PROVE  p < r
  <2>1. order[p + 1] = queue'[j][k] /\ order[r + 1] = queue'[j][l]
    BY <1>8, <1>19
  <2>2. CASE j # i
    <3>1. p + 1 < r + 1
      BY <2>1, <2>2, <1>4, <1>10, <1>15, <1>19
    <3> QED BY <3>1
  <2>3. CASE j = i
    <3>1. /\ k + 1 \in DOMAIN queue[j] /\ l + 1 \in DOMAIN queue[j] /\ k \in Nat /\ l \in Nat
          /\ queue'[j][k] = queue[j][k + 1] /\ queue'[j][l] = queue[j][l + 1]
          /\ j \in DOMAIN queue
      BY <2>3, <1>15
    <3>2. k + 1 < l + 1
      BY <3>1, <1>19
    <3>3. p + 1 < r + 1
      BY <2>1, <3>1, <3>2, <1>4, <1>10
    <3> QED BY <3>3
  <2> QED BY <2>2, <2>3
<1>20. \A j \in DOMAIN queue' : \A k, l \in DOMAIN queue'[j], p, r \in 1 .. (n - 1) :
          order'[p] = queue'[j][k] /\ order'[r] = queue'[j][l] /\ k < l => p < r
  <2> TAKE j \in DOMAIN queue'
  <2> SUFFICES ASSUME NEW k \in DOMAIN queue'[j], NEW l \in DOMAIN queue'[j],
                      NEW p \in 1 .. (n - 1), NEW r \in 1 .. (n - 1)
               PROVE  order'[p] = queue'[j][k] /\ order'[r] = queue'[j][l] /\ k < l => p < r
    OBVIOUS
  <2> QED BY <1>19
<1>21. Linked(head2', next', queue', id', order', n - 1)
  BY <1>12, <1>13, <1>14, <1>17, <1>18, <1>20, QueuedNext DEF Linked
<1>22. BothQueues'
  BY <1>8, <1>21, LinkedNext
<1> QED BY <1>5, <1>8, <1>16, <1>22

(* Steps that leave the queues as they are.                                  *)
LEMMA KeptInStep ==
    ASSUME Shapes, order \in Seq(Cells), BothQueues, UNCHANGED bus,
           \A c \in Queued : id'[c] = id[c],
           order' = order \/ (order' = <<>> /\ queue = NoQueues)
    PROVE  order' \in Seq(Cells) /\ BothQueues' /\ Queued' = Queued
<1>1. Queued' = Queued
  BY DEF Queued, bus
<1>2. order' = order
  <2>1. CASE queue = NoQueues
    <3>1. \A c : c \notin Queued
      BY <2>1, QueuedAre DEF NoQueues
    <3> QED BY <3>1, FirstIsFirst
  <2> QED BY <2>1
<1>3. PICK n \in Nat : n = Len(order)
  BY LenProperties
<1>4. Linked(head2, next, queue, id, order, n)
  BY <1>3, LinkedNow
<1>5. \A i \in DOMAIN queue : \A k \in DOMAIN queue[i] : queue[i][k] \in Queued
  BY QueuedAre
<1>6. Linked(head2, next, queue, id', order, n)
  BY <1>4, <1>5 DEF Linked
<1>7. Linked(head2', next', queue', id', order', Len(order'))
  BY <1>2, <1>3, <1>6 DEF bus
<1> QED BY <1>1, <1>2, <1>7, LinkedNext

(* The bus is freed, and what was saved to it with it.                       *)
LEMMA FreedInStep ==
    ASSUME FreeH, order' = <<>>
    PROVE  order' \in Seq(Cells) /\ BothQueues' /\ Queued' = {}
<1>1. DOMAIN queue' = {} /\ head2' = NoPdus
  BY DEF FreeH, NoQueues
<1>2. Queued' = {}
  BY <1>1 DEF Queued
<1>3. order' \in Seq(Cells) /\ Len(order') = 0
  BY EmptySeq
<1>4. Linked(head2', next', queue', id', order', 0)
  BY <1>1, <1>2, QueuedNext DEF Linked, NoPdus
<1> QED BY <1>2, <1>3, <1>4, LinkedNext

-----------------------------------------------------------------------------
Held == {user.cell, driver.cell} \ {NULL}
Owned == /\ Queued \union Held \subseteq allocated
         /\ Queued \intersect Held = {}
         /\ user.cell # driver.cell \/ user.cell = NULL
         /\ allocated \subseteq Queued \union Held \union lost

OrderInv ==
    /\ TypeInv
    /\ order \in Seq(Cells)
    /\ ~astray => BothQueues /\ Owned

LEMMA InitOrder == HistoryInit => OrderInv
<1> SUFFICES ASSUME HistoryInit PROVE OrderInv
  OBVIOUS
<1>1. Init /\ order = <<>> /\ lost = {} /\ TypeInv
  BY InitType DEF HistoryInit, ObserveInit
<1>2. DOMAIN queue = {} /\ head2 = NoPdus
  BY <1>1 DEF Init, NoQueues
<1>3. Queued = {}
  BY <1>2 DEF Queued
<1>4. order \in Seq(Cells) /\ Len(order) = 0
  BY <1>1, EmptySeq
<1>5. Linked(head2, next, queue, id, order, 0)
  BY <1>2, <1>3 DEF Linked, NoPdus, Queued, PdusOf
<1>6. BothQueues
  BY <1>4, <1>5, LinkedNow
<1>7. Owned
  BY <1>1, <1>3 DEF Init, Owned, Held
<1> QED BY <1>1, <1>4, <1>6, <1>7 DEF OrderInv

(* What the history variables record, as long as no read goes astray.        *)
LEMMA Observed ==
    ASSUME Observe, ~astray'
    PROVE  /\ ~astray
           /\ Read => user'.cell = order[1]
           /\ order' = IF Freed THEN <<>>
                       ELSE IF Saved /\ queue' # queue THEN Append(order, driver.cell)
                       ELSE IF Read THEN Tail(order)
                       ELSE order
           /\ lost' = IF /\ Saved /\ queue' = queue /\ driver.cell \in allocated'
                         /\ driver.stale \/ id[driver.cell] \notin DOMAIN queue
                      THEN lost \union {driver.cell} ELSE lost
<1>1. ~astray /\ (Read => user'.cell = order[1])
  <2>1. astray' = (astray \/ (Read /\ user'.cell # order[1]))
    BY DEF Observe
  <2> QED BY <2>1, Zenon
<1>2. order' = IF Freed \/ astray' THEN <<>>
                ELSE IF Saved /\ queue' # queue THEN Append(order, driver.cell)
                ELSE IF Read THEN Tail(order)
                ELSE order
  BY DEF Observe
<1>3. lost' = IF astray' THEN {}
              ELSE IF /\ Saved /\ queue' = queue /\ driver.cell \in allocated'
                      /\ driver.stale \/ id[driver.cell] \notin DOMAIN queue
              THEN lost \union {driver.cell} ELSE lost
  BY DEF Observe
<1> QED BY <1>1, <1>2, <1>3

(* A thread whose step neither saves nor reads leaves the history as it is.  *)
LEMMA Quiet ==
    ASSUME OrderInv, Observe, ~astray', UNCHANGED bus, ~Saved, ~Read,
           \A c \in Queued : id'[c] = id[c]
    PROVE  order' \in Seq(Cells) /\ BothQueues' /\ Queued' = Queued /\ lost' = lost
<1>1. ~astray /\ BothQueues /\ Shapes /\ order \in Seq(Cells)
  BY Observed DEF OrderInv, TypeInv
<1>2. order' = order \/ (order' = <<>> /\ queue = NoQueues)
  BY Observed DEF Freed, bus
<1>3. lost' = lost
  BY Observed
<1> QED BY <1>1, <1>2, <1>3, KeptInStep

LEMMA FreedOrder ==
    ASSUME OrderInv, Observe, ~astray', LibOpen \/ LibClose
    PROVE  order' \in Seq(Cells) /\ BothQueues' /\ Owned'
<1>1. /\ FreeH /\ user.cell = NULL /\ user'.cell = NULL /\ driver'.cell = driver.cell
      /\ ~Saved /\ ~Read
  BY DEF LibOpen, LibClose, UserStep, FreeH, Saved, Read, OrderInv, TypeInv, Shapes
<1>2. order' = <<>> /\ lost' = lost /\ ~astray
  BY <1>1, Observed DEF FreeH, Freed
<1>3. order' \in Seq(Cells) /\ BothQueues' /\ Queued' = {}
  BY <1>1, <1>2, FreedInStep
<1>4. Owned'
  BY <1>1, <1>2, <1>3 DEF Owned, Held, FreeH, OrderInv
<1> QED BY <1>3, <1>4

LEMMA QuietOrder ==
    ASSUME OrderInv, Observe, ~astray',
           \/ Probe \/ InsertBus \/ CloseDevices
           \/ \E canid \in ReadIds : ReadQueueCrash(canid)
    PROVE  order' \in Seq(Cells) /\ BothQueues' /\ Owned'
<1>1. /\ UNCHANGED <<bus, id, allocated, driver>>
      /\ user.pc # "copy" /\ (user' = user \/ (user'.cell = NULL /\ user'.pc # "copy"))
  BY DEF Probe, InsertBus, CloseDevices, ReadQueueCrash, UserStep
<1>2. user.cell = NULL /\ user'.cell = NULL /\ ~Saved /\ ~Read
  BY <1>1 DEF Saved, Read, OrderInv, TypeInv, Shapes
<1>3. order' \in Seq(Cells) /\ BothQueues' /\ Queued' = Queued /\ lost' = lost /\ ~astray
  BY <1>1, <1>2, Quiet, Observed
<1>4. Owned'
  BY <1>1, <1>2, <1>3 DEF Owned, Held, OrderInv
<1> QED BY <1>3, <1>4

LEMMA CopiedOrder ==
    ASSUME OrderInv, Observe, ~astray', CopyAndFree
    PROVE  order' \in Seq(Cells) /\ BothQueues' /\ Owned'
<1>1. /\ UNCHANGED <<bus, id, driver>> /\ user'.cell = NULL /\ user.cell # NULL
      /\ ~Saved /\ ~Read
  BY DEF CopyAndFree, UserStep, Saved, Read, OrderInv, TypeInv, Shapes
<1>2. order' \in Seq(Cells) /\ BothQueues' /\ Queued' = Queued /\ lost' = lost /\ ~astray
  BY <1>1, Quiet, Observed
<1>3. user.cell \in allocated
  BY <1>1, <1>2 DEF OrderInv, Owned, Held
<1>4. allocated' = allocated \ {user.cell}
  BY <1>3 DEF CopyAndFree
<1>5. Owned'
  BY <1>1, <1>2, <1>4 DEF Owned, Held, OrderInv
<1> QED BY <1>2, <1>5

LEMMA FoundOrder ==
    ASSUME OrderInv, Observe, ~astray', NEW i \in Ids, FindBus(i)
    PROVE  order' \in Seq(Cells) /\ BothQueues' /\ Owned'
<1>1. PICK c \in Cells \ allocated :
         /\ allocated' = allocated \union {c}
         /\ id' = [id EXCEPT ![c] = i]
         /\ driver' = [pc |-> "save", cell |-> c, stale |-> FALSE]
  BY DEF FindBus
<1>2. UNCHANGED <<bus, user>> /\ driver.cell = NULL /\ ~Saved /\ ~Read
  BY DEF FindBus, Saved, Read, OrderInv, TypeInv, Shapes
<1>3. ~astray /\ Owned
  BY Observed DEF OrderInv
<1>4. \A d \in Queued : id'[d] = id[d]
  BY <1>1, <1>3 DEF Owned, OrderInv, TypeInv, Shapes
<1>5. order' \in Seq(Cells) /\ BothQueues' /\ Queued' = Queued /\ lost' = lost
  BY <1>2, <1>4, Quiet
<1>6. Owned'
  BY <1>1, <1>2, <1>3, <1>5, CellsAssumption DEF Owned, Held
<1> QED BY <1>5, <1>6

LEMMA LostOrder ==
    ASSUME OrderInv, Observe, ~astray', NoQueue \/ SaveStale
    PROVE  order' \in Seq(Cells) /\ BothQueues' /\ Owned'
<1>1. /\ UNCHANGED <<bus, id, user, allocated>> /\ driver'.cell = NULL /\ driver.cell # NULL
      /\ Saved /\ ~Read
      /\ driver.stale \/ id[driver.cell] \notin DOMAIN queue
  BY DEF NoQueue, SaveStale, DriverStep, Saved, Read, OrderInv, TypeInv, Shapes
<1>2. ~astray /\ Owned /\ BothQueues /\ Shapes /\ order \in Seq(Cells)
  BY Observed DEF OrderInv, TypeInv
<1>3. driver.cell \in allocated /\ queue' = queue
  BY <1>1, <1>2 DEF Owned, Held, bus
<1>4. lost' = lost \union {driver.cell}
  BY <1>1, <1>3, Observed
<1>5. order' = order \/ (order' = <<>> /\ queue = NoQueues)
  BY <1>1, <1>3, Observed DEF Freed
<1>6. order' \in Seq(Cells) /\ BothQueues' /\ Queued' = Queued
  BY <1>1, <1>2, <1>5, KeptInStep
<1>7. Owned'
  BY <1>1, <1>2, <1>4, <1>6 DEF Owned, Held
<1> QED BY <1>6, <1>7

LEMMA SavedOrder ==
    ASSUME OrderInv, Observe, ~astray', SaveB
    PROVE  order' \in Seq(Cells) /\ BothQueues' /\ Owned'
<1> DEFINE c == driver.cell
<1>1. /\ UNCHANGED <<id, user>> /\ driver'.cell = NULL /\ c \in Cells /\ c # NULL
      /\ id[c] \in Ids /\ Saved /\ ~Read
  BY CellsAssumption DEF SaveB, DriverStep, Saved, Read, OrderInv, TypeInv, Shapes, Links
<1>2. ~astray /\ Owned /\ BothQueues /\ Shapes /\ order \in Seq(Cells)
  BY Observed DEF OrderInv, TypeInv
<1>3. c \in allocated /\ c \notin Queued /\ c # user.cell
  BY <1>1, <1>2 DEF Owned, Held
<1>4. CASE /\ Len(Queue(id[c])) < CAN_BUS_PDU_NUM
           /\ queue' = [i \in DOMAIN queue \union {id[c]} |->
                          IF i = id[c] THEN Append(Queue(id[c]), c) ELSE queue[i]]
           /\ InsertTail(c)
           /\ UNCHANGED allocated
  <2>1. Extends(id[c], c)
    BY <1>4 DEF Extends
  <2>2. queue' # queue /\ Queued' = Queued \union {c} /\ queue' # NoQueues
    <3>1. queue' # queue /\ Queued' = Queued \union {c}
      BY <1>1, <1>2, <2>1, PlacesSaved
    <3>2. DOMAIN queue' # {}
      BY <2>1 DEF Extends
    <3> QED BY <3>1, <3>2 DEF NoQueues
  <2>3. order' = Append(order, c) /\ lost' = lost
    BY <1>1, <2>2, Observed DEF Freed
  <2>4. order' \in Seq(Cells) /\ BothQueues'
    BY <1>1, <1>2, <1>3, <1>4, <2>1, <2>3, SavedInStep
  <2>5. Owned'
    BY <1>1, <1>2, <1>3, <1>4, <2>2, <2>3 DEF Owned, Held
  <2> QED BY <2>4, <2>5
<1>5. CASE allocated' = Dropped(c) /\ UNCHANGED bus
  <2>1. order' = order \/ (order' = <<>> /\ queue = NoQueues)
    BY <1>1, <1>5, Observed DEF Freed, bus
  <2>2. order' \in Seq(Cells) /\ BothQueues' /\ Queued' = Queued
    BY <1>1, <1>2, <1>5, <2>1, KeptInStep
  <2>3. lost' = lost
    BY <1>5, Observed DEF Dropped
  <2>4. Owned'
    BY <1>1, <1>2, <1>3, <1>5, <2>2, <2>3 DEF Owned, Held, Dropped
  <2> QED BY <2>2, <2>4
<1> QED BY <1>4, <1>5 DEF SaveB, Queue, Enqueued

LEMMA ReadOrder ==
    ASSUME OrderInv, Observe, ~astray', NEW canid \in ReadIds,
           ReadQueue(canid) \/ ReadUnqueued(canid)
    PROVE  order' \in Seq(Cells) /\ BothQueues' /\ Owned'
<1>1. ~astray /\ Owned /\ BothQueues /\ Shapes /\ order \in Seq(Cells)
  BY Observed DEF OrderInv, TypeInv
<1>2. Read /\ user'.cell = order[1] /\ user.cell = NULL
  BY Observed DEF ReadQueue, ReadUnqueued, Read, OrderInv, TypeInv, Shapes
<1>3. UNCHANGED <<next, id, allocated, driver>> /\ ~Saved
  BY DEF ReadQueue, ReadUnqueued, Saved, bus
<1>4. CASE ReadQueue(canid)
  <2>1. PICK i \in Ids : /\ HasPdu(i)
                         /\ user' = [pc |-> "copy", cell |-> Head(queue[i])]
                         /\ queue' = [queue EXCEPT ![i] = Tail(@)]
    BY <1>1, <1>4 DEF ReadQueue, HasPdu, Shapes
  <2>2. Takes(i) /\ head2' = Removed /\ Head(queue[i]) = order[1]
    BY <1>2, <1>4, <2>1 DEF ReadQueue, Takes, HasPdu
  <2>3. queue' # NoQueues
    <3>1. DOMAIN queue' # {}
      BY <2>1, <2>2 DEF Takes, HasPdu
    <3> QED BY <3>1 DEF NoQueues
  <2>4. order' = Tail(order) /\ lost' = lost
    BY <1>2, <1>3, <2>3, Observed DEF Freed
  <2>5. /\ order' \in Seq(Cells) /\ BothQueues'
        /\ Queued' = Queued \ {order[1]} /\ order[1] \in Queued
    BY <1>1, <1>3, <2>1, <2>2, <2>4, ReadInStep
  <2>6. order[1] # NULL /\ order[1] # driver.cell
    BY <1>1, <2>5, CellsAssumption DEF Owned, Held, Shapes
  <2>7. Held' = Held \union {order[1]}
    BY <1>2, <1>3, <2>6 DEF Held
  <2>8. Queued' \union Held' = Queued \union Held
    BY <2>5, <2>7
  <2>9. Owned'
    BY <1>1, <1>2, <1>3, <2>4, <2>5, <2>6, <2>7, <2>8 DEF Owned
  <2> QED BY <2>5, <2>9
<1>5. CASE ReadUnqueued(canid)
  <2>1. PICK i \in Sought(ANY) : ~HasPdu(i)
    BY <1>5 DEF ReadUnqueued
  <2>2. head2.first # NULL
    BY <2>1 DEF Sought
  <2>3. order # <<>>
    <3>1. Len(<<>>) = 0
      BY EmptySeq
    <3> QED BY <1>1, <2>2, <3>1 DEF BothQueues
  <2>4. order[1] \in Queued /\ HasPdu(id[order[1]]) /\ head2.first = order[1]
    BY <1>1, <2>3, FirstIsFirst
  <2>5. Sought(ANY) = {id[order[1]]}
    BY <1>1, <2>2, <2>4 DEF Sought, Owned
  <2> QED BY <2>1, <2>4, <2>5
<1> QED BY <1>4, <1>5

LEMMA NextOrder == OrderInv /\ [HistoryNext]_observed => OrderInv'
<1> SUFFICES ASSUME OrderInv, [HistoryNext]_observed PROVE OrderInv'
  OBVIOUS
<1>1. TypeInv'
  BY NextType DEF OrderInv, HistoryNext, observed
<1>2. CASE UNCHANGED observed
  <2>1. Queued' = Queued /\ UNCHANGED <<order, lost, astray, allocated, user, driver>>
    BY <1>2 DEF observed, vars, bus, Queued
  <2>2. BothQueues' <=> BothQueues
    BY <1>2 DEF observed, vars, bus, BothQueues, Queued
  <2> QED BY <1>1, <2>1, <2>2 DEF OrderInv, Owned, Held
<1>3. CASE HistoryNext /\ astray'
  <2>1. order' = <<>>
    BY <1>3 DEF HistoryNext, Observe
  <2> QED BY <1>1, <1>3, <2>1, EmptySeq DEF OrderInv
<1>4. CASE HistoryNext /\ ~astray'
  <2>1. Next /\ Observe
    BY <1>4 DEF HistoryNext
  <2>2. order' \in Seq(Cells) /\ BothQueues' /\ Owned'
    BY <1>4, <2>1, FreedOrder, QuietOrder, CopiedOrder, FoundOrder, LostOrder,
       SavedOrder, ReadOrder DEF Next, User, Driver, GetPdu
  <2> QED BY <1>1, <2>2 DEF OrderInv
<1> QED BY <1>2, <1>3, <1>4

LEMMA AlwaysOrder == HistorySpec => []OrderInv
  BY InitOrder, NextOrder, PTL DEF HistorySpec

(* The two kinds of queue stay in step, whatever the number of PDUs, as long *)
(* as every read takes the first PDU of the bus; also for a PDU saved to     *)
(* the bus that was opened in the place of the one it was meant for          *)
(* (python_can_lib.c:67, 157-256).                                           *)
THEOREM InStepHolds == HistorySpec => []InStep
<1>1. OrderInv => InStep
  BY DEF OrderInv, InStep
<1> QED BY <1>1, AlwaysOrder, PTL

(* As long as they do, no PDU is freed twice, read after it was freed or     *)
(* kept by nobody, but for those saved to a bus that was gone                *)
(* (python_can_lib.c:98-120, 251, 491).                                      *)
THEOREM OneOwnerHolds == HistorySpec => []OneOwner
<1>1. OrderInv => OneOwner
  BY DEF OrderInv, OneOwner, Owned, Held
<1> QED BY <1>1, AlwaysOrder, PTL

(* A read with identifier -1 returns what the bus received first             *)
(* (python_can_lib.c:157-256, 315).                                          *)
THEOREM FirstReceivedFirstHolds == HistorySpec => FirstReceivedFirst
<1>1. ASSUME OrderInv, GetPdu(ANY), ~astray
      PROVE  user'.cell = order[1]
  <2>1. BothQueues /\ Owned /\ Shapes /\ order \in Seq(Cells)
    BY <1>1 DEF OrderInv, TypeInv
  <2>2. head2.first # NULL
    BY <1>1 DEF GetPdu, ReadQueue, ReadQueueCrash, ReadUnqueued, Sought
  <2>3. order # <<>>
    <3>1. Len(<<>>) = 0
      BY EmptySeq
    <3> QED BY <2>1, <2>2, <3>1 DEF BothQueues
  <2>4. /\ order[1] \in Queued /\ HasPdu(id[order[1]]) /\ head2.first = order[1]
        /\ Head(queue[id[order[1]]]) = order[1]
    BY <2>1, <2>3, FirstIsFirst
  <2>5. Sought(ANY) = {id[order[1]]}
    BY <2>1, <2>2, <2>4 DEF Sought, Owned
  <2> QED BY <1>1, <2>2, <2>4, <2>5 DEF GetPdu, ReadQueue, ReadQueueCrash, ReadUnqueued
<1>2. OrderInv /\ [HistoryNext]_observed => [GetPdu(ANY) /\ ~astray => user'.cell = order[1]]_observed
  BY <1>1
<1>3. HistorySpec => [][HistoryNext]_observed
  BY PTL DEF HistorySpec
<1> QED BY <1>2, <1>3, AlwaysOrder, PTL DEF FirstReceivedFirst

-----------------------------------------------------------------------------
(* Users who take PDUs in turn: those who pass -1 only, and those on a bus   *)
(* with one identifier.                                                      *)
ReadsInTurn == ReadIds = {ANY} \/ \E i : Ids = {i}

LEMMA ReadsFirst ==
    ASSUME ReadsInTurn, OrderInv, ~astray, Next, Read
    PROVE  user'.cell = order[1] /\ head2.first = order[1]
<1>1. BothQueues /\ Owned /\ Shapes /\ order \in Seq(Cells)
  BY DEF OrderInv, TypeInv
<1>2. PICK canid \in ReadIds : ReadQueue(canid) \/ ReadUnqueued(canid)
  <2>1. user.pc = "idle" /\ user'.pc = "copy"
    BY DEF Read
  <2>2. \E canid \in ReadIds : GetPdu(canid)
    BY <2>1 DEF Next, User, LibOpen, Probe, InsertBus, CloseDevices, LibClose, CopyAndFree,
                UserStep, Driver, FindBus, SaveB, NoQueue, SaveStale
  <2>3. ASSUME NEW canid \in ReadIds, ReadQueueCrash(canid) PROVE FALSE
    BY <2>1, <2>3 DEF ReadQueueCrash
  <2> QED BY <2>2, <2>3 DEF GetPdu
<1>3. head2.first # NULL
  BY <1>2 DEF ReadQueue, ReadUnqueued, Sought
<1>4. order # <<>>
  <2>1. Len(<<>>) = 0
    BY EmptySeq
  <2> QED BY <1>1, <1>3, <2>1 DEF BothQueues
<1>5. /\ order[1] \in Queued /\ order[1] \in Cells
      /\ HasPdu(id[order[1]]) /\ head2.first = order[1]
      /\ Head(queue[id[order[1]]]) = order[1]
  BY <1>1, <1>4, FirstIsFirst
<1>6. Sought(ANY) = {id[order[1]]}
  BY <1>1, <1>3, <1>5 DEF Sought, Owned
<1>7. Sought(canid) = {id[order[1]]}
  <2>1. CASE canid = ANY
    BY <1>6, <2>1
  <2>2. CASE canid # ANY
    <3>1. PICK i : Ids = {i}
      BY <2>2 DEF ReadsInTurn
    <3>2. canid = i /\ id[order[1]] = i
      BY <1>1, <1>5, <2>2, <3>1, IdsAssumption DEF Shapes
    <3> QED BY <2>2, <3>2 DEF Sought
  <2> QED BY <2>1, <2>2
<1> QED BY <1>2, <1>5, <1>6, <1>7 DEF ReadQueue, ReadUnqueued

(* For them the queues never fall out of step ...                            *)
LEMMA NeverAstray ==
    ASSUME ReadsInTurn PROVE HistorySpec => []~astray
<1>1. HistoryInit => ~astray
  BY DEF HistoryInit, ObserveInit
<1>2. OrderInv /\ ~astray /\ [HistoryNext]_observed => ~astray'
  <2> SUFFICES ASSUME OrderInv, ~astray, [HistoryNext]_observed PROVE ~astray'
    OBVIOUS
  <2>1. CASE UNCHANGED observed
    BY <2>1 DEF observed
  <2>2. CASE HistoryNext
    <3>1. astray' = (astray \/ (Read /\ user'.cell # order[1])) /\ Next
      BY <2>2 DEF HistoryNext, Observe
    <3>2. Read => user'.cell = order[1]
      BY <3>1, ReadsFirst
    <3> QED BY <3>1, <3>2, Zenon
  <2> QED BY <2>1, <2>2
<1> QED BY <1>1, <1>2, AlwaysOrder, PTL DEF HistorySpec

(* ... and a read removes the PDU it returns from both, as the comment at    *)
(* python_can_lib.c:189 has it, which is not so for other users.             *)
THEOREM RemovedFromBothInTurn ==
    ASSUME ReadsInTurn PROVE HistorySpec => RemovedFromBoth /\ []BothQueues
<1>1. OrderInv /\ ~astray /\ [HistoryNext]_observed => [Read => user'.cell = head2.first]_observed
  BY ReadsFirst DEF HistoryNext
<1>2. OrderInv /\ ~astray => BothQueues
  BY DEF OrderInv
<1>3. HistorySpec => [][HistoryNext]_observed
  BY PTL DEF HistorySpec
<1> QED BY <1>1, <1>2, <1>3, AlwaysOrder, NeverAstray, PTL DEF RemovedFromBoth
=============================================================================

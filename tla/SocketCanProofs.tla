-------------------------- MODULE SocketCanProofs --------------------------
(* Proofs about the device driver, for every number of ports, handles and    *)
(* threads.                                                                  *)
EXTENDS SocketCanHistory, FiniteSetTheorems, TLAPS

Pcs == {"none", "check", "recv", "notify", "done"}
Links == Handles \union {NULL}

TypeOK ==
    /\ terminated \in BOOLEAN
    /\ alive \subseteq Handles /\ IsFiniteSet(alive)
    /\ link \in [Handles -> Links]
    /\ port \in [Handles -> Ports \union {CHOOSE p \in Ports : TRUE}]
    /\ user \in {"idle", "spawn", "mark", "closing"}
    /\ daemon \in [Daemons -> [pc : Pcs, at : Links]]
    /\ \A d \in Daemons : daemon[d].pc \in {"recv", "notify"} => daemon[d].at \in Handles

(* The handles that are allocated are the n elements of the sequence s,      *)
(* linked in its order.  Without the order the links might as well close to  *)
(* a ring that is not reached from first, which would be left behind when    *)
(* the last handle of the list goes.                                         *)
Chained(s, n) ==
    /\ s \in [1..n -> Handles]
    /\ alive = {s[i] : i \in 1..n}
    /\ \A i, j \in 1..n : s[i] = s[j] => i = j
    /\ first = IF n = 0 THEN NULL ELSE s[1]
    /\ \A i \in 1..n : link[s[i]] = IF i = n THEN NULL ELSE s[i + 1]

PortsDiffer == \A h, k \in alive : h # k => port[h] # port[k]

ListInv ==
    /\ TypeOK
    /\ \E n \in Nat : \E s : Chained(s, n)
    /\ PortsDiffer

-----------------------------------------------------------------------------
LEMMA InitList == Init => ListInv
<1> SUFFICES ASSUME Init PROVE ListInv
  OBVIOUS
<1>1. TypeOK
  BY FS_EmptySet DEF Init, TypeOK, Links, Pcs
<1>2. Chained([i \in 1..0 |-> NULL], 0)
  BY DEF Chained, Init
<1>3. \E n \in Nat : \E s : Chained(s, n)
  BY <1>2
<1> QED BY <1>1, <1>3 DEF Init, ListInv, PortsDiffer

(* A new handle comes behind the only one without a successor.               *)
LEMMA ProbeOpenList ==
    ASSUME ListInv, NEW p \in Ports, ProbeOpen(p)
    PROVE  ListInv'
<1>1. PICK h \in Handles \ alive :
         /\ alive' = alive \union {h}
         /\ port' = [port EXCEPT ![h] = p]
         /\ link' = [l \in Handles |-> IF l = h THEN NULL
                                       ELSE IF Last(l) THEN h ELSE link[l]]
         /\ first' = IF first = NULL THEN h ELSE first
  BY DEF ProbeOpen
<1>2. user' = "spawn" /\ terminated' = terminated /\ daemon' = daemon /\ ~IsOpen(p)
  BY DEF ProbeOpen, UserStep
<1>3. IsFiniteSet(alive')
  BY <1>1, FS_AddElement DEF ListInv, TypeOK
<1>4. TypeOK'
  BY <1>1, <1>2, <1>3 DEF ListInv, TypeOK, Links, Pcs
<1>5. PortsDiffer'
  BY <1>1, <1>2 DEF ListInv, TypeOK, PortsDiffer, IsOpen
<1>6a. PICK n \in Nat : \E s : Chained(s, n)
  BY DEF ListInv
<1>6. PICK s : Chained(s, n)
  BY <1>6a
<1> DEFINE t == [i \in 1..(n + 1) |-> IF i = n + 1 THEN h ELSE s[i]]
<1>7. t \in [1..(n + 1) -> Handles] /\ t[n + 1] = h /\ \A i \in 1..n : t[i] = s[i] /\ s[i] \in alive /\ s[i] # h
  BY <1>1, <1>6 DEF Chained
<1>8. alive' = {t[i] : i \in 1..(n + 1)}
  <2>1. \A x \in alive : \E i \in 1..(n + 1) : x = t[i]
    BY <1>6, <1>7 DEF Chained
  <2>2. \A i \in 1..(n + 1) : t[i] \in alive \/ t[i] = h
    BY <1>7
  <2>3. n + 1 \in 1..(n + 1)
    OBVIOUS
  <2> QED BY <1>1, <1>7, <2>1, <2>2, <2>3
<1>9. \A i, j \in 1..(n + 1) : t[i] = t[j] => i = j
  BY <1>6, <1>7 DEF Chained
<1>10. first' = t[1]
  BY <1>1, <1>6, <1>7, HandlesAssumption DEF Chained
<1>11. \A i \in 1..(n + 1) : link'[t[i]] = IF i = n + 1 THEN NULL ELSE t[i + 1]
  <2> SUFFICES ASSUME NEW i \in 1..(n + 1)
               PROVE  link'[t[i]] = IF i = n + 1 THEN NULL ELSE t[i + 1]
    OBVIOUS
  <2>1. CASE i = n + 1
    BY <2>1, <1>1, <1>7
  <2>2. CASE i = n /\ n > 0
    <3>1. Last(s[i]) /\ s[i] \in Handles
      BY <2>2, <1>6, <1>7 DEF Last, Chained
    <3> QED BY <2>2, <3>1, <1>1, <1>7
  <2>3. CASE i \in 1..(n - 1)
    <3>1. i \in 1..n /\ i # n /\ i + 1 \in 1..n
      BY <2>3
    <3>2. link[s[i]] = s[i + 1] /\ s[i + 1] \in Handles /\ s[i] \in Handles
      BY <3>1, <1>6 DEF Chained
    <3>3. ~Last(s[i])
      BY <3>2, HandlesAssumption DEF Last
    <3> QED BY <3>1, <3>2, <3>3, <1>1, <1>7
  <2> QED BY <2>1, <2>2, <2>3
<1>12. Chained(t, n + 1)'
  BY <1>7, <1>8, <1>9, <1>10, <1>11 DEF Chained
<1> QED BY <1>4, <1>5, <1>12 DEF ListInv

(* Those behind the handle that goes move up by one.                         *)
LEMMA CloseHandleList ==
    ASSUME ListInv, NEW p \in Ports, CloseHandle(p)
    PROVE  ListInv'
<1>1. PICK h \in alive :
         /\ alive' = alive \ {h}
         /\ first' = IF first = h THEN link[h] ELSE first
         /\ link' = [l \in Handles |-> IF l \in alive /\ link[l] = h THEN link[h]
                                       ELSE link[l]]
  BY DEF CloseHandle
<1>2. user' = "closing" /\ terminated' = terminated /\ daemon' = daemon /\ port' = port
  BY DEF CloseHandle, UserStep
<1>3. IsFiniteSet(alive')
  BY <1>1, FS_RemoveElement DEF ListInv, TypeOK
<1>4. TypeOK'
  BY <1>1, <1>2, <1>3 DEF ListInv, TypeOK, Links, Pcs
<1>5. PortsDiffer'
  BY <1>1, <1>2 DEF ListInv, PortsDiffer
<1>6a. PICK n \in Nat : \E s : Chained(s, n)
  BY DEF ListInv
<1>6. PICK s : Chained(s, n)
  BY <1>6a
<1>7. PICK k \in 1..n : s[k] = h
  BY <1>6 DEF Chained
<1> DEFINE t == [i \in 1..(n - 1) |-> IF i < k THEN s[i] ELSE s[i + 1]]
<1>8. /\ n - 1 \in Nat
      /\ \A i \in 1..(n - 1) : i \in 1..n /\ i + 1 \in 1..n
  OBVIOUS
<1>9. t \in [1..(n - 1) -> Handles]
  BY <1>6, <1>8 DEF Chained
<1>10. \A i \in 1..(n - 1) : t[i] = IF i < k THEN s[i] ELSE s[i + 1]
  OBVIOUS
<1> HIDE DEF t
<1>11. alive' = {t[i] : i \in 1..(n - 1)}
  <2>1. \A x \in alive : x # h => \E i \in 1..(n - 1) : x = t[i]
    <3> SUFFICES ASSUME NEW j \in 1..n, s[j] # h
                 PROVE  \E i \in 1..(n - 1) : s[j] = t[i]
      BY <1>6 DEF Chained
    <3>1. CASE j < k
      <4>1. j \in 1..(n - 1)
        BY <3>1
      <4> QED BY <3>1, <4>1, <1>10
    <3>2. CASE j > k
      <4>1. j - 1 \in 1..(n - 1) /\ ~(j - 1 < k) /\ (j - 1) + 1 = j
        BY <3>2
      <4> QED BY <4>1, <1>10
    <3> QED BY <3>1, <3>2, <1>7
  <2>2. \A i \in 1..(n - 1) : t[i] \in alive /\ t[i] # h
    <3> SUFFICES ASSUME NEW i \in 1..(n - 1) PROVE t[i] \in alive /\ t[i] # h
      OBVIOUS
    <3>1. CASE i < k
      BY <3>1, <1>6, <1>7, <1>8, <1>10 DEF Chained
    <3>2. CASE ~(i < k)
      <4>1. i + 1 # k
        BY <3>2
      <4> QED BY <3>2, <4>1, <1>6, <1>7, <1>8, <1>10 DEF Chained
    <3> QED BY <3>1, <3>2
  <2> QED BY <1>1, <2>1, <2>2
<1>12. \A i, j \in 1..(n - 1) : t[i] = t[j] => i = j
  <2> SUFFICES ASSUME NEW i \in 1..(n - 1), NEW j \in 1..(n - 1), t[i] = t[j]
               PROVE  i = j
    OBVIOUS
  <2>1. \A a, b \in 1..n : s[a] = s[b] => a = b
    BY <1>6 DEF Chained
  <2>2. CASE i < k /\ j < k
    BY <2>1, <2>2, <1>8, <1>10
  <2>3. CASE i < k /\ ~(j < k)
    <3>1. i = j + 1
      BY <2>1, <2>3, <1>8, <1>10
    <3> QED BY <3>1, <2>3
  <2>4. CASE ~(i < k) /\ j < k
    <3>1. i + 1 = j
      BY <2>1, <2>4, <1>8, <1>10
    <3> QED BY <3>1, <2>4
  <2>5. CASE ~(i < k) /\ ~(j < k)
    <3>1. i + 1 = j + 1
      BY <2>1, <2>5, <1>8, <1>10
    <3> QED BY <3>1
  <2> QED BY <2>2, <2>3, <2>4, <2>5
<1>13. first = h <=> k = 1
  BY <1>6, <1>7 DEF Chained
<1>14. link[h] = IF k = n THEN NULL ELSE s[k + 1]
  BY <1>6, <1>7 DEF Chained
<1>15. first' = IF n - 1 = 0 THEN NULL ELSE t[1]
  <2>1. CASE n = 1
    BY <2>1, <1>1, <1>13, <1>14
  <2>2. CASE n > 1 /\ k = 1
    BY <2>2, <1>1, <1>10, <1>13, <1>14
  <2>3. CASE n > 1 /\ k > 1
    BY <2>3, <1>1, <1>6, <1>10, <1>13 DEF Chained
  <2> QED BY <2>1, <2>2, <2>3
<1>16. \A i \in 1..(n - 1) : link'[t[i]] = IF i = n - 1 THEN NULL ELSE t[i + 1]
  <2> SUFFICES ASSUME NEW i \in 1..(n - 1)
               PROVE  link'[t[i]] = IF i = n - 1 THEN NULL ELSE t[i + 1]
    OBVIOUS
  <2>1. /\ \A j \in 1..n : s[j] \in Handles /\ s[j] \in alive
        /\ \A j \in 1..n : link[s[j]] = IF j = n THEN NULL ELSE s[j + 1]
        /\ \A a, b \in 1..n : s[a] = s[b] => a = b
    BY <1>6 DEF Chained
  <2>2. \A j \in 1..n : link[s[j]] = h <=> j + 1 = k
    <3> SUFFICES ASSUME NEW j \in 1..n PROVE link[s[j]] = h <=> j + 1 = k
      OBVIOUS
    <3>1. CASE j = n
      BY <3>1, <2>1, <1>7, HandlesAssumption
    <3>2. CASE j # n
      <4>1. j + 1 \in 1..n
        BY <3>2
      <4> QED BY <3>2, <4>1, <2>1, <1>7
    <3> QED BY <3>1, <3>2
  <2>3. \A j \in 1..n : link'[s[j]] = IF j + 1 = k THEN link[h] ELSE link[s[j]]
    BY <1>1, <2>1, <2>2
  <2>4. CASE i < k /\ i + 1 # k
    <3>1. i + 1 < k /\ i \in 1..n /\ i # n - 1 /\ i # n /\ i + 1 \in 1..(n - 1)
      BY <2>4
    <3>2. t[i] = s[i] /\ t[i + 1] = s[i + 1]
      BY <3>1, <1>10
    <3> QED BY <2>1, <2>3, <3>1, <3>2
  <2>5. CASE i + 1 = k
    <3>1. i < k /\ i \in 1..n /\ t[i] = s[i] /\ (k = n <=> i = n - 1)
      BY <2>5, <1>10
    <3>2. link'[t[i]] = IF k = n THEN NULL ELSE s[k + 1]
      BY <2>3, <2>5, <3>1, <1>14
    <3>3. CASE i # n - 1
      <4>1. i + 1 \in 1..(n - 1) /\ ~(i + 1 < k) /\ (i + 1) + 1 = k + 1
        BY <3>3, <2>5
      <4>2. t[i + 1] = s[k + 1]
        BY <4>1, <1>10
      <4> QED BY <3>1, <3>2, <3>3, <4>2
    <3> QED BY <3>1, <3>2, <3>3
  <2>6. CASE ~(i < k)
    <3>1. i + 1 \in 1..n /\ t[i] = s[i + 1] /\ (i + 1) + 1 # k /\ (i + 1 = n <=> i = n - 1)
      BY <2>6, <1>10
    <3>2. link'[t[i]] = IF i = n - 1 THEN NULL ELSE s[(i + 1) + 1]
      BY <2>1, <2>3, <3>1
    <3>3. CASE i # n - 1
      <4>1. i + 1 \in 1..(n - 1) /\ ~(i + 1 < k)
        BY <3>3, <2>6
      <4> QED BY <3>2, <3>3, <4>1, <1>10
    <3> QED BY <3>2, <3>3
  <2> QED BY <2>4, <2>5, <2>6
<1>17. Chained(t, n - 1)'
  BY <1>9, <1>11, <1>12, <1>15, <1>16 DEF Chained
<1> QED BY <1>4, <1>5, <1>8, <1>17 DEF ListInv

(* The other steps of the user leave the list as it is, and so do those of   *)
(* the threads that receive and of the bus.                                  *)
ListKept == UNCHANGED list

LEMMA KeptList ==
    ASSUME ListInv, TypeOK', ListKept
    PROVE  ListInv'
  BY DEF ListInv, ListKept, list, Chained, PortsDiffer

LEMMA StartDaemonType ==
    ASSUME TypeOK, StartDaemon PROVE TypeOK'
<1>1. PICK d \in Daemons : daemon' = [daemon EXCEPT ![d] = [pc |-> "check", at |-> NULL]]
  BY DEF StartDaemon
<1>2. [pc |-> "check", at |-> NULL] \in [pc : Pcs, at : Links]
  BY DEF Pcs, Links
<1> QED BY <1>1, <1>2 DEF StartDaemon, UserStep, list, TypeOK

(* A thread goes on to a handle, or to the end of the list.                  *)
LEMMA GotoType ==
    ASSUME TypeOK, NEW d \in Daemons, NEW pc \in Pcs, NEW h \in Links, Goto(d, pc, h),
           pc \in {"recv", "notify"} => h \in Handles
    PROVE  /\ daemon' \in [Daemons -> [pc : Pcs, at : Links]]
           /\ \A e \in Daemons : daemon'[e].pc \in {"recv", "notify"} => daemon'[e].at \in Handles
  BY DEF TypeOK, Goto

LEMMA AdvanceType ==
    ASSUME TypeOK, NEW d \in Daemons, NEW h \in Links, Advance(d, h)
    PROVE  /\ daemon' \in [Daemons -> [pc : Pcs, at : Links]]
           /\ \A e \in Daemons : daemon'[e].pc \in {"recv", "notify"} => daemon'[e].at \in Handles
<1>1. "check" \in Pcs /\ "recv" \in Pcs /\ NULL \in Links /\ (h # NULL => h \in Handles)
  BY DEF Pcs, Links
<1>2. CASE Goto(d, "check", NULL)
  BY <1>1, <1>2, GotoType
<1>3. CASE h # NULL /\ Goto(d, "recv", h)
  BY <1>1, <1>3, GotoType
<1> QED BY <1>2, <1>3 DEF Advance

LEMMA RxDaemonType ==
    ASSUME ListInv, NEW d \in Daemons, RxDaemon(d)
    PROVE  TypeOK' /\ ListKept
<1> DEFINE DaemonOK ==
        /\ daemon' \in [Daemons -> [pc : Pcs, at : Links]]
        /\ \A e \in Daemons : daemon'[e].pc \in {"recv", "notify"} => daemon'[e].at \in Handles
<1>1. TypeOK /\ {"none", "check", "recv", "notify", "done"} = Pcs /\ NULL \in Links
  BY DEF ListInv, Pcs, Links
<1>2. /\ UNCHANGED <<terminated, list, user>>
      /\ DaemonOK => TypeOK'
  BY <1>1 DEF RxDaemon, CheckTerminated, RecvFrame, RecvError, RecvFreed, Notified, list, TypeOK
<1>3. first # NULL => first \in Handles
  BY DEF ListInv, Chained
<1>4. daemon[d].pc \in {"recv", "notify"} => /\ daemon[d].at \in Handles
                                             /\ daemon[d].at \in Links
                                             /\ link[daemon[d].at] \in Links
  BY <1>1 DEF TypeOK, Links
<1>5. ASSUME CheckTerminated(d) PROVE DaemonOK
  <2>1. Goto(d, "done", NULL) \/ (first # NULL /\ Goto(d, "recv", first))
    BY <1>5 DEF CheckTerminated
  <2>2. CASE Goto(d, "done", NULL)
    BY <1>1, <2>2, GotoType
  <2>3. CASE first # NULL /\ Goto(d, "recv", first)
    BY <1>1, <1>3, <2>3, GotoType DEF Links
  <2> QED BY <2>1, <2>2, <2>3
<1>6. ASSUME RecvFrame(d) PROVE DaemonOK
  BY <1>1, <1>4, <1>6, GotoType DEF RecvFrame, DaemonAt
<1>7. ASSUME RecvError(d) PROVE DaemonOK
  BY <1>1, <1>4, <1>7, AdvanceType DEF RecvError, DaemonAt
<1>8. ASSUME Notified(d) PROVE DaemonOK
  BY <1>1, <1>4, <1>8, AdvanceType DEF Notified, DaemonAt
<1>9. ASSUME RecvFreed(d) PROVE DaemonOK
  <2>1. daemon[d].pc = "recv" /\ (\/ Advance(d, link[daemon[d].at])
                                  \/ Goto(d, "notify", daemon[d].at)
                                  \/ daemon' = daemon)
    BY <1>9 DEF RecvFreed, DaemonAt
  <2>2. CASE Advance(d, link[daemon[d].at])
    BY <1>1, <1>4, <2>1, <2>2, AdvanceType
  <2>3. CASE Goto(d, "notify", daemon[d].at)
    BY <1>1, <1>4, <2>1, <2>3, GotoType
  <2>4. CASE daemon' = daemon
    BY <1>1, <2>4 DEF TypeOK
  <2> QED BY <2>1, <2>2, <2>3, <2>4
<1>10. DaemonOK
  BY <1>5, <1>6, <1>7, <1>8, <1>9 DEF RxDaemon
<1> QED BY <1>2, <1>10 DEF ListKept

LEMMA NextList == ListInv /\ [Next]_vars => ListInv'
<1> SUFFICES ASSUME ListInv, [Next]_vars PROVE ListInv'
  OBVIOUS
<1>1. ASSUME NEW p \in Ports, ProbeOpen(p) PROVE ListInv'
  BY <1>1, ProbeOpenList
<1>2. ASSUME NEW p \in Ports, CloseHandle(p) PROVE ListInv'
  BY <1>2, CloseHandleList
<1>3. CASE StartDaemon
  <2>1. TypeOK'
    BY <1>3, StartDaemonType DEF ListInv
  <2> QED BY <1>3, <2>1, KeptList DEF StartDaemon, ListKept
<1>4. ASSUME NEW d \in Daemons, RxDaemon(d) PROVE ListInv'
  BY <1>4, RxDaemonType, KeptList
<1>5. CASE \/ (\E p \in Ports : ProbeFails(p)) \/ StartNoDaemon \/ MarkStarted \/ MarkEnded
           \/ (\E h \in Handles : Arrive(h)) \/ UNCHANGED vars
  <2>1. TypeOK' /\ ListKept
    BY <1>5 DEF ProbeFails, StartNoDaemon, MarkStarted, MarkEnded, Arrive, UserStep,
                WithoutDaemon, Ended, ListInv, TypeOK, ListKept, list, vars
  <2> QED BY <2>1, KeptList
<1> QED BY <1>1, <1>2, <1>3, <1>4, <1>5 DEF Next, User, Probe

(* However ports are opened and closed, in whatever order and by whichever   *)
(* step of the threads that receive, the list holds what is open and no      *)
(* thread is anywhere but at a handle (socket_can.c:109-175, 221-227,        *)
(* 262-266).                                                                 *)
THEOREM ListSoundHolds == Spec => []ListSound
<1>1. ListInv => ListSound
  <2> SUFFICES ASSUME ListInv PROVE ListSound
    OBVIOUS
  <2>1a. PICK n \in Nat : \E s : Chained(s, n)
    BY DEF ListInv
  <2>1. PICK s : Chained(s, n)
    BY <2>1a
  <2>2. /\ \A i \in 1..n : s[i] \in Handles /\ s[i] \in alive
        /\ \A h \in alive : \E i \in 1..n : h = s[i]
        /\ \A i, j \in 1..n : s[i] = s[j] => i = j
        /\ first = IF n = 0 THEN NULL ELSE s[1]
        /\ \A i \in 1..n : link[s[i]] = IF i = n THEN NULL ELSE s[i + 1]
    BY <2>1 DEF Chained
  <2>3. (first = NULL <=> alive = {}) /\ (first # NULL => first \in alive)
    <3>1. CASE n = 0
      BY <2>2, <3>1
    <3>2. CASE n > 0
      BY <2>2, <3>2, HandlesAssumption
    <3> QED BY <3>1, <3>2
  <2>4. \A h \in alive : link[h] \in (alive \union {NULL}) \ {first}
    <3> SUFFICES ASSUME NEW i \in 1..n
                 PROVE  link[s[i]] \in (alive \union {NULL}) \ {first}
      BY <2>2
    <3>1. CASE i = n
      BY <2>2, <3>1, HandlesAssumption
    <3>2. CASE i # n
      <4>1. i + 1 \in 1..n /\ i + 1 # 1 /\ 1 \in 1..n /\ n # 0
        BY <3>2
      <4> QED BY <2>2, <3>2, <4>1
    <3> QED BY <3>1, <3>2
  <2>5. \A h, k \in alive : h # k => link[h] # link[k]
    <3> SUFFICES ASSUME NEW i \in 1..n, NEW j \in 1..n, link[s[i]] = link[s[j]]
                 PROVE  i = j
      BY <2>2
    <3>1. CASE i = n \/ j = n
      <4>1. i # n => i + 1 \in 1..n
        OBVIOUS
      <4>2. j # n => j + 1 \in 1..n
        OBVIOUS
      <4> QED BY <2>2, <3>1, <4>1, <4>2, HandlesAssumption
    <3>2. CASE i # n /\ j # n
      <4>1. i + 1 \in 1..n /\ j + 1 \in 1..n
        BY <3>2
      <4>2. s[i + 1] = s[j + 1]
        BY <2>2, <3>2
      <4>3. i + 1 = j + 1
        BY <2>2, <4>1, <4>2
      <4> QED BY <4>3
    <3> QED BY <3>1, <3>2
  <2> QED BY <2>3, <2>4, <2>5 DEF ListSound, ListInv, TypeOK, PortsDiffer
<1> QED BY <1>1, InitList, NextList, PTL DEF Spec

-----------------------------------------------------------------------------
(* What one step does to the threads: a new one is started, by the user, or  *)
(* one goes on and may end, because the flag tells it to, or none moves.     *)
Starts(d) == /\ StartDaemon
             /\ daemon[d].pc \in {"none", "done"}
             /\ daemon' = [daemon EXCEPT ![d] = [pc |-> "check", at |-> NULL]]
Moves(d) == /\ RxDaemon(d) /\ user' = user
            /\ Live(d)
            /\ \A e \in Daemons : e # d => daemon'[e] = daemon[e]
            /\ daemon'[d].pc \in Pcs \ {"none"}
            /\ daemon'[d].pc = "done" => terminated

LEMMA DaemonStep ==
    ASSUME ListInv, [Next]_vars
    PROVE  \/ \E d \in Daemons : Starts(d)
           \/ \E d \in Daemons : Moves(d)
           \/ daemon' = daemon /\ ~StartDaemon
<1>1. ASSUME NEW d \in Daemons, RxDaemon(d)
      PROVE  Moves(d) \/ (daemon' = daemon /\ user' = user)
  <2>1. UNCHANGED <<terminated, list, user>> /\ Live(d)
    BY <1>1 DEF RxDaemon, CheckTerminated, RecvFrame, RecvError, RecvFreed, Notified,
                DaemonAt, Live
  <2>2. \/ daemon' = daemon
        \/ \E pc \in {"check", "recv", "notify", "done"} : \E h :
               Goto(d, pc, h) /\ (pc = "done" => terminated)
    BY <1>1 DEF RxDaemon, CheckTerminated, RecvFrame, RecvError, RecvFreed, Notified, Advance
  <2>3. ASSUME NEW pc \in {"check", "recv", "notify", "done"}, NEW h, Goto(d, pc, h),
               pc = "done" => terminated
        PROVE  Moves(d)
    BY <1>1, <2>1, <2>3 DEF Moves, Goto, ListInv, TypeOK, Pcs
  <2> QED BY <2>1, <2>2, <2>3
<1>2. CASE StartDaemon
  BY <1>2 DEF StartDaemon, Starts
<1>3. ASSUME user' = user PROVE ~StartDaemon
  BY <1>3 DEF StartDaemon, UserStep
<1>4. ASSUME \/ \E p \in Ports : Probe(p) \/ CloseHandle(p)
             \/ StartNoDaemon \/ MarkStarted \/ MarkEnded
             \/ (\E h \in Handles : Arrive(h)) \/ UNCHANGED vars,
             ~StartDaemon
      PROVE  daemon' = daemon
  BY <1>4 DEF Probe, ProbeOpen, ProbeFails, CloseHandle, StartNoDaemon, MarkStarted,
              MarkEnded, Arrive, vars
<1> QED BY <1>1, <1>2, <1>3, <1>4 DEF Next, User

(* The flag says that a thread runs only once one was started, and a thread  *)
(* ends only when the flag says it does not.                                 *)
ServeInv == ~early /\ (~terminated \/ user = "mark") => \E d \in Daemons : Live(d)

LEMMA ServeStep ==
    ASSUME ListInv, ServeInv, [HistoryNext]_observed
    PROVE  ServeInv'
<1> SUFFICES ASSUME ~early', ~terminated' \/ user' = "mark"
             PROVE  \E d \in Daemons : daemon'[d].pc \notin {"none", "done"}
  BY DEF ServeInv, Live
<1>1. [Next]_vars /\ ~early
  <2>1. CASE HistoryNext
    <3>1. Next /\ early' = (early \/ EndsEarly)
      BY <2>1 DEF HistoryNext, Observe
    <3> QED BY <3>1, Zenon
  <2>2. CASE UNCHANGED observed
    BY <2>2 DEF observed
  <2> QED BY <2>1, <2>2
<1>2. early' = (early \/ EndsEarly) \/ UNCHANGED observed
  BY DEF HistoryNext, Observe
<1>3. TypeOK
  BY DEF ListInv
<1>4. ASSUME NEW d \in Daemons, Starts(d)
      PROVE  daemon'[d].pc \notin {"none", "done"}
  BY <1>3, <1>4 DEF Starts, TypeOK
<1>5. ASSUME NEW d \in Daemons, Moves(d)
      PROVE  daemon'[d].pc \notin {"none", "done"}
  <2>1. terminated' = terminated /\ user' = user
    BY <1>5 DEF Moves, RxDaemon, CheckTerminated, RecvFrame, RecvError, RecvFreed, Notified
  <2>2. ~EndsEarly \/ UNCHANGED daemon
    BY <1>1, <1>2 DEF observed, vars
  <2>3. ~UNCHANGED daemon \/ daemon'[d].pc \notin {"none", "done"}
    BY <1>5 DEF Moves, Live
  <2> QED BY <1>5, <2>1, <2>2, <2>3 DEF Moves, EndsEarly
<1>6. ASSUME daemon' = daemon, ~StartDaemon
      PROVE  \E d \in Daemons : Live(d)
  <2>1. ~terminated \/ user = "mark"
    BY <1>1, <1>6, <1>3 DEF Next, User, Probe, ProbeOpen, ProbeFails, CloseHandle, StartNoDaemon,
            MarkStarted, MarkEnded, Arrive, RxDaemon, CheckTerminated, RecvFrame,
            RecvError, RecvFreed, Notified, UserStep, WithoutDaemon, Ended, vars, TypeOK
  <2> QED BY <1>1, <2>1 DEF ServeInv
<1> QED BY <1>1, <1>4, <1>5, <1>6, DaemonStep DEF Live

(* Whatever the user opens and closes while frames come in, a flag that says *)
(* a thread receives is true: a port opened now is received from though no   *)
(* thread is started for it (socket_can.c:177-188, 219-236).                 *)
THEOREM DaemonServesHolds == HistorySpec => []DaemonServes
<1>1. HistoryInit => ListInv /\ ServeInv
  BY InitList DEF HistoryInit, ObserveInit, Init, ServeInv
<1>2. ListInv /\ ServeInv /\ [HistoryNext]_observed => (ListInv /\ ServeInv)'
  <2> SUFFICES ASSUME ListInv, ServeInv, [HistoryNext]_observed PROVE (ListInv /\ ServeInv)'
    OBVIOUS
  <2>1. [Next]_vars
    BY DEF HistoryNext, observed
  <2> QED BY <2>1, NextList, ServeStep
<1>3. ServeInv => DaemonServes
  BY DEF ServeInv, DaemonServes
<1> QED BY <1>1, <1>2, <1>3, PTL DEF HistorySpec

-----------------------------------------------------------------------------
(* For a user with one port open at a time: the flag is set only before the  *)
(* first thread is started, since closing the only port leaves it as it is,  *)
(* and a thread is started only while it is set.                             *)
OneInv ==
    ~shared =>
        /\ \A h, k \in alive : h = k
        /\ user = "closing" => first = NULL
        /\ terminated /\ user # "mark" => \A d \in Daemons : ~Live(d)
        /\ \A d1, d2 \in Daemons : Live(d1) /\ Live(d2) => d1 = d2

(* A set with two elements has more than one.                                *)
LEMMA TwoElements ==
    ASSUME NEW S, IsFiniteSet(S), Cardinality(S) <= 1
    PROVE  \A x, y \in S : x = y
<1> SUFFICES ASSUME NEW x \in S, NEW y \in S, x # y PROVE FALSE
  OBVIOUS
<1>1. IsFiniteSet({x}) /\ Cardinality({x}) = 1
  BY FS_Singleton
<1>2. IsFiniteSet({x} \union {y}) /\ Cardinality({x} \union {y}) = 2
  <2>1. y \notin {x}
    OBVIOUS
  <2>2. /\ IsFiniteSet({x} \union {y})
        /\ Cardinality({x} \union {y}) = IF y \in {x} THEN Cardinality({x})
                                         ELSE Cardinality({x}) + 1
    BY <1>1, FS_AddElement, Zenon
  <2> QED BY <1>1, <2>1, <2>2
<1>3. {x} \union {y} \in SUBSET S
  OBVIOUS
<1>4. 2 <= Cardinality(S) /\ Cardinality(S) \in Nat
  BY <1>2, <1>3, FS_Subset, FS_CardinalityType
<1> QED BY <1>4

LEMMA OneStep ==
    ASSUME ListInv, OneInv, [HistoryNext]_observed
    PROVE  OneInv'
<1> SUFFICES ASSUME ~shared' PROVE OneInv'
  BY DEF OneInv
<1>1. [Next]_vars /\ ~shared
  <2>1. CASE HistoryNext
    <3>1. Next /\ shared' = (shared \/ Cardinality(alive') > 1)
      BY <2>1 DEF HistoryNext, Observe
    <3> QED BY <3>1, Zenon
  <2>2. CASE UNCHANGED observed
    BY <2>2 DEF observed
  <2> QED BY <2>1, <2>2
<1>2. ListInv' /\ TypeOK /\ TypeOK'
  BY <1>1, NextList DEF ListInv
<1>3. \A h, k \in alive' : h = k
  <2>1. CASE UNCHANGED observed
    BY <1>1, <2>1 DEF OneInv, observed, vars, list
  <2>2. CASE HistoryNext
    <3>1. ~(Cardinality(alive') > 1)
      BY <2>2 DEF HistoryNext, Observe
    <3>2. Cardinality(alive') \in Nat /\ IsFiniteSet(alive')
      BY <1>2, FS_CardinalityType DEF TypeOK
    <3> QED BY <3>1, <3>2, TwoElements
  <2> QED BY <2>1, <2>2
<1>4. user' = "closing" => first' = NULL
  <2>1. ASSUME NEW p \in Ports, CloseHandle(p) PROVE first' = NULL
    <3>1. PICK h \in alive : alive' = alive \ {h}
      BY <2>1 DEF CloseHandle
    <3>2. alive' = {}
      BY <1>1, <3>1 DEF OneInv
    <3>3a. PICK n \in Nat : (\E s : Chained(s, n))'
      BY <1>2 DEF ListInv
    <3>3. PICK s : Chained(s, n)'
      BY <3>3a
    <3>4. n = 0
      <4>1. n # 0 => 1 \in 1..n
        OBVIOUS
      <4> QED BY <3>2, <3>3, <4>1 DEF Chained
    <3> QED BY <3>3, <3>4 DEF Chained
  <2>2. ASSUME ~\E p \in Ports : CloseHandle(p)
        PROVE  user' = "closing" => user = "closing" /\ first' = first
    BY <1>1, <2>2 DEF Next, User, Probe, ProbeOpen, ProbeFails, StartDaemon, StartNoDaemon,
            MarkStarted, MarkEnded, Arrive, RxDaemon, CheckTerminated, RecvFrame,
            RecvError, RecvFreed, Notified, UserStep, WithoutDaemon, vars, list
  <2> QED BY <1>1, <2>1, <2>2 DEF OneInv
<1>5. /\ terminated' /\ user' # "mark" => \A d \in Daemons : daemon'[d].pc \in {"none", "done"}
      /\ \A d1, d2 \in Daemons : daemon'[d1].pc \notin {"none", "done"}
                                   /\ daemon'[d2].pc \notin {"none", "done"} => d1 = d2
  <2>1. ASSUME NEW d \in Daemons, Starts(d)
        PROVE  /\ terminated /\ user' = "mark"
               /\ \A e \in Daemons : e # d => daemon'[e].pc \in {"none", "done"}
    <3>1. user = "spawn" /\ terminated /\ user' = "mark"
      BY <2>1 DEF Starts, StartDaemon, UserStep
    <3>2. \A e \in Daemons : ~Live(e)
      BY <1>1, <3>1 DEF OneInv
    <3> QED BY <2>1, <1>2, <3>1, <3>2 DEF Starts, TypeOK, Live
  <2>2. ASSUME NEW d \in Daemons, Moves(d)
        PROVE  /\ terminated' = terminated /\ user' = user
               /\ \A e \in Daemons : daemon'[e].pc \notin {"none", "done"} => Live(e)
    BY <2>2 DEF Moves, Live, RxDaemon, CheckTerminated, RecvFrame, RecvError, RecvFreed, Notified
  <2>3. ASSUME daemon' = daemon, ~StartDaemon
        PROVE  terminated' /\ user' # "mark" => terminated /\ user # "mark"
    <3>1. user = "closing" => first = NULL
      BY <1>1 DEF OneInv
    <3> QED BY <3>1, <2>3, <1>1, <1>2 DEF Next, User, Probe, ProbeOpen, ProbeFails, CloseHandle,
            StartNoDaemon, MarkStarted, MarkEnded, Arrive, RxDaemon, CheckTerminated,
            RecvFrame, RecvError, RecvFreed, Notified, UserStep, WithoutDaemon, Ended,
            vars, TypeOK
  <2> QED BY <1>1, <2>1, <2>2, <2>3, DaemonStep DEF OneInv, Live
<1> QED BY <1>3, <1>4, <1>5 DEF OneInv, Live

(* However often a user closes the only port and opens it or another one,    *)
(* and wherever the thread stands meanwhile, no second thread is started     *)
(* (socket_can.c:177-188, 219-234).                                          *)
THEOREM AtMostOneDaemonHolds == HistorySpec => []AtMostOneDaemon
<1>1. HistoryInit => ListInv /\ OneInv
  BY InitList DEF HistoryInit, ObserveInit, Init, OneInv, Live
<1>2. ListInv /\ OneInv /\ [HistoryNext]_observed => (ListInv /\ OneInv)'
  <2> SUFFICES ASSUME ListInv, OneInv, [HistoryNext]_observed PROVE (ListInv /\ OneInv)'
    OBVIOUS
  <2>1. [Next]_vars
    BY DEF HistoryNext, observed
  <2> QED BY <2>1, NextList, OneStep
<1>3. OneInv => AtMostOneDaemon
  BY DEF OneInv, AtMostOneDaemon
<1> QED BY <1>1, <1>2, <1>3, PTL DEF HistorySpec
=============================================================================

-------------------------- MODULE BroadcastProofs --------------------------
(* Proofs about the bus, for every number of clients and frames and every    *)
(* size of their sockets.                                                    *)
EXTENDS Broadcast, SequenceTheorems, TLAPS

Frame == [from : Clients, part : Nat \ {0}]

(* Who is where, with the clients that are not in the list yet: each is in   *)
(* one place and once, and has connected.                                    *)
PlacesInv ==
    /\ list \in Seq(Clients) /\ waiting \in Seq(Clients)
    /\ accepted \in Clients \union {NULL}
    /\ conn \in [Clients -> {"off", "on", "closed", "reset", "gone"}]
    /\ IsInjective(list) /\ IsInjective(waiting)
    /\ \A c \in Clients :
          /\ ~(Contains(list, c) /\ Contains(waiting, c))
          /\ accepted = c => ~Contains(list, c) /\ ~Contains(waiting, c)
          /\ conn[c] = "off" =>
                ~Contains(list, c) /\ ~Contains(waiting, c) /\ accepted # c

LoopInv ==
    /\ locked \in BOOLEAN
    /\ main \in [pc : {"sleep", "recv", "send"}, h : Clients \union {NULL},
                 h2 : Clients \union {NULL}]
    /\ WalkSound
    /\ main.pc = "send" => bus # <<>>

StreamsInv ==
    /\ put \in [Clients -> Nat] /\ taken \in [Clients -> Nat]
    /\ \A c \in Clients : taken[c] <= put[c]
    /\ unread \in [Clients -> 0..RoomMax]
    /\ bus \in Seq(Frame)
    /\ heard \in [Clients -> Seq(DOMAIN bus)]
    /\ joined \in [Clients -> 0..Len(bus)]
    /\ cut \subseteq DOMAIN bus /\ torn \subseteq Clients

BaseInv ==
    /\ PlacesInv /\ LoopInv /\ StreamsInv
    /\ Len(waiting) <= CAN_BUS_NODE_MAX

(* While the last frame of the bus is being sent, those before h2 have heard *)
(* it and the others not; it is due to all but its sender, for nobody came   *)
(* into the list since.  Who is not in the list yet has heard nothing.       *)
SendingInv ==
    main.pc = "send" =>
        /\ bus[Len(bus)].from = main.h
        /\ \A c \in Clients : Contains(list, c) =>
              /\ joined[c] < Len(bus)
              /\ Contains(heard[c], Len(bus)) <=>
                    c # main.h /\ Place(c, list) < Place(main.h2, list)

NewInv ==
    \A c \in Clients :
        Contains(waiting, c) \/ accepted = c \/ conn[c] = "off" => heard[c] = <<>>

(* OneBus, for one client.                                                   *)
InOrder(c) == \A i, j \in DOMAIN heard[c] : i < j => heard[c][i] < heard[c][j]
HasHeard(c) == \A i \in Done : i > joined[c] /\ bus[i].from # c /\ i \notin cut
                               => Contains(heard[c], i)
Rightly(c) == \A i \in Done : Contains(heard[c], i) => i > joined[c] /\ bus[i].from # c
HeardInv ==
    \A c \in Clients : Contains(list, c) => InOrder(c) /\ HasHeard(c) /\ Rightly(c)

BusInv == BaseInv /\ SendingInv /\ NewInv /\ HeardInv

(* The last part on the bus of each client lies before the next to be read.  *)
FramesInv ==
    /\ BaseInv
    /\ \A i \in DOMAIN bus : bus[i].part < taken[bus[i].from]
    /\ FramesWhole

-----------------------------------------------------------------------------
(* The list of clients.                                                      *)
LEMMA SetOf ==
    ASSUME NEW S, NEW l \in Seq(S), NEW c
    PROVE  c \in ToSet(l) <=> Contains(l, c)
BY LenProperties DEF ToSet, Contains

LEMMA PlaceIs ==
    ASSUME NEW S, NEW l \in Seq(S), NEW c, Contains(l, c)
    PROVE  Place(c, l) \in 1..Len(l) /\ l[Place(c, l)] = c
BY LenProperties DEF Place, Contains

LEMMA PlaceOf ==
    ASSUME NEW S, NEW l \in Seq(S), IsInjective(l), NEW i \in 1..Len(l)
    PROVE  Contains(l, l[i]) /\ Place(l[i], l) = i
<1>1. Contains(l, l[i])
  BY DEF Contains
<1>2. Place(l[i], l) \in 1..Len(l) /\ l[Place(l[i], l)] = l[i]
  BY <1>1, PlaceIs
<1> QED BY <1>1, <1>2, LenProperties DEF IsInjective

LEMMA FirstIs ==
    ASSUME NEW l \in Seq(Clients)
    PROVE  \/ l = <<>> /\ First(l) = NULL
           \/ Len(l) > 0 /\ First(l) = l[1] /\ First(l) \in Clients
<1>1. CASE l = <<>>
  BY <1>1 DEF First
<1>2. CASE l # <<>>
  <2>1. Len(l) \in Nat \ {0} /\ Head(l) \in Clients
    BY <1>2, EmptySeq, HeadTailProperties
  <2> QED BY <1>2, <2>1 DEF First
<1> QED BY <1>1, <1>2

LEMMA AfterIs ==
    ASSUME NEW l \in Seq(Clients), NEW c, Contains(l, c)
    PROVE  \/ Place(c, l) = Len(l) /\ After(c, l) = NULL
           \/ Place(c, l) + 1 \in 1..Len(l) /\ After(c, l) = l[Place(c, l) + 1]
                 /\ After(c, l) \in Clients
<1>1. Place(c, l) \in 1..Len(l) /\ Len(l) \in Nat
  BY PlaceIs, LenProperties
<1> QED BY <1>1, ElementOfSeq DEF After

LEMMA WithoutIs ==
    ASSUME NEW l \in Seq(Clients), NEW c, Contains(l, c)
    PROVE  /\ Without(c, l) \in Seq(Clients)
           /\ Len(Without(c, l)) = Len(l) - 1
           /\ \A i \in 1..(Len(l) - 1) :
                 Without(c, l)[i] = IF i < Place(c, l) THEN l[i] ELSE l[i + 1]
<1> DEFINE p == Place(c, l)
           a == SubSeq(l, 1, p - 1)
           b == SubSeq(l, p + 1, Len(l))
<1>1. p \in 1..Len(l) /\ Len(l) \in Nat
  BY PlaceIs, LenProperties
<1>2. Without(c, l) = a \o b
  BY DEF Without, RemoveAt
<1>3. \A i \in 1..Len(l) : l[i] \in Clients
  BY ElementOfSeq
<1> HIDE DEF p
<1>4. /\ a \in Seq(Clients) /\ Len(a) = p - 1
      /\ \A i \in 1..(p - 1) : a[i] = l[i]
  BY <1>1, <1>3, SubSeqProperties
<1>5. /\ b \in Seq(Clients) /\ Len(b) = Len(l) - p
      /\ \A i \in 1..(Len(l) - p) : b[i] = l[p + i]
  <2>1. \A i \in (p + 1)..Len(l) : l[i] \in Clients
    BY <1>1, <1>3
  <2>2. /\ b \in Seq(Clients)
        /\ Len(b) = IF p + 1 <= Len(l) THEN Len(l) - (p + 1) + 1 ELSE 0
        /\ \A i \in 1..(Len(l) - (p + 1) + 1) : b[i] = l[(p + 1) + i - 1]
    BY <2>1, <1>1, SubSeqProperties
  <2> HIDE DEF b
  <2> QED BY <2>2, <1>1
<1> HIDE DEF a, b
<1> DEFINE w == Without(c, l)
<1>6. /\ w \in Seq(Clients) /\ Len(w) = Len(a) + Len(b)
      /\ \A i \in 1..(Len(a) + Len(b)) :
            w[i] = IF i <= Len(a) THEN a[i] ELSE b[i - Len(a)]
  <2>1. a \in Seq(Clients) /\ b \in Seq(Clients)
    BY <1>4, <1>5
  <2>2. /\ a \o b \in Seq(Clients)
        /\ Len(a \o b) = Len(a) + Len(b)
        /\ \A i \in 1..(Len(a) + Len(b)) :
              (a \o b)[i] = IF i <= Len(a) THEN a[i] ELSE b[i - Len(a)]
    BY <2>1, ConcatProperties
  <2> QED BY <1>2, <2>2, Zenon
<1> HIDE DEF w
<1>7. Len(w) = Len(l) - 1
  BY <1>1, <1>4, <1>5, <1>6
<1>8. ASSUME NEW i \in 1..(Len(l) - 1), i < p
      PROVE  w[i] = l[i]
  <2>1. i \in 1..(p - 1) /\ i \in 1..(Len(a) + Len(b)) /\ i <= Len(a)
    BY <1>1, <1>4, <1>5, <1>8
  <2>2. w[i] = a[i]
    BY <2>1, <1>6
  <2> QED BY <2>1, <2>2, <1>4
<1>9. ASSUME NEW i \in 1..(Len(l) - 1), i >= p
      PROVE  w[i] = l[i + 1]
  <2>1. i - (p - 1) \in 1..(Len(l) - p) /\ p + (i - (p - 1)) = i + 1
    BY <1>1, <1>9
  <2>2. w[i] = b[i - (p - 1)]
    BY <1>1, <1>4, <1>5, <1>6, <1>9
  <2> QED BY <2>1, <2>2, <1>5
<1> QED BY <1>1, <1>6, <1>7, <1>8, <1>9 DEF p, w

(* ... with the others in their order.                                       *)
LEMMA WithoutKeeps ==
    ASSUME NEW l \in Seq(Clients), IsInjective(l), NEW c, Contains(l, c)
    PROVE  /\ IsInjective(Without(c, l))
           /\ \A d : Contains(Without(c, l), d) <=> Contains(l, d) /\ d # c
<1> DEFINE p == Place(c, l)
           w == Without(c, l)
<1>1. p \in 1..Len(l) /\ Len(l) \in Nat /\ l[p] = c
  BY PlaceIs, LenProperties
<1>2. /\ w \in Seq(Clients) /\ Len(w) = Len(l) - 1
      /\ \A i \in 1..(Len(l) - 1) : w[i] = IF i < p THEN l[i] ELSE l[i + 1]
  BY WithoutIs
<1>3. \A i, j \in 1..Len(l) : l[i] = l[j] => i = j
  BY LenProperties DEF IsInjective
<1> HIDE DEF p, w
<1>4. \A i, j \in 1..(Len(l) - 1) : w[i] = w[j] => i = j
  BY <1>1, <1>2, <1>3
<1>5. IsInjective(w)
  BY <1>2, <1>4, LenProperties DEF IsInjective
<1>6. ASSUME NEW d, Contains(w, d)
      PROVE  Contains(l, d) /\ d # c
  <2>1. PICK i \in 1..(Len(l) - 1) : w[i] = d
    BY <1>6, <1>2 DEF Contains
  <2>2. i \in 1..Len(l) /\ i + 1 \in 1..Len(l)
    BY <1>1
  <2> QED BY <2>1, <2>2, <1>1, <1>2, <1>3 DEF Contains
<1>7. ASSUME NEW d, Contains(l, d), d # c
      PROVE  Contains(w, d)
  <2>1. PICK i \in 1..Len(l) : l[i] = d
    BY <1>7 DEF Contains
  <2>2. i # p
    BY <2>1, <1>1, <1>7
  <2>3. CASE i < p
    <3>1. i \in 1..(Len(l) - 1) /\ w[i] = d
      BY <2>1, <2>3, <1>1, <1>2
    <3> QED BY <3>1, <1>2 DEF Contains
  <2>4. CASE i > p
    <3>1. i - 1 \in 1..(Len(l) - 1) /\ w[i - 1] = d
      BY <2>1, <2>4, <1>1, <1>2
    <3> QED BY <3>1, <1>2 DEF Contains
  <2> QED BY <2>2, <2>3, <2>4, <1>1
<1> QED BY <1>5, <1>6, <1>7 DEF w

LEMMA WithoutOrder ==
    ASSUME NEW l \in Seq(Clients), IsInjective(l), NEW h, Contains(l, h),
           NEW c, Contains(l, c), c # h, NEW d, Contains(l, d), d # h
    PROVE  Place(c, Without(h, l)) < Place(d, Without(h, l)) <=> Place(c, l) < Place(d, l)
<1> DEFINE w == Without(h, l)
           p == Place(h, l)
<1>1. p \in 1..Len(l) /\ Len(l) \in Nat /\ l[p] = h
  BY PlaceIs, LenProperties
<1>2. /\ w \in Seq(Clients) /\ Len(w) = Len(l) - 1
      /\ \A i \in 1..(Len(l) - 1) : w[i] = IF i < p THEN l[i] ELSE l[i + 1]
  BY WithoutIs
<1>3. IsInjective(w)
  BY WithoutKeeps
<1>4. ASSUME NEW e, Contains(l, e), e # h
      PROVE  /\ Place(e, l) \in 1..Len(l)
             /\ Place(e, l) # p
             /\ Place(e, w) = IF Place(e, l) < p THEN Place(e, l) ELSE Place(e, l) - 1
  <2> DEFINE q == Place(e, l)
  <2>1. q \in 1..Len(l) /\ l[q] = e
    BY <1>4, PlaceIs
  <2> HIDE DEF w, p, q
  <2>2. q # p
    BY <2>1, <1>1, <1>4
  <2>3. CASE q < p
    <3>1. q \in 1..Len(w) /\ w[q] = e
      BY <2>1, <2>3, <1>1, <1>2
    <3>2. Place(w[q], w) = q
      BY <3>1, <1>2, <1>3, PlaceOf
    <3> QED BY <3>1, <3>2, <2>1, <2>2, <2>3 DEF q
  <2>4. CASE q > p
    <3>1. q - 1 \in 1..Len(w) /\ w[q - 1] = e
      BY <2>1, <2>4, <1>1, <1>2
    <3>2. Place(w[q - 1], w) = q - 1
      BY <3>1, <1>2, <1>3, PlaceOf
    <3> QED BY <3>1, <3>2, <2>1, <2>2, <2>4, <1>1 DEF q
  <2> QED BY <2>1, <2>2, <2>3, <2>4, <1>1
<1> HIDE DEF w, p
<1>5. /\ Place(c, l) \in 1..Len(l) /\ Place(c, l) # p
      /\ Place(c, w) = IF Place(c, l) < p THEN Place(c, l) ELSE Place(c, l) - 1
  BY <1>4
<1>6. /\ Place(d, l) \in 1..Len(l) /\ Place(d, l) # p
      /\ Place(d, w) = IF Place(d, l) < p THEN Place(d, l) ELSE Place(d, l) - 1
  BY <1>4
<1>7. Place(c, w) < Place(d, w) <=> Place(c, l) < Place(d, l)
  BY <1>1, <1>5, <1>6
<1> QED BY <1>7 DEF w

(* The first to whom a frame of h goes, and the next after h2.               *)
LEMMA FirstOther ==
    ASSUME NEW l \in Seq(Clients), IsInjective(l), NEW h, Contains(l, h), NEW n,
           n = First(Without(h, l))
    PROVE  \/ n = NULL /\ \A c : Contains(l, c) => c = h
           \/ /\ n \in Clients /\ Contains(l, n) /\ n # h
              /\ \A c : Contains(l, c) /\ c # h => ~(Place(c, l) < Place(n, l))
<1> DEFINE w == Without(h, l)
<1>1. w \in Seq(Clients) /\ IsInjective(w) /\ \A d : Contains(w, d) <=> Contains(l, d) /\ d # h
  BY WithoutIs, WithoutKeeps
<1>2. CASE w = <<>> /\ n = NULL
  <2>1. \A d : ~Contains(w, d)
    BY <1>2, <1>1, EmptySeq DEF Contains
  <2> QED BY <2>1, <1>1, <1>2
<1>3. CASE Len(w) > 0 /\ n = w[1] /\ n \in Clients
  <2>1. 1 \in 1..Len(w)
    BY <1>1, <1>3, LenProperties
  <2>2. Contains(w, n) /\ Place(n, w) = 1
    BY <2>1, <1>1, <1>3, PlaceOf
  <2>3. ASSUME NEW c, Contains(l, c), c # h
        PROVE  ~(Place(c, l) < Place(n, l))
    <3>1. Contains(w, c)
      BY <2>3, <1>1
    <3>2. Place(c, w) \in 1..Len(w)
      BY <3>1, <1>1, PlaceIs
    <3>3. ~(Place(c, w) < Place(n, w))
      BY <3>2, <2>2, <1>1, LenProperties
    <3> QED BY <3>3, <2>2, <2>3, <1>1, WithoutOrder
  <2> QED BY <2>2, <2>3, <1>1, <1>3
<1> QED BY <1>1, <1>2, <1>3, FirstIs

LEMMA NextOther ==
    ASSUME NEW l \in Seq(Clients), IsInjective(l), NEW h, Contains(l, h),
           NEW h2, Contains(l, h2), h2 # h, NEW n, n = After(h2, Without(h, l))
    PROVE  \/ /\ n = NULL
              /\ \A c : Contains(l, c) /\ c # h => Place(c, l) < Place(h2, l) \/ c = h2
           \/ /\ n \in Clients /\ Contains(l, n) /\ n # h
              /\ \A c : Contains(l, c) /\ c # h =>
                    (Place(c, l) < Place(n, l) <=> Place(c, l) < Place(h2, l) \/ c = h2)
<1> DEFINE w == Without(h, l)
           q == Place(h2, w)
<1>1. w \in Seq(Clients) /\ IsInjective(w) /\ \A d : Contains(w, d) <=> Contains(l, d) /\ d # h
  BY WithoutIs, WithoutKeeps
<1>2. q \in 1..Len(w) /\ w[q] = h2 /\ Len(w) \in Nat
  BY <1>1, PlaceIs, LenProperties
<1>3. ASSUME NEW c, Contains(l, c), c # h
      PROVE  /\ Place(c, w) \in 1..Len(w) /\ w[Place(c, w)] = c
             /\ Place(c, w) < q <=> Place(c, l) < Place(h2, l)
             /\ Place(c, w) = q <=> c = h2
  <2>1. Place(c, w) \in 1..Len(w) /\ w[Place(c, w)] = c
    BY <1>1, <1>3, PlaceIs
  <2>2. Place(c, w) < q <=> Place(c, l) < Place(h2, l)
    BY <1>3, WithoutOrder
  <2>3. Place(c, w) = q <=> c = h2
    BY <2>1, <1>2
  <2> QED BY <2>1, <2>2, <2>3
<1>4. \/ q = Len(w) /\ n = NULL
      \/ q + 1 \in 1..Len(w) /\ n = w[q + 1] /\ n \in Clients
  BY <1>1, AfterIs
<1> HIDE DEF q
<1>5. CASE q = Len(w) /\ n = NULL
  <2>1. ASSUME NEW c, Contains(l, c), c # h
        PROVE  Place(c, l) < Place(h2, l) \/ c = h2
    <3> DEFINE x == Place(c, w)
    <3>1. /\ x \in 1..Len(w)
          /\ x < q <=> Place(c, l) < Place(h2, l)
          /\ x = q <=> c = h2
      BY <1>3, <2>1
    <3> HIDE DEF x
    <3>2. x < q \/ x = q
      BY <3>1, <1>2, <1>5
    <3> QED BY <3>1, <3>2
  <2> QED BY <2>1, <1>5
<1>6. CASE q + 1 \in 1..Len(w) /\ n = w[q + 1] /\ n \in Clients
  <2>1. Contains(w, n) /\ Place(n, w) = q + 1
    BY <1>1, <1>6, PlaceOf
  <2>2. Contains(l, n) /\ n # h
    BY <2>1, <1>1
  <2>3. ASSUME NEW c, Contains(l, c), c # h
        PROVE  Place(c, l) < Place(n, l) <=> Place(c, l) < Place(h2, l) \/ c = h2
    <3> DEFINE x == Place(c, w)
    <3>1. /\ x \in 1..Len(w)
          /\ x < q <=> Place(c, l) < Place(h2, l)
          /\ x = q <=> c = h2
      BY <1>3, <2>3
    <3>2. x < q + 1 <=> Place(c, l) < Place(n, l)
      BY <2>1, <2>2, <2>3, WithoutOrder
    <3> HIDE DEF x
    <3>3. x < q + 1 <=> x < q \/ x = q
      BY <3>1, <1>2
    <3> QED BY <3>1, <3>2, <3>3
  <2> QED BY <2>2, <2>3, <1>6
<1> QED BY <1>4, <1>5, <1>6

LEMMA AppendIs ==
    ASSUME NEW l \in Seq(Clients), NEW c \in Clients
    PROVE  /\ Append(l, c) \in Seq(Clients)
           /\ \A d : Contains(Append(l, c), d) <=> Contains(l, d) \/ d = c
           /\ IsInjective(l) /\ ~Contains(l, c) => IsInjective(Append(l, c))
<1> DEFINE m == Append(l, c)
<1>1. /\ m \in Seq(Clients) /\ Len(m) = Len(l) + 1 /\ Len(l) \in Nat
      /\ \A i \in 1..Len(l) : m[i] = l[i]
      /\ m[Len(l) + 1] = c
  BY AppendProperties, LenProperties
<1> HIDE DEF m
<1>2. \A i \in 1..Len(m) : i \in 1..Len(l) \/ i = Len(l) + 1
  BY <1>1
<1>3. \A d : Contains(m, d) <=> Contains(l, d) \/ d = c
  BY <1>1, <1>2 DEF Contains
<1>4. ASSUME IsInjective(l), ~Contains(l, c)
      PROVE  IsInjective(m)
  <2>1. \A i, j \in 1..Len(l) : l[i] = l[j] => i = j
    BY <1>4, LenProperties DEF IsInjective
  <2>2. \A i \in 1..Len(l) : l[i] # c
    BY <1>4 DEF Contains
  <2>3. \A i, j \in 1..Len(m) : m[i] = m[j] => i = j
    BY <2>1, <2>2, <1>1, <1>2
  <2> QED BY <2>3, <1>1, LenProperties DEF IsInjective
<1> QED BY <1>1, <1>3, <1>4 DEF m

LEMMA TailIs ==
    ASSUME NEW l \in Seq(Clients), l # <<>>
    PROVE  /\ Head(l) \in Clients /\ Tail(l) \in Seq(Clients)
           /\ Len(Tail(l)) <= Len(l)
           /\ \A d : Contains(l, d) <=> Contains(Tail(l), d) \/ d = Head(l)
           /\ IsInjective(l) => IsInjective(Tail(l)) /\ ~Contains(Tail(l), Head(l))
<1> DEFINE t == Tail(l)
           x == Head(l)
<1>1. /\ x \in Clients /\ t \in Seq(Clients)
      /\ Len(t) = Len(l) - 1 /\ Len(l) \in Nat \ {0}
      /\ \A i \in 1..Len(t) : t[i] = l[i + 1]
      /\ x = l[1]
  BY HeadTailProperties, EmptySeq
<1> HIDE DEF t, x
<1>2. /\ \A i \in 1..Len(t) : i + 1 \in 1..Len(l)
      /\ \A i \in 1..Len(l) : i = 1 \/ (i - 1 \in 1..Len(t) /\ l[i] = t[i - 1])
      /\ 1 \in 1..Len(l)
  BY <1>1
<1>3. \A d : Contains(l, d) <=> Contains(t, d) \/ d = x
  BY <1>1, <1>2 DEF Contains
<1>4. ASSUME IsInjective(l)
      PROVE  IsInjective(t) /\ ~Contains(t, x)
  <2>1. \A i, j \in 1..Len(l) : l[i] = l[j] => i = j
    BY <1>4, LenProperties DEF IsInjective
  <2>2. \A i, j \in 1..Len(t) : t[i] = t[j] => i = j
    BY <2>1, <1>1, <1>2
  <2>3. \A i \in 1..Len(t) : t[i] # x
    BY <2>1, <1>1, <1>2
  <2> QED BY <2>2, <2>3, <1>1, LenProperties DEF IsInjective, Contains
<1> QED BY <1>1, <1>3, <1>4 DEF t, x

LEMMA AfterIn ==
    ASSUME NEW l \in Seq(Clients), NEW h, Contains(l, h)
    PROVE  After(h, l) = NULL \/ (After(h, l) \in Clients /\ Contains(l, After(h, l)))
BY AfterIs DEF Contains

LEMMA FirstIn ==
    ASSUME NEW l \in Seq(Clients)
    PROVE  First(l) = NULL \/ (First(l) \in Clients /\ Contains(l, First(l)))
<1>1. CASE Len(l) > 0 /\ First(l) = l[1] /\ First(l) \in Clients
  BY <1>1, LenProperties DEF Contains
<1> QED BY <1>1, FirstIs

-----------------------------------------------------------------------------
(* The main thread goes on to a client of the list, or sleeps.               *)
LEMMA WalkStep ==
    ASSUME NEW h, Walk(h), h = NULL \/ (h \in Clients /\ Contains(list', h))
    PROVE  LoopInv' /\ main'.pc # "send"
<1>1. CASE main' = Asleep /\ locked' = FALSE
  BY <1>1 DEF Asleep, LoopInv, WalkSound
<1>2. CASE h # NULL /\ main' = [pc |-> "recv", h |-> h, h2 |-> NULL] /\ locked' = TRUE
  BY <1>2 DEF LoopInv, WalkSound
<1> QED BY <1>1, <1>2 DEF Walk, WalkEnds

LEMMA ForwardStep ==
    ASSUME NEW h \in Clients, Contains(list, h), list \in Seq(Clients), list' = list,
           locked = TRUE, bus' # <<>>, NEW h2, Forward(h, h2),
           h2 = NULL \/ (h2 \in Clients /\ Contains(list, h2) /\ h2 # h)
    PROVE  /\ LoopInv'
           /\ \/ h2 = NULL /\ main'.pc # "send"
              \/ h2 # NULL /\ main' = [pc |-> "send", h |-> h, h2 |-> h2]
<1>1. CASE h2 = NULL /\ Walk(After(h, list))
  <2>1. \/ After(h, list) = NULL
        \/ After(h, list) \in Clients /\ Contains(list', After(h, list))
    BY AfterIn
  <2> QED BY <2>1, <1>1, WalkStep
<1>2. CASE /\ h2 # NULL /\ main' = [pc |-> "send", h |-> h, h2 |-> h2]
           /\ UNCHANGED locked
  BY <1>2 DEF LoopInv, WalkSound
<1> QED BY <1>1, <1>2 DEF Forward

-----------------------------------------------------------------------------
LEMMA InitBase == BroadcastInit => BaseInv
<1> SUFFICES ASSUME BroadcastInit PROVE BaseInv
  OBVIOUS
<1>1. \A c : ~Contains(<<>>, c)
  BY EmptySeq DEF Contains
<1>2. PlacesInv
  BY <1>1, EmptySeq DEF BroadcastInit, PlacesInv, IsInjective, NULL, Clients
<1>3. LoopInv
  BY DEF BroadcastInit, Asleep, LoopInv, WalkSound
<1>4. StreamsInv
  <2>1. Len(bus) = 0 /\ bus \in Seq(Frame) /\ \A S : <<>> \in Seq(S)
    BY EmptySeq DEF BroadcastInit
  <2> QED BY <2>1, BoundsAssumption DEF BroadcastInit, StreamsInv
<1> QED BY <1>2, <1>3, <1>4, EmptySeq, BoundsAssumption DEF BaseInv, BroadcastInit

(* Two of the three parts do not change in most steps.                       *)
LEMMA PlacesKept ==
    ASSUME PlacesInv, list' = list, waiting' = waiting, accepted' = accepted,
           conn' \in [Clients -> {"off", "on", "closed", "reset", "gone"}],
           \A c \in Clients : conn'[c] = "off" => conn[c] = "off"
    PROVE  PlacesInv'
BY DEF PlacesInv

LEMMA LoopKept ==
    ASSUME LoopInv, list' = list, main' = main, locked' = locked, bus' = bus
    PROVE  LoopInv'
BY DEF LoopInv, WalkSound

LEMMA StreamsKept ==
    ASSUME StreamsInv, put' = put, taken' = taken, unread' = unread, bus' = bus,
           heard' = heard, joined' = joined, cut' = cut, torn' = torn
    PROVE  StreamsInv'
BY DEF StreamsInv

LEMMA ConnectBase ==
    ASSUME BaseInv, NEW c \in Clients, Connect(c)
    PROVE  BaseInv'
<1>1. /\ conn[c] = "off" /\ conn' = [conn EXCEPT ![c] = "on"]
      /\ Len(waiting) < CAN_BUS_NODE_MAX /\ waiting' = Append(waiting, c)
      /\ list' = list /\ accepted' = accepted /\ main' = main /\ locked' = locked
  BY DEF Connect, server
<1>2. /\ waiting' \in Seq(Clients) /\ IsInjective(waiting')
      /\ \A d : Contains(waiting', d) <=> Contains(waiting, d) \/ d = c
  BY <1>1, AppendIs DEF BaseInv, PlacesInv
<1>3. PlacesInv'
  BY <1>1, <1>2 DEF BaseInv, PlacesInv
<1>4. LoopInv' /\ StreamsInv'
  BY <1>1, LoopKept, StreamsKept DEF BaseInv, Connect, server, streams, sockets
<1>5. Len(waiting') <= CAN_BUS_NODE_MAX
  <2>1. Len(waiting') = Len(waiting) + 1 /\ Len(waiting) \in Nat
    BY <1>1, AppendProperties, LenProperties DEF BaseInv, PlacesInv
  <2>2. CAN_BUS_NODE_MAX \in Nat
    BY BoundsAssumption
  <2> QED BY <2>1, <2>2, <1>1
<1> QED BY <1>3, <1>4, <1>5 DEF BaseInv

LEMMA ClientBase ==
    ASSUME BaseInv, NEW c \in Clients, Client(c)
    PROVE  BaseInv'
<1>1. ASSUME SendsPart(c) PROVE BaseInv'
  <2>1. /\ put' = [put EXCEPT ![c] = @ + 1] /\ UNCHANGED <<taken, bus, torn>>
        /\ UNCHANGED <<unread, heard, cut, joined>>
    BY <1>1 DEF SendsPart, server, sockets
  <2>2. StreamsInv'
    BY <2>1 DEF BaseInv, StreamsInv
  <2> QED BY <1>1, <2>2, PlacesKept, LoopKept
          DEF SendsPart, server, BaseInv, PlacesInv
<1>2. ASSUME Reads(c) PROVE BaseInv'
  <2>1. /\ unread' = [unread EXCEPT ![c] = @ - 1] /\ unread[c] > 0
        /\ UNCHANGED <<put, taken, bus, torn, heard, cut, joined>>
    BY <1>2 DEF Reads, server, streams
  <2>2. StreamsInv'
    BY <2>1, BoundsAssumption DEF BaseInv, StreamsInv
  <2> QED BY <1>2, <2>2, PlacesKept, LoopKept
          DEF Reads, server, streams, BaseInv, PlacesInv
<1>3. ASSUME Leaves(c) PROVE BaseInv'
  <2>1. /\ conn' \in [Clients -> {"off", "on", "closed", "reset", "gone"}]
        /\ \A d \in Clients : conn'[d] = "off" => conn[d] = "off"
    BY <1>3 DEF Leaves, BaseInv, PlacesInv
  <2> QED BY <1>3, <2>1, PlacesKept, LoopKept, StreamsKept
          DEF Leaves, server, streams, sockets, BaseInv
<1> QED BY <1>1, <1>2, <1>3, ConnectBase DEF Client

LEMMA AcceptBase ==
    ASSUME BaseInv, Accept
    PROVE  BaseInv'
<1>1. /\ waiting # <<>> /\ waiting' = Tail(waiting) /\ accepted' = Head(waiting)
      /\ UNCHANGED <<list, locked, main, joined, conn>>
  BY DEF Accept
<1>2. /\ Head(waiting) \in Clients /\ Tail(waiting) \in Seq(Clients)
      /\ Len(Tail(waiting)) <= Len(waiting)
      /\ \A d : Contains(waiting, d) <=> Contains(Tail(waiting), d) \/ d = Head(waiting)
      /\ IsInjective(Tail(waiting)) /\ ~Contains(Tail(waiting), Head(waiting))
  BY <1>1, TailIs DEF BaseInv, PlacesInv
<1>3. PlacesInv'
  BY <1>1, <1>2 DEF BaseInv, PlacesInv
<1>4. LoopInv' /\ StreamsInv'
  BY <1>1, LoopKept, StreamsKept DEF BaseInv, Accept, streams, sockets
<1>5. Len(waiting') <= CAN_BUS_NODE_MAX
  <2>1. Len(waiting) \in Nat /\ Len(Tail(waiting)) \in Nat /\ CAN_BUS_NODE_MAX \in Nat
    BY <1>2, LenProperties, BoundsAssumption DEF BaseInv, PlacesInv
  <2> QED BY <2>1, <1>1, <1>2 DEF BaseInv
<1> QED BY <1>3, <1>4, <1>5 DEF BaseInv

LEMMA InsertBase ==
    ASSUME BaseInv, Insert
    PROVE  /\ BaseInv'
           /\ accepted \in Clients /\ main.pc = "sleep" /\ main' = main
           /\ \A d : Contains(list', d) <=> Contains(list, d) \/ d = accepted
<1>1. /\ accepted # NULL /\ ~locked /\ list' = Append(list, accepted)
      /\ joined' = [joined EXCEPT ![accepted] = Len(bus)] /\ accepted' = NULL
      /\ UNCHANGED <<locked, main, waiting, conn>>
  BY DEF Insert, LockTaken, AcceptedNext
<1>2. accepted \in Clients /\ main.pc = "sleep"
  BY <1>1 DEF BaseInv, PlacesInv, LoopInv, WalkSound
<1>3. /\ list' \in Seq(Clients) /\ IsInjective(list')
      /\ \A d : Contains(list', d) <=> Contains(list, d) \/ d = accepted
  BY <1>1, <1>2, AppendIs DEF BaseInv, PlacesInv
<1>4. NULL \notin Clients
  BY BoundsAssumption DEF NULL, Clients
<1>5. PlacesInv'
  BY <1>1, <1>2, <1>3, <1>4 DEF BaseInv, PlacesInv
<1>6. LoopInv'
  BY <1>1, <1>2, <1>3 DEF BaseInv, LoopInv, WalkSound, Insert, streams
<1>7. StreamsInv'
  <2>1. Len(bus) \in 0..Len(bus)
    BY LenProperties DEF BaseInv, StreamsInv
  <2> QED BY <2>1, <1>1 DEF BaseInv, StreamsInv, Insert, streams, sockets
<1> QED BY <1>1, <1>2, <1>3, <1>5, <1>6, <1>7 DEF BaseInv

(* The main thread's steps, each with where it leads.                        *)
LEMMA AtHandle ==
    ASSUME BaseInv, main.pc # "sleep"
    PROVE  /\ locked = TRUE /\ main.h \in Clients /\ Contains(list, main.h)
           /\ list \in Seq(Clients) /\ IsInjective(list)
BY DEF BaseInv, LoopInv, WalkSound, PlacesInv, Contains

LEMMA BeginBase ==
    ASSUME BaseInv, Begin
    PROVE  BaseInv' /\ main'.pc # "send"
<1>1. /\ Walk(First(list))
      /\ UNCHANGED <<list, accepted, joined, waiting, conn, streams, sockets>>
  BY DEF Begin
<1>2. First(list) = NULL \/ (First(list) \in Clients /\ Contains(list', First(list)))
  BY <1>1, FirstIn DEF BaseInv, PlacesInv
<1>3. LoopInv' /\ main'.pc # "send"
  BY <1>1, <1>2, WalkStep
<1>4. PlacesInv' /\ StreamsInv' /\ Len(waiting') <= CAN_BUS_NODE_MAX
  BY <1>1, PlacesKept, StreamsKept DEF BaseInv, PlacesInv, streams, sockets
<1> QED BY <1>3, <1>4 DEF BaseInv

LEMMA WalkOn ==
    ASSUME BaseInv, NEW h, Receiving(h), Walk(After(h, list)), list' = list
    PROVE  LoopInv' /\ main'.pc # "send"
<1>1. Contains(list, h) /\ list \in Seq(Clients)
  BY AtHandle DEF Receiving
<1> QED BY <1>1, AfterIn, WalkStep

LEMMA RecvNothingBase ==
    ASSUME BaseInv, NEW h \in Clients, RecvNothing(h)
    PROVE  BaseInv' /\ main'.pc # "send"
<1>1. /\ Receiving(h) /\ Walk(After(h, list))
      /\ UNCHANGED <<list, accepted, joined, waiting, conn, streams, sockets>>
  BY DEF RecvNothing, WhenNothing
<1>2. LoopInv' /\ main'.pc # "send"
  BY <1>1, WalkOn
<1>3. PlacesInv' /\ StreamsInv' /\ Len(waiting') <= CAN_BUS_NODE_MAX
  BY <1>1, PlacesKept, StreamsKept DEF BaseInv, PlacesInv, streams, sockets
<1> QED BY <1>2, <1>3 DEF BaseInv

LEMMA RecvPartBase ==
    ASSUME BaseInv, NEW h \in Clients, RecvPart(h)
    PROVE  BaseInv' /\ main'.pc # "send"
<1>1. /\ Receiving(h) /\ Walk(After(h, list)) /\ put[h] - taken[h] = 1
      /\ taken' = [taken EXCEPT ![h] = @ + 1] /\ torn' = torn \union {h}
      /\ UNCHANGED <<list, accepted, joined, waiting, conn, put, bus, sockets>>
  BY DEF RecvPart, Readable
<1>2. LoopInv' /\ main'.pc # "send"
  BY <1>1, WalkOn
<1>3. PlacesInv' /\ Len(waiting') <= CAN_BUS_NODE_MAX
  BY <1>1, PlacesKept DEF BaseInv, PlacesInv
<1>4. StreamsInv'
  BY <1>1 DEF BaseInv, StreamsInv, sockets
<1> QED BY <1>2, <1>3, <1>4 DEF BaseInv

LEMMA RemoveStep ==
    ASSUME PlacesInv, NEW c \in Clients, Contains(list, c), RemoveSocket(c),
           waiting' = waiting, accepted' = accepted
    PROVE  PlacesInv' /\ \A d : Contains(list', d) <=> Contains(list, d) /\ d # c
<1>1. /\ list' \in Seq(Clients) /\ IsInjective(list')
      /\ \A d : Contains(list', d) <=> Contains(list, d) /\ d # c
  BY WithoutIs, WithoutKeeps DEF PlacesInv, RemoveSocket
<1>2. /\ conn' \in [Clients -> {"off", "on", "closed", "reset", "gone"}]
      /\ \A d \in Clients : conn'[d] = "off" => conn[d] = "off"
  BY DEF PlacesInv, RemoveSocket
<1> QED BY <1>1, <1>2 DEF PlacesInv

LEMMA RecvFailsBase ==
    ASSUME BaseInv, NEW h \in Clients, RecvFails(h)
    PROVE  /\ BaseInv' /\ main'.pc # "send" /\ main.pc # "send"
           /\ \A d : Contains(list', d) => Contains(list, d)
<1>1. /\ Receiving(h) /\ RemoveSocket(h) /\ WalkEnds
      /\ UNCHANGED <<accepted, joined, waiting, streams, sockets>>
  BY DEF RecvFails
<1>2. Contains(list, h) /\ main.pc # "send"
  BY <1>1, AtHandle DEF Receiving
<1>3. PlacesInv' /\ \A d : Contains(list', d) <=> Contains(list, d) /\ d # h
  BY <1>1, <1>2, RemoveStep DEF BaseInv
<1>4. LoopInv' /\ main'.pc # "send"
  BY <1>1 DEF WalkEnds, Asleep, LoopInv, WalkSound
<1>5. StreamsInv' /\ Len(waiting') <= CAN_BUS_NODE_MAX
  BY <1>1, StreamsKept DEF BaseInv, streams, sockets
<1> QED BY <1>2, <1>3, <1>4, <1>5 DEF BaseInv

LEMMA SendFailsBase ==
    ASSUME BaseInv, NEW h \in Clients, NEW h2 \in Clients, SendFails(h, h2)
    PROVE  /\ BaseInv' /\ main'.pc # "send"
           /\ \A d : Contains(list', d) => Contains(list, d)
<1>1. /\ Sending(h, h2) /\ RemoveSocket(h2) /\ Walk(After(h, list'))
      /\ cut' = cut \union {Len(bus)}
      /\ UNCHANGED <<accepted, joined, waiting, streams, unread, heard>>
  BY DEF SendFails, AfterRemoval
<1>2. Contains(list, h) /\ Contains(list, h2) /\ h2 # h
  BY <1>1, AtHandle DEF Sending, BaseInv, LoopInv, WalkSound
<1>3. PlacesInv' /\ \A d : Contains(list', d) <=> Contains(list, d) /\ d # h2
  BY <1>1, <1>2, RemoveStep DEF BaseInv
<1>4. LoopInv' /\ main'.pc # "send"
  <2>1. list' \in Seq(Clients) /\ Contains(list', h)
    BY <1>2, <1>3 DEF PlacesInv
  <2>2. After(h, list') = NULL \/ (After(h, list') \in Clients /\ Contains(list', After(h, list')))
    BY <2>1, AfterIn
  <2> QED BY <2>2, <1>1, WalkStep
<1>5. StreamsInv' /\ Len(waiting') <= CAN_BUS_NODE_MAX
  <2>1. Len(bus) \in DOMAIN bus
    BY <1>1, EmptySeq, LenProperties DEF BaseInv, StreamsInv, LoopInv, Sending
  <2> QED BY <2>1, <1>1 DEF BaseInv, StreamsInv, streams
<1> QED BY <1>3, <1>4, <1>5 DEF BaseInv

LEMMA SeqGrows ==
    ASSUME NEW S, NEW T, S \subseteq T, NEW s \in Seq(S)
    PROVE  s \in Seq(T)
<1>1. Len(s) \in Nat /\ s \in [1..Len(s) -> S]
  BY LenProperties
<1>2. \A i \in 1..Len(s) : s[i] \in T
  BY <1>1
<1>3. [i \in 1..Len(s) |-> s[i]] \in Seq(T)
  BY <1>1, <1>2, IsASeq
<1> QED BY <1>1, <1>3

(* The whole list is searched before the frame is: a frame is first sent to  *)
(* the first of the others, if there is one.                                 *)
LEMMA RecvFrameBase ==
    ASSUME BaseInv, NEW h \in Clients, RecvFrame(h)
    PROVE  /\ BaseInv' /\ list' = list
           /\ Contains(list, h) /\ main.pc = "recv"
           /\ Len(bus') = Len(bus) + 1 /\ Len(bus) \in Nat
           /\ bus'[Len(bus) + 1] = [from |-> h, part |-> taken[h] + 1]
           /\ \A i \in 1..Len(bus) : bus'[i] = bus[i]
           /\ taken' = [taken EXCEPT ![h] = @ + 2]
           /\ \/ /\ main'.pc # "send"
                 /\ \A c : Contains(list, c) => c = h
              \/ \E n \in Clients :
                    /\ main' = [pc |-> "send", h |-> h, h2 |-> n]
                    /\ \A c : Contains(list, c) /\ c # h => ~(Place(c, list) < Place(n, list))
<1> DEFINE f == [from |-> h, part |-> taken[h] + 1]
           n == First(Others(h))
<1>1. /\ Receiving(h) /\ put[h] - taken[h] >= 2
      /\ bus' = Append(bus, f) /\ Forward(h, n)
      /\ UNCHANGED <<list, accepted, joined, waiting, conn, put, torn, sockets>>
  BY DEF RecvFrame, IsFrame, Readable
<1>2. taken' = [taken EXCEPT ![h] = @ + 2]
  <2>1. Readable(h) > 1
    BY <1>1 DEF Readable, BaseInv, StreamsInv
  <2> QED BY <2>1 DEF RecvFrame
<1>3. /\ Contains(list, h) /\ list \in Seq(Clients) /\ IsInjective(list) /\ locked = TRUE
      /\ main.pc = "recv"
  BY <1>1, AtHandle DEF Receiving
<1>4. f \in Frame /\ f.from = h /\ f.part = taken[h] + 1
  BY DEF Frame, BaseInv, StreamsInv
<1> HIDE DEF f
<1>5. /\ bus' \in Seq(Frame) /\ Len(bus') = Len(bus) + 1 /\ Len(bus) \in Nat
      /\ bus'[Len(bus) + 1] = f
      /\ \A i \in 1..Len(bus) : bus'[i] = bus[i]
      /\ DOMAIN bus = 1..Len(bus) /\ DOMAIN bus' = 1..(Len(bus) + 1)
  BY <1>1, <1>4, AppendProperties, LenProperties DEF BaseInv, StreamsInv
<1>6. bus' # <<>>
  BY <1>5, EmptySeq
<1>7. \/ n = NULL /\ \A c : Contains(list, c) => c = h
      \/ /\ n \in Clients /\ Contains(list, n) /\ n # h
         /\ \A c : Contains(list, c) /\ c # h => ~(Place(c, list) < Place(n, list))
  BY <1>3, FirstOther DEF Others
<1> HIDE DEF n
<1>8. LoopInv' /\ \/ n = NULL /\ main'.pc # "send"
                  \/ n # NULL /\ main' = [pc |-> "send", h |-> h, h2 |-> n]
  BY <1>1, <1>3, <1>6, <1>7, ForwardStep
<1>9. StreamsInv'
  <2>1. DOMAIN bus \subseteq DOMAIN bus' /\ 0..Len(bus) \subseteq 0..Len(bus')
    BY <1>5
  <2>2. heard' \in [Clients -> Seq(DOMAIN bus')] /\ joined' \in [Clients -> 0..Len(bus')]
    BY <2>1, <1>1, SeqGrows DEF BaseInv, StreamsInv, sockets
  <2>3. /\ taken' \in [Clients -> Nat] /\ put' \in [Clients -> Nat]
        /\ \A c \in Clients : taken'[c] <= put'[c]
    BY <1>1, <1>2 DEF BaseInv, StreamsInv
  <2> QED BY <2>1, <2>2, <2>3, <1>1, <1>5 DEF BaseInv, StreamsInv, sockets
<1>10. PlacesInv' /\ Len(waiting') <= CAN_BUS_NODE_MAX
  BY <1>1, PlacesKept DEF BaseInv, PlacesInv
<1>11. BaseInv'
  BY <1>8, <1>9, <1>10 DEF BaseInv
<1>12. NULL \notin Clients
  BY DEF NULL, Clients
<1>13. \/ main'.pc # "send" /\ \A c : Contains(list, c) => c = h
       \/ \E m \in Clients :
             /\ main' = [pc |-> "send", h |-> h, h2 |-> m]
             /\ \A c : Contains(list, c) /\ c # h => ~(Place(c, list) < Place(m, list))
  BY <1>7, <1>8, <1>12
<1> QED BY <1>1, <1>2, <1>3, <1>5, <1>11, <1>13 DEF f

(* A frame then goes to the next of the others.                              *)
LEMMA SendFrameBase ==
    ASSUME BaseInv, NEW h \in Clients, NEW h2 \in Clients, SendFrame(h, h2)
    PROVE  /\ BaseInv' /\ list' = list /\ bus' = bus /\ joined' = joined
           /\ Contains(list, h) /\ Contains(list, h2) /\ h2 # h
           /\ main.pc = "send" /\ main.h = h /\ main.h2 = h2 /\ bus # <<>>
           /\ heard' = [heard EXCEPT ![h2] = Append(@, Len(bus))]
           /\ \/ /\ main'.pc # "send"
                 /\ \A c : Contains(list, c) /\ c # h =>
                       Place(c, list) < Place(h2, list) \/ c = h2
              \/ \E n \in Clients :
                    /\ main' = [pc |-> "send", h |-> h, h2 |-> n]
                    /\ \A c : Contains(list, c) /\ c # h =>
                          (Place(c, list) < Place(n, list) <=>
                              Place(c, list) < Place(h2, list) \/ c = h2)
<1> DEFINE n == After(h2, Others(h))
<1>1. /\ Sending(h, h2) /\ ~Fails(h2) /\ Forward(h, n)
      /\ heard' = [heard EXCEPT ![h2] = Append(@, Len(bus))]
      /\ unread' = [unread EXCEPT ![h2] = @ + 1]
      /\ UNCHANGED <<list, accepted, joined, waiting, streams, cut>>
  BY DEF SendFrame
<1>2. /\ Contains(list, h) /\ Contains(list, h2) /\ h2 # h /\ bus # <<>>
      /\ list \in Seq(Clients) /\ IsInjective(list) /\ locked = TRUE
      /\ main.pc = "send" /\ main.h = h /\ main.h2 = h2
  BY <1>1, AtHandle DEF Sending, BaseInv, LoopInv, WalkSound
<1>3. \/ /\ n = NULL
         /\ \A c : Contains(list, c) /\ c # h => Place(c, list) < Place(h2, list) \/ c = h2
      \/ /\ n \in Clients /\ Contains(list, n) /\ n # h
         /\ \A c : Contains(list, c) /\ c # h =>
               (Place(c, list) < Place(n, list) <=> Place(c, list) < Place(h2, list) \/ c = h2)
  BY <1>2, NextOther DEF Others
<1> HIDE DEF n
<1>4. bus' # <<>>
  BY <1>1, <1>2 DEF streams
<1>5. LoopInv' /\ \/ n = NULL /\ main'.pc # "send"
                  \/ n # NULL /\ main' = [pc |-> "send", h |-> h, h2 |-> n]
  BY <1>1, <1>2, <1>3, <1>4, ForwardStep
<1>6. PlacesInv' /\ Len(waiting') <= CAN_BUS_NODE_MAX
  <2>1. /\ conn' \in [Clients -> {"off", "on", "closed", "reset", "gone"}]
        /\ \A c \in Clients : conn'[c] = "off" => conn[c] = "off"
    BY DEF SendFrame, BaseInv, PlacesInv
  <2> QED BY <2>1, <1>1, PlacesKept DEF BaseInv
<1>7. StreamsInv'
  <2>1. Len(bus) \in DOMAIN bus
    BY <1>2, EmptySeq, LenProperties DEF BaseInv, StreamsInv
  <2>2. heard' \in [Clients -> Seq(DOMAIN bus')]
    <3>1. Append(heard[h2], Len(bus)) \in Seq(DOMAIN bus)
      BY <2>1, AppendProperties DEF BaseInv, StreamsInv
    <3> QED BY <3>1, <1>1 DEF BaseInv, StreamsInv, streams
  <2>3. unread' \in [Clients -> 0..RoomMax]
    <3>1. unread[h2] \in 0..RoomMax /\ unread[h2] # RoomMax /\ RoomMax \in Nat
      BY <1>1, BoundsAssumption DEF BaseInv, StreamsInv, Fails
    <3>2. unread[h2] + 1 \in 0..RoomMax
      BY <3>1
    <3> QED BY <3>2, <1>1 DEF BaseInv, StreamsInv
  <2> QED BY <2>2, <2>3, <1>1 DEF BaseInv, StreamsInv, streams
<1>8. BaseInv'
  BY <1>5, <1>6, <1>7 DEF BaseInv
<1>9. NULL \notin Clients
  BY DEF NULL, Clients
<1>10. \/ /\ main'.pc # "send"
          /\ \A c : Contains(list, c) /\ c # h => Place(c, list) < Place(h2, list) \/ c = h2
       \/ \E m \in Clients :
             /\ main' = [pc |-> "send", h |-> h, h2 |-> m]
             /\ \A c : Contains(list, c) /\ c # h =>
                   (Place(c, list) < Place(m, list) <=>
                       Place(c, list) < Place(h2, list) \/ c = h2)
  BY <1>3, <1>5, <1>9
<1> QED BY <1>1, <1>2, <1>8, <1>10 DEF streams

LEMMA NextBase ==
    ASSUME BaseInv, BroadcastNext
    PROVE  BaseInv'
BY BeginBase, RecvFrameBase, RecvPartBase, RecvNothingBase, RecvFailsBase, SendFrameBase,
   SendFailsBase, AcceptBase, InsertBase, ClientBase DEF BroadcastNext, TryRecvForward

LEMMA StutterBase ==
    ASSUME BaseInv, UNCHANGED vars
    PROVE  BaseInv'
<1>1. PlacesInv'
  BY PlacesKept DEF BaseInv, PlacesInv, vars, server
<1>2. LoopInv'
  BY LoopKept DEF BaseInv, vars, server, streams
<1>3. StreamsInv'
  BY StreamsKept DEF BaseInv, vars, server, streams, sockets
<1> QED BY <1>1, <1>2, <1>3 DEF BaseInv, vars

LEMMA AlwaysBase == BroadcastSpec => []BaseInv
<1>1. BaseInv /\ [BroadcastNext]_vars => BaseInv'
  BY NextBase, StutterBase
<1> QED BY InitBase, <1>1, PTL DEF BroadcastSpec

-----------------------------------------------------------------------------
(* Neither the list nor the backlog ever holds a client twice, for each is   *)
(* connected once and in one place only, and no frame is sent beyond what    *)
(* was read (socketwin_can_driver.c:180-231, 300-350).                       *)
THEOREM TypeCorrect == BroadcastSpec => []TypeOK
<1>1. BaseInv => TypeOK
  <2> SUFFICES ASSUME BaseInv PROVE TypeOK
    OBVIOUS
  <2>1. IsInjective(list \o waiting)
    <3>1. /\ list \in Seq(Clients) /\ waiting \in Seq(Clients)
          /\ Len(list) \in Nat /\ Len(waiting) \in Nat
          /\ DOMAIN list = 1..Len(list) /\ DOMAIN waiting = 1..Len(waiting)
      BY LenProperties DEF BaseInv, PlacesInv
    <3> DEFINE b == list \o waiting
    <3>2. /\ b \in Seq(Clients) /\ Len(b) = Len(list) + Len(waiting)
          /\ \A i \in 1..(Len(list) + Len(waiting)) :
                b[i] = IF i <= Len(list) THEN list[i] ELSE waiting[i - Len(list)]
      BY <3>1, ConcatProperties
    <3>3. DOMAIN b = 1..(Len(list) + Len(waiting))
      BY <3>2, LenProperties
    <3> HIDE DEF b
    <3>4. \A i \in 1..(Len(list) + Len(waiting)) :
             \/ i \in 1..Len(list) /\ b[i] = list[i]
             \/ /\ i - Len(list) \in 1..Len(waiting) /\ ~(i \in 1..Len(list))
                /\ b[i] = waiting[i - Len(list)]
      BY <3>1, <3>2
    <3>5. /\ \A i, j \in 1..Len(list) : list[i] = list[j] => i = j
          /\ \A i, j \in 1..Len(waiting) : waiting[i] = waiting[j] => i = j
      BY <3>1 DEF BaseInv, PlacesInv, IsInjective
    <3>6. \A i \in 1..Len(list) : \A j \in 1..Len(waiting) : list[i] # waiting[j]
      BY <3>1, ElementOfSeq DEF BaseInv, PlacesInv, Contains
    <3>7. \A i, j \in 1..(Len(list) + Len(waiting)) : b[i] = b[j] => i = j
      BY <3>1, <3>4, <3>5, <3>6
    <3> QED BY <3>3, <3>7 DEF IsInjective, b
  <2> QED BY <2>1 DEF BaseInv, PlacesInv, LoopInv, StreamsInv, TypeOK, Frame
<1> QED BY AlwaysBase, <1>1, PTL

(* However clients come, go and block, and in the middle of a walk that      *)
(* removes them, the loops stand at clients of the list, and nobody else     *)
(* changes it meanwhile (socketwin_can_driver.c:300-350).                    *)
THEOREM WalkSoundHolds == BroadcastSpec => []WalkSound
<1>1. BaseInv => WalkSound
  BY DEF BaseInv, LoopInv
<1> QED BY AlwaysBase, <1>1, PTL

-----------------------------------------------------------------------------
(* What each client has heard.                                               *)
LEMMA InitBus == BroadcastInit => BusInv
<1> SUFFICES ASSUME BroadcastInit PROVE BusInv
  OBVIOUS
<1>1. \A c : ~Contains(<<>>, c)
  BY EmptySeq DEF Contains
<1>2. SendingInv /\ NewInv
  BY DEF BroadcastInit, Asleep, SendingInv, NewInv
<1>3. HeardInv
  BY <1>1 DEF BroadcastInit, HeardInv
<1> QED BY <1>2, <1>3, InitBase DEF BusInv

LEMMA DoneIs ==
    ASSUME BaseInv
    PROVE  /\ Len(bus) \in Nat /\ DOMAIN bus = 1..Len(bus)
           /\ main.pc # "send" => Done = 1..Len(bus)
           /\ main.pc = "send" => Done = 1..(Len(bus) - 1) /\ Len(bus) > 0
BY LenProperties, EmptySeq DEF BaseInv, StreamsInv, LoopInv, Done

(* Steps that send nothing: clients may leave the list.                      *)
LEMMA HeardKept ==
    ASSUME HeardInv, UNCHANGED <<bus, heard, joined, main>>, cut \subseteq cut',
           \A c : Contains(list', c) => Contains(list, c)
    PROVE  HeardInv'
<1>1. Done' = Done
  BY DEF Done
<1> QED BY <1>1 DEF HeardInv, InOrder, HasHeard, Rightly

LEMMA HeardBetween ==
    ASSUME HeardInv, UNCHANGED <<bus, heard, joined, cut>>,
           main.pc # "send", main'.pc # "send",
           \A c : Contains(list', c) => Contains(list, c)
    PROVE  HeardInv' /\ SendingInv'
<1>1. Done' = Done
  BY DEF Done
<1> QED BY <1>1 DEF HeardInv, InOrder, HasHeard, Rightly, SendingInv

LEMMA SendingKept ==
    ASSUME SendingInv, UNCHANGED <<bus, heard, joined, main, list>>
    PROVE  SendingInv'
BY DEF SendingInv

LEMMA NewKept ==
    ASSUME NewInv, UNCHANGED <<waiting, accepted, heard>>,
           \A c \in Clients : conn'[c] = "off" => conn[c] = "off"
    PROVE  NewInv'
BY DEF NewInv

LEMMA ClientBus ==
    ASSUME BusInv, NEW c \in Clients, Client(c)
    PROVE  BusInv'
<1>1. UNCHANGED <<list, accepted, main, joined, bus, heard, cut>>
  BY DEF Client, Connect, SendsPart, Reads, Leaves, server, streams, sockets
<1>2. HeardInv' /\ SendingInv'
  BY <1>1, HeardKept, SendingKept DEF BusInv
<1>3. NewInv'
  <2>1. CASE Connect(c)
    <3>1. \A d : Contains(waiting', d) <=> Contains(waiting, d) \/ d = c
      BY <2>1, AppendIs DEF Connect, BusInv, BaseInv, PlacesInv
    <3> QED BY <3>1, <2>1, <1>1 DEF Connect, BusInv, BaseInv, PlacesInv, NewInv
  <2>2. CASE SendsPart(c) \/ Reads(c)
    BY <2>2, <1>1, NewKept DEF SendsPart, Reads, BusInv
  <2>3. CASE Leaves(c)
    <3>1. \A d \in Clients : conn'[d] = "off" => conn[d] = "off"
      BY <2>3 DEF Leaves, BusInv, BaseInv, PlacesInv
    <3> QED BY <3>1, <2>3, <1>1, NewKept DEF Leaves, BusInv
  <2> QED BY <2>1, <2>2, <2>3 DEF Client
<1> QED BY <1>2, <1>3, ClientBase DEF BusInv

LEMMA AcceptBus ==
    ASSUME BusInv, Accept
    PROVE  BusInv'
<1>1. /\ waiting # <<>> /\ waiting' = Tail(waiting) /\ accepted' = Head(waiting)
      /\ UNCHANGED <<list, main, joined, conn, bus, heard, cut>>
  BY DEF Accept, streams, sockets
<1>2. \A d : Contains(waiting, d) <=> Contains(Tail(waiting), d) \/ d = Head(waiting)
  BY <1>1, TailIs DEF BusInv, BaseInv, PlacesInv
<1>3. NewInv'
  BY <1>1, <1>2 DEF BusInv, NewInv
<1> QED BY <1>1, <1>3, AcceptBase, HeardKept, SendingKept DEF BusInv

(* Nothing on the bus is due to a new client.                                *)
LEMMA InsertBus ==
    ASSUME BusInv, Insert
    PROVE  BusInv'
<1>1. /\ joined' = [joined EXCEPT ![accepted] = Len(bus)] /\ accepted' = NULL
      /\ UNCHANGED <<waiting, conn, bus, heard, cut>>
  BY DEF Insert, AcceptedNext, streams, sockets
<1>2. /\ BaseInv' /\ accepted \in Clients /\ main.pc = "sleep" /\ main' = main
      /\ \A d : Contains(list', d) <=> Contains(list, d) \/ d = accepted
  BY InsertBase DEF BusInv
<1>3. NewInv'
  <2>1. NULL \notin Clients
    BY DEF NULL, Clients
  <2> QED BY <2>1, <1>1 DEF BusInv, NewInv
<1>4. SendingInv'
  BY <1>2 DEF SendingInv
<1>5. /\ Done = 1..Len(bus) /\ Done' = Done /\ Len(bus) \in Nat
  BY <1>1, <1>2, DoneIs DEF BusInv, Done
<1>6. heard[accepted] = <<>> /\ joined'[accepted] = Len(bus)
  BY <1>1, <1>2 DEF BusInv, NewInv, BaseInv, StreamsInv
<1>7. \A i : ~Contains(<<>>, i)
  BY EmptySeq DEF Contains
<1>8. ASSUME NEW c \in Clients, Contains(list', c)
      PROVE  (InOrder(c) /\ HasHeard(c) /\ Rightly(c))'
  <2>1. CASE c = accepted
    <3>1. heard'[c] = <<>> /\ joined'[c] = Len(bus)
      BY <2>1, <1>1, <1>6
    <3>2. \A i \in Done' : ~(i > joined'[c])
      BY <3>1, <1>5
    <3>3. DOMAIN heard'[c] = {}
      BY <3>1
    <3> QED BY <3>1, <3>2, <3>3, <1>7 DEF InOrder, HasHeard, Rightly
  <2>2. CASE c # accepted
    <3>1. joined'[c] = joined[c] /\ Contains(list, c)
      BY <2>2, <1>1, <1>2, <1>8 DEF BusInv, BaseInv, StreamsInv
    <3>2. InOrder(c) /\ HasHeard(c) /\ Rightly(c)
      BY <3>1 DEF BusInv, HeardInv
    <3> QED BY <3>1, <3>2, <1>1, <1>5 DEF InOrder, HasHeard, Rightly
  <2> QED BY <2>1, <2>2
<1>9. HeardInv'
  BY <1>8 DEF HeardInv
<1> QED BY <1>2, <1>3, <1>4, <1>9 DEF BusInv

LEMMA BetweenBus ==
    ASSUME BusInv, \/ Begin
                   \/ \E h \in Clients : RecvNothing(h) \/ RecvPart(h) \/ RecvFails(h)
    PROVE  BusInv'
<1> DEFINE SendsNothing ==
             /\ BaseInv' /\ main.pc # "send" /\ main'.pc # "send"
             /\ \A c : Contains(list', c) => Contains(list, c)
             /\ \A c \in Clients : conn'[c] = "off" => conn[c] = "off"
             /\ UNCHANGED <<waiting, accepted, bus, heard, joined, cut>>
<1>1. SendsNothing
  <2>1. CASE Begin
    BY <2>1, BeginBase DEF BusInv, Begin, streams, sockets
  <2>2. ASSUME NEW h \in Clients, RecvNothing(h)
        PROVE  SendsNothing
    BY <2>2, RecvNothingBase DEF BusInv, RecvNothing, Receiving, streams, sockets
  <2>3. ASSUME NEW h \in Clients, RecvPart(h)
        PROVE  SendsNothing
    BY <2>3, RecvPartBase DEF BusInv, RecvPart, Receiving, sockets
  <2>4. ASSUME NEW h \in Clients, RecvFails(h)
        PROVE  SendsNothing
    <3>1. \A c \in Clients : conn'[c] = "off" => conn[c] = "off"
      BY <2>4 DEF RecvFails, RemoveSocket, BusInv, BaseInv, PlacesInv
    <3> QED BY <2>4, <3>1, RecvFailsBase DEF BusInv, RecvFails, streams, sockets
  <2> QED BY <2>1, <2>2, <2>3, <2>4
<1> QED BY <1>1, HeardBetween, NewKept DEF BusInv

(* The frame whose sending is broken off is cut; who has heard it was before *)
(* the client that is removed.                                               *)
LEMMA SendFailsBus ==
    ASSUME BusInv, NEW h \in Clients, NEW h2 \in Clients, SendFails(h, h2)
    PROVE  BusInv'
<1>1. /\ main.pc = "send" /\ main.h = h /\ main.h2 = h2 /\ cut' = cut \union {Len(bus)}
      /\ UNCHANGED <<accepted, joined, waiting, bus, heard>>
  BY DEF SendFails, Sending, streams
<1>2. /\ BaseInv' /\ main'.pc # "send"
      /\ \A c : Contains(list', c) => Contains(list, c)
  BY SendFailsBase DEF BusInv
<1>3. \A c \in Clients : conn'[c] = "off" => conn[c] = "off"
  BY DEF SendFails, RemoveSocket, BusInv, BaseInv, PlacesInv
<1>4. /\ Len(bus) \in Nat /\ Len(bus) > 0 /\ Done = 1..(Len(bus) - 1)
      /\ Done' = 1..Len(bus)
  BY <1>1, <1>2, DoneIs DEF BusInv, Done
<1>5. ASSUME NEW c \in Clients, Contains(list', c)
      PROVE  (InOrder(c) /\ HasHeard(c) /\ Rightly(c))'
  <2>1. Contains(list, c) /\ InOrder(c) /\ HasHeard(c) /\ Rightly(c)
    BY <1>2, <1>5 DEF BusInv, HeardInv
  <2>2. /\ joined[c] < Len(bus) /\ bus[Len(bus)].from = h
        /\ Contains(heard[c], Len(bus)) => c # h
    BY <2>1, <1>1 DEF BusInv, SendingInv
  <2>3. \A i \in Done' : i \in Done \/ i = Len(bus)
    BY <1>4
  <2>4. InOrder(c)'
    BY <2>1, <1>1 DEF InOrder
  <2>5. HasHeard(c)'
    BY <2>1, <2>3, <1>1 DEF HasHeard
  <2>6. Rightly(c)'
    <3> SUFFICES ASSUME NEW i \in Done', Contains(heard[c], i)
                 PROVE  i > joined[c] /\ bus[i].from # c
      BY <1>1 DEF Rightly
    <3>1. joined[c] \in Nat
      BY DEF BusInv, BaseInv, StreamsInv
    <3>2. CASE i \in Done
      BY <3>2, <2>1 DEF Rightly
    <3>3. CASE i = Len(bus)
      BY <3>1, <3>3, <2>2, <1>4
    <3> QED BY <3>2, <3>3, <2>3
  <2> QED BY <2>4, <2>5, <2>6
<1>6. HeardInv' /\ SendingInv' /\ NewInv'
  BY <1>1, <1>2, <1>3, <1>5, NewKept DEF BusInv, HeardInv, SendingInv
<1> QED BY <1>2, <1>6 DEF BusInv

(* A new frame is due to all but its sender, and nobody has heard it.        *)
LEMMA RecvFrameBus ==
    ASSUME BusInv, NEW h \in Clients, RecvFrame(h)
    PROVE  BusInv'
<1> DEFINE m == Len(bus) + 1
<1>1. /\ BaseInv' /\ list' = list /\ Contains(list, h) /\ main.pc = "recv"
      /\ Len(bus') = m /\ Len(bus) \in Nat /\ bus'[m] = [from |-> h, part |-> taken[h] + 1]
      /\ \A i \in 1..Len(bus) : bus'[i] = bus[i]
      /\ \/ /\ main'.pc # "send"
            /\ \A c : Contains(list, c) => c = h
         \/ \E n \in Clients :
               /\ main' = [pc |-> "send", h |-> h, h2 |-> n]
               /\ \A c : Contains(list, c) /\ c # h => ~(Place(c, list) < Place(n, list))
  BY RecvFrameBase DEF BusInv
<1>2. UNCHANGED <<accepted, joined, waiting, conn, heard, cut>>
  BY DEF RecvFrame, sockets
<1>3. Done = 1..Len(bus) /\ DOMAIN bus' = 1..Len(bus')
  BY <1>1, DoneIs, LenProperties DEF BusInv, BaseInv, StreamsInv
<1>4. ASSUME NEW c \in Clients
      PROVE  joined[c] < m /\ ~Contains(heard[c], m)
  <2>1. joined[c] \in 0..Len(bus) /\ heard[c] \in Seq(1..Len(bus))
    BY <1>3, <1>1, DoneIs DEF BusInv, BaseInv, StreamsInv
  <2>2. \A i \in 1..Len(heard[c]) : heard[c][i] \in 1..Len(bus)
    BY <2>1, ElementOfSeq
  <2> QED BY <2>1, <2>2, <1>1 DEF Contains
<1> HIDE DEF m
<1>5. NewInv' /\ bus'[m].from = h
  BY <1>1, <1>2, NewKept DEF BusInv
<1>6. CASE main'.pc # "send" /\ \A c : Contains(list, c) => c = h
  <2>1. Done' = 1..Len(bus')
    BY <1>3, <1>6 DEF Done
  <2>2. \A i \in Done' : i \in Done \/ i = m
    BY <2>1, <1>1, <1>3 DEF m
  <2>3. InOrder(h) /\ HasHeard(h) /\ Rightly(h)
    BY <1>1 DEF BusInv, HeardInv
  <2>4. InOrder(h)' /\ HasHeard(h)' /\ Rightly(h)'
    BY <2>2, <2>3, <1>1, <1>2, <1>3, <1>4, <1>5 DEF InOrder, HasHeard, Rightly
  <2>5. HeardInv'
    BY <2>4, <1>1, <1>6 DEF HeardInv
  <2>6. SendingInv'
    BY <1>6 DEF SendingInv
  <2> QED BY <2>5, <2>6, <1>1, <1>5 DEF BusInv
<1>7. ASSUME NEW n \in Clients, main' = [pc |-> "send", h |-> h, h2 |-> n],
             \A c : Contains(list, c) /\ c # h => ~(Place(c, list) < Place(n, list))
      PROVE  BusInv'
  <2>1. main'.pc = "send" /\ main'.h = h /\ main'.h2 = n
    BY <1>7
  <2>2. Done' = Done
    BY <2>1, <1>1, <1>3 DEF Done, m
  <2>3. HeardInv'
    BY <2>2, <1>1, <1>2, <1>3 DEF BusInv, HeardInv, InOrder, HasHeard, Rightly
  <2>4. SendingInv'
    BY <2>1, <1>1, <1>2, <1>4, <1>5, <1>7 DEF SendingInv
  <2> QED BY <2>3, <2>4, <1>1, <1>5 DEF BusInv
<1> QED BY <1>1, <1>6, <1>7

LEMMA SendFrameBus ==
    ASSUME BusInv, NEW h \in Clients, NEW h2 \in Clients, SendFrame(h, h2)
    PROVE  BusInv'
<1> DEFINE m == Len(bus)
<1>1. /\ BaseInv' /\ list' = list /\ bus' = bus /\ joined' = joined
      /\ Contains(list, h) /\ Contains(list, h2) /\ h2 # h
      /\ main.pc = "send" /\ main.h = h /\ main.h2 = h2
      /\ heard' = [heard EXCEPT ![h2] = Append(@, m)]
      /\ \/ /\ main'.pc # "send"
            /\ \A c : Contains(list, c) /\ c # h => Place(c, list) < Place(h2, list) \/ c = h2
         \/ \E n \in Clients :
               /\ main' = [pc |-> "send", h |-> h, h2 |-> n]
               /\ \A c : Contains(list, c) /\ c # h =>
                     (Place(c, list) < Place(n, list) <=>
                         Place(c, list) < Place(h2, list) \/ c = h2)
  BY SendFrameBase DEF BusInv
<1>2. /\ UNCHANGED <<accepted, waiting, cut>>
      /\ \A c \in Clients : conn'[c] = "off" => conn[c] = "off"
  BY DEF SendFrame, BusInv, BaseInv, PlacesInv
<1>3. Done = 1..(m - 1) /\ m \in Nat /\ m > 0 /\ DOMAIN bus = 1..m
  BY <1>1, DoneIs DEF BusInv
<1>4. list \in Seq(Clients) /\ Place(h2, list) \in Int
  BY <1>1, PlaceIs DEF BusInv, BaseInv, PlacesInv
<1>5. bus[m].from = h /\ \A c \in Clients : Contains(list, c) =>
         joined[c] < m /\ (Contains(heard[c], m) <=> c # h /\ Place(c, list) < Place(h2, list))
  BY <1>1 DEF BusInv, SendingInv
<1> HIDE DEF m
<1>6. /\ heard[h2] \in Seq(1..m) /\ heard'[h2] = Append(heard[h2], m)
      /\ \A c \in Clients : c # h2 => heard'[c] = heard[c]
  BY <1>1, <1>3 DEF BusInv, BaseInv, StreamsInv
<1>7. /\ Len(heard'[h2]) = Len(heard[h2]) + 1 /\ Len(heard[h2]) \in Nat
      /\ DOMAIN heard'[h2] = 1..(Len(heard[h2]) + 1) /\ DOMAIN heard[h2] = 1..Len(heard[h2])
      /\ \A i \in 1..Len(heard[h2]) : heard'[h2][i] = heard[h2][i]
      /\ heard'[h2][Len(heard[h2]) + 1] = m
  <2>1. m \in 1..m
    BY <1>3
  <2> QED BY <2>1, <1>6, AppendProperties, LenProperties
<1>8. \A c \in Clients : \A i : Contains(heard'[c], i) <=> Contains(heard[c], i) \/ (c = h2 /\ i = m)
  <2>1. \A i : Contains(heard'[h2], i) <=> Contains(heard[h2], i) \/ i = m
    <3>1. \A j \in 1..(Len(heard[h2]) + 1) : j \in 1..Len(heard[h2]) \/ j = Len(heard[h2]) + 1
      BY <1>7
    <3>2. /\ Len(heard[h2]) + 1 \in 1..(Len(heard[h2]) + 1)
          /\ \A j \in 1..Len(heard[h2]) : j \in 1..(Len(heard[h2]) + 1)
      BY <1>7
    <3> QED BY <3>1, <3>2, <1>7 DEF Contains
  <2> QED BY <2>1, <1>6
<1>9. ~Contains(heard[h2], m)
  BY <1>1, <1>4, <1>5
<1>10. ASSUME NEW c \in Clients, Contains(list, c)
       PROVE  InOrder(c)'
  <2>1. InOrder(c)
    BY <1>10 DEF BusInv, HeardInv
  <2>2. CASE c # h2
    BY <2>1, <2>2, <1>6 DEF InOrder
  <2>3. CASE c = h2
    <3>1. \A i \in 1..Len(heard[h2]) : heard[h2][i] \in 1..m /\ heard[h2][i] # m
      BY <1>6, <1>9, ElementOfSeq DEF Contains
    <3>2. \A i, j \in 1..Len(heard[h2]) : i < j => heard[h2][i] < heard[h2][j]
      BY <2>1, <2>3, <1>7 DEF InOrder
    <3>3. ASSUME NEW i \in DOMAIN heard'[h2], NEW j \in DOMAIN heard'[h2], i < j
          PROVE  heard'[h2][i] < heard'[h2][j]
      <4>1. i \in 1..Len(heard[h2]) /\ (j \in 1..Len(heard[h2]) \/ j = Len(heard[h2]) + 1)
        BY <3>3, <1>7
      <4>2. CASE j \in 1..Len(heard[h2])
        BY <4>1, <4>2, <3>2, <3>3, <1>7
      <4>3. CASE j = Len(heard[h2]) + 1
        <5>1. heard'[h2][i] = heard[h2][i] /\ heard'[h2][j] = m
          BY <4>1, <4>3, <1>7
        <5>2. heard[h2][i] \in 1..m /\ heard[h2][i] # m
          BY <4>1, <3>1
        <5> QED BY <5>1, <5>2, <1>3
      <4> QED BY <4>1, <4>2, <4>3
    <3> QED BY <3>3, <2>3 DEF InOrder
  <2> QED BY <2>2, <2>3
<1>11. NewInv'
  BY <1>1, <1>2, <1>6 DEF BusInv, BaseInv, PlacesInv, NewInv
<1>12. CASE /\ main'.pc # "send"
            /\ \A c : Contains(list, c) /\ c # h => Place(c, list) < Place(h2, list) \/ c = h2
  <2>1. Done' = 1..m
    BY <1>1, <1>3, <1>12 DEF Done
  <2>2. \A i \in Done' : i \in Done \/ i = m
    BY <2>1, <1>3
  <2>3. m \notin Done
    BY <1>3
  <2>4. ASSUME NEW c \in Clients, Contains(list, c)
        PROVE  HasHeard(c)' /\ Rightly(c)'
    <3>1. HasHeard(c) /\ Rightly(c)
      BY <2>4 DEF BusInv, HeardInv
    <3>2. /\ c # h => Contains(heard'[c], m)
          /\ Contains(heard'[c], m) => c # h /\ m > joined[c]
      <4>1. joined[c] \in Nat /\ joined[c] < m
        BY <2>4, <1>5 DEF BusInv, BaseInv, StreamsInv
      <4>2. /\ c # h => Contains(heard'[c], m)
            /\ Contains(heard'[c], m) => c # h
        BY <2>4, <1>1, <1>5, <1>8, <1>12
      <4> QED BY <4>1, <4>2, <1>3
    <3>3. HasHeard(c)'
      BY <3>1, <3>2, <2>2, <1>1, <1>2, <1>5, <1>8 DEF HasHeard
    <3>4. Rightly(c)'
      <4> SUFFICES ASSUME NEW i \in Done', Contains(heard'[c], i)
                   PROVE  i > joined[c] /\ bus[i].from # c
        BY <1>1 DEF Rightly
      <4>1. CASE i \in Done
        BY <4>1, <3>1, <2>3, <1>8 DEF Rightly
      <4>2. CASE i = m
        BY <4>2, <3>2, <1>5
      <4> QED BY <4>1, <4>2, <2>2
    <3> QED BY <3>3, <3>4
  <2>5. HeardInv'
    BY <2>4, <1>1, <1>10 DEF HeardInv
  <2>6. SendingInv'
    BY <1>12 DEF SendingInv
  <2> QED BY <2>5, <2>6, <1>1, <1>11 DEF BusInv
<1>13. ASSUME NEW n \in Clients, main' = [pc |-> "send", h |-> h, h2 |-> n],
              \A c : Contains(list, c) /\ c # h =>
                 (Place(c, list) < Place(n, list) <=> Place(c, list) < Place(h2, list) \/ c = h2)
       PROVE  BusInv'
  <2>1. main'.pc = "send" /\ main'.h = h /\ main'.h2 = n
    BY <1>13
  <2>2. Done' = Done /\ m \notin Done
    BY <2>1, <1>1, <1>3 DEF Done, m
  <2>3. ASSUME NEW c \in Clients, Contains(list, c)
        PROVE  HasHeard(c)' /\ Rightly(c)'
    <3>1. HasHeard(c) /\ Rightly(c)
      BY <2>3 DEF BusInv, HeardInv
    <3> QED BY <3>1, <2>2, <1>1, <1>2, <1>8 DEF HasHeard, Rightly
  <2>4. HeardInv'
    BY <2>3, <1>1, <1>10 DEF HeardInv
  <2>5. ASSUME NEW c \in Clients, Contains(list, c)
        PROVE  Contains(heard'[c], m) <=> c # h /\ Place(c, list) < Place(n, list)
    BY <2>5, <1>1, <1>5, <1>8, <1>13
  <2>6. SendingInv'
    BY <2>1, <2>5, <1>1, <1>5 DEF SendingInv, m
  <2> QED BY <2>4, <2>6, <1>1, <1>11 DEF BusInv
<1> QED BY <1>1, <1>12, <1>13

LEMMA AlwaysBus == BroadcastSpec => []BusInv
<1>1. BusInv /\ [BroadcastNext]_vars => BusInv'
  <2> SUFFICES ASSUME BusInv, [BroadcastNext]_vars PROVE BusInv'
    OBVIOUS
  <2>1. CASE UNCHANGED vars
    <3>1. BaseInv'
      BY <2>1, StutterBase DEF BusInv
    <3>2. UNCHANGED <<bus, heard, joined, main, list, cut, waiting, accepted, conn>>
      BY <2>1 DEF vars, server, streams, sockets
    <3> QED BY <3>1, <3>2, HeardKept, SendingKept, NewKept DEF BusInv
  <2> QED BY <2>1, BetweenBus, RecvFrameBus, SendFrameBus, SendFailsBus, AcceptBus,
             InsertBus, ClientBus DEF BroadcastNext, TryRecvForward
<1> QED BY InitBus, <1>1, PTL DEF BroadcastSpec

(* For any number of clients that come, go, block and are removed, wherever  *)
(* the walk and the insertion of another then stand, each of them hears one  *)
(* order of frames, once each, its own excepted, and misses only those whose *)
(* sending the removal of another broke off                                  *)
(* (socketwin_can_driver.c:205-231, 321-331).                                *)
THEOREM OneBusHolds == BroadcastSpec => []OneBus
<1>1. BusInv => OneBus
  <2> SUFFICES ASSUME BusInv, NEW c \in ToSet(list)
               PROVE  /\ \A i, j \in DOMAIN heard[c] : i < j => heard[c][i] < heard[c][j]
                      /\ Due(c) \ cut \subseteq ToSet(heard[c])
                      /\ ToSet(heard[c]) \intersect Done \subseteq Due(c)
    BY DEF OneBus
  <2>1. list \in Seq(Clients) /\ Contains(list, c)
    BY SetOf DEF BusInv, BaseInv, PlacesInv
  <2>2. c \in Clients
    BY <2>1, ElementOfSeq DEF Contains
  <2>3. InOrder(c) /\ HasHeard(c) /\ Rightly(c)
    BY <2>1, <2>2 DEF BusInv, HeardInv
  <2>4. \A i : i \in ToSet(heard[c]) <=> Contains(heard[c], i)
    BY <2>2, SetOf DEF BusInv, BaseInv, StreamsInv
  <2> QED BY <2>3, <2>4 DEF InOrder, HasHeard, Rightly, Due
<1> QED BY AlwaysBus, <1>1, PTL

-----------------------------------------------------------------------------
(* The streams of the clients.                                               *)

LEMMA InitFrames == BroadcastInit => FramesInv
<1> SUFFICES ASSUME BroadcastInit PROVE FramesInv
  OBVIOUS
<1>1. DOMAIN bus = {} /\ \A c \in Clients : taken[c] = 0
  BY DEF BroadcastInit
<1>2. /\ 0 % 2 = 0
      /\ {p \in 1..0 : p % 2 = 1} = {}
  OBVIOUS
<1>3. \A c \in Clients : PartsOnBus(c) = {}
  BY <1>1 DEF PartsOnBus
<1> QED BY <1>1, <1>2, <1>3, InitBase DEF FramesInv, FramesWhole

LEMMA OddsGrow ==
    ASSUME NEW n \in Nat, n % 2 = 0
    PROVE  /\ (n + 2) % 2 = 0
           /\ {p \in 1..(n + 2) : p % 2 = 1} = {p \in 1..n : p % 2 = 1} \union {n + 1}
<1>1. (n + 1) % 2 = 1 /\ (n + 2) % 2 = 0
  OBVIOUS
<1>2. \A p \in Nat : p \in 1..(n + 2) <=> p \in 1..n \/ p = n + 1 \/ p = n + 2
  OBVIOUS
<1> QED BY <1>1, <1>2

LEMMA FrameIs ==
    ASSUME BaseInv, NEW i \in DOMAIN bus
    PROVE  bus[i].from \in Clients /\ bus[i].part \in Nat
<1>1. bus[i] \in Frame
  BY LenProperties, ElementOfSeq DEF BaseInv, StreamsInv
<1> QED BY <1>1 DEF Frame

LEMMA FramesKept ==
    ASSUME FramesInv, UNCHANGED <<bus, taken, torn>>, BaseInv'
    PROVE  FramesInv'
BY DEF FramesInv, FramesWhole, PartsOnBus

LEMMA RecvPartFrames ==
    ASSUME FramesInv, NEW h \in Clients, RecvPart(h)
    PROVE  FramesInv'
<1>1. /\ taken' = [taken EXCEPT ![h] = @ + 1] /\ torn' = torn \union {h} /\ bus' = bus
      /\ taken \in [Clients -> Nat]
  BY DEF RecvPart, FramesInv, BaseInv, StreamsInv
<1>2. /\ \A c \in Clients : taken'[c] >= taken[c]
      /\ \A c \in Clients \ torn' : taken'[c] = taken[c] /\ c \notin torn
  BY <1>1
<1>3. \A i \in DOMAIN bus : bus'[i].part < taken'[bus'[i].from]
  <2> SUFFICES ASSUME NEW i \in DOMAIN bus
               PROVE  bus[i].part < taken'[bus[i].from]
    BY <1>1
  <2>1. bus[i].from \in Clients /\ bus[i].part \in Nat
    BY FrameIs DEF FramesInv
  <2>2. bus[i].part < taken[bus[i].from]
    BY DEF FramesInv
  <2> QED BY <2>1, <2>2, <1>1
<1>4. FramesWhole'
  BY <1>1, <1>2 DEF FramesInv, FramesWhole, PartsOnBus
<1> QED BY <1>1, <1>3, <1>4, RecvPartBase DEF FramesInv

LEMMA RecvFrameFrames ==
    ASSUME FramesInv, NEW h \in Clients, RecvFrame(h)
    PROVE  FramesInv'
<1> DEFINE m == Len(bus) + 1
           t == taken[h]
<1>1. /\ BaseInv' /\ Len(bus') = m /\ Len(bus) \in Nat
      /\ bus'[m] = [from |-> h, part |-> t + 1]
      /\ \A i \in 1..Len(bus) : bus'[i] = bus[i]
      /\ taken' = [taken EXCEPT ![h] = @ + 2]
  BY RecvFrameBase DEF FramesInv
<1>2. bus'[m].from = h /\ bus'[m].part = t + 1
  BY <1>1
<1>3. /\ taken \in [Clients -> Nat] /\ t \in Nat /\ torn' = torn
      /\ DOMAIN bus = 1..Len(bus) /\ DOMAIN bus' = 1..m
      /\ \A i \in DOMAIN bus : bus[i].from \in Clients /\ bus[i].part \in Nat
  <2>1. taken \in [Clients -> Nat] /\ bus \in Seq(Frame) /\ bus' \in Seq(Frame)
    BY <1>1 DEF FramesInv, BaseInv, StreamsInv
  <2>2. torn' = torn
    BY DEF RecvFrame
  <2>3. \A i \in DOMAIN bus : bus[i].from \in Clients /\ bus[i].part \in Nat
    BY FrameIs DEF FramesInv
  <2> QED BY <2>1, <2>2, <2>3, <1>1, LenProperties
<1>4. /\ taken'[h] = t + 2
      /\ \A c \in Clients : c # h => taken'[c] = taken[c]
  BY <1>1, <1>3
<1>5. /\ m \in DOMAIN bus' /\ m \notin DOMAIN bus /\ m \in Nat
      /\ \A i \in DOMAIN bus' : i = m \/ (i \in DOMAIN bus /\ i < m /\ bus'[i] = bus[i])
      /\ \A i \in DOMAIN bus : i \in DOMAIN bus' /\ bus'[i] = bus[i]
  BY <1>1, <1>3
<1>6. \A i \in DOMAIN bus : bus[i].part < taken[bus[i].from]
  BY DEF FramesInv
<1> HIDE DEF m
<1>7. ASSUME NEW i \in DOMAIN bus'
      PROVE  bus'[i].part < taken'[bus'[i].from]
  <2>1. CASE i = m
    BY <2>1, <1>2, <1>3, <1>4
  <2>2. CASE i \in DOMAIN bus /\ bus'[i] = bus[i]
    <3>1. bus[i].part < taken[bus[i].from] /\ bus[i].part \in Nat /\ bus[i].from \in Clients
      BY <2>2, <1>3, <1>6
    <3>2. taken'[bus[i].from] \in Nat /\ taken'[bus[i].from] >= taken[bus[i].from]
      BY <3>1, <1>3, <1>4
    <3> QED BY <2>2, <3>1, <3>2, <1>3
  <2> QED BY <2>1, <2>2, <1>5
<1>8. ASSUME NEW i \in DOMAIN bus', NEW j \in DOMAIN bus', i < j, bus'[i].from = bus'[j].from
      PROVE  bus'[i].part + 2 <= bus'[j].part
  <2>1. i \in DOMAIN bus /\ bus'[i] = bus[i]
    BY <1>3, <1>5, <1>8 DEF m
  <2>2. CASE j = m
    BY <2>1, <2>2, <1>2, <1>3, <1>6, <1>8
  <2>3. CASE j \in DOMAIN bus /\ bus'[j] = bus[j]
    BY <2>1, <2>3, <1>8 DEF FramesInv, FramesWhole
  <2> QED BY <2>2, <2>3, <1>5
<1>9. ASSUME NEW c \in Clients \ torn'
      PROVE  /\ PartsOnBus(c)' = {p \in 1..taken'[c] : p % 2 = 1}
             /\ taken'[c] % 2 = 0
  <2>1. PartsOnBus(c) = {p \in 1..taken[c] : p % 2 = 1} /\ taken[c] % 2 = 0
    BY <1>3, <1>9 DEF FramesInv, FramesWhole
  <2>2. CASE c # h
    <3>1. PartsOnBus(c)' = PartsOnBus(c)
      BY <2>2, <1>2, <1>5 DEF PartsOnBus
    <3> QED BY <2>1, <2>2, <3>1, <1>4
  <2>3. CASE c = h
    <3>1. PartsOnBus(c)' = PartsOnBus(c) \union {t + 1}
      BY <2>3, <1>2, <1>5 DEF PartsOnBus
    <3>2. /\ (t + 2) % 2 = 0
          /\ {p \in 1..(t + 2) : p % 2 = 1} = {p \in 1..t : p % 2 = 1} \union {t + 1}
      BY <2>1, <2>3, <1>3, OddsGrow
    <3> QED BY <2>1, <2>3, <3>1, <3>2, <1>4
  <2> QED BY <2>2, <2>3
<1> QED BY <1>1, <1>7, <1>8, <1>9 DEF FramesInv, FramesWhole

(* The frames of a client come to the bus in its order, each whole and none  *)
(* left out, however many it sends and however they come in, unless a read   *)
(* took a part of one alone (socketwin_can_driver.c:302-303, 346-349).       *)
THEOREM FramesWholeHolds == BroadcastSpec => []FramesWhole
<1>1. FramesInv /\ [BroadcastNext]_vars => FramesInv'
  <2> SUFFICES ASSUME FramesInv, [BroadcastNext]_vars PROVE FramesInv'
    OBVIOUS
  <2>1. BaseInv'
    BY NextBase, StutterBase DEF FramesInv
  <2>2. CASE UNCHANGED <<bus, taken, torn>>
    BY <2>1, <2>2, FramesKept
  <2>3. ASSUME NEW h \in Clients, RecvFrame(h) \/ RecvPart(h)
        PROVE  FramesInv'
    BY <2>3, RecvFrameFrames, RecvPartFrames
  <2>4. \/ UNCHANGED <<bus, taken, torn>>
        \/ \E h \in Clients : RecvFrame(h) \/ RecvPart(h)
    BY DEF BroadcastNext, TryRecvForward, Begin, RecvNothing, RecvFails, SendFrame, SendFails,
           Accept, Insert, Client, Connect, SendsPart, Reads, Leaves, streams, vars
  <2> QED BY <2>2, <2>3, <2>4
<1>2. FramesInv => FramesWhole
  BY DEF FramesInv
<1> QED BY InitFrames, <1>1, <1>2, PTL DEF BroadcastSpec
=============================================================================

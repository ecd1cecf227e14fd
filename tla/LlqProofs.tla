----------------------------- MODULE LlqProofs -----------------------------
(***************************************************************************)
(* queue.c for every set of threads and messages and every finite heap:    *)
(* the list is whole between critical sections, no pointer is followed     *)
(* into memory that is free or was never written, and the pointers         *)
(* implement PrioQueue.                                                    *)
(*                                                                         *)
(* The argument names, in every reachable state, the list that the         *)
(* pointers stand for (a sequence of nodes), and says at each statement of *)
(* the two critical sections which pointers already lead to it (Shape).    *)
(* That head is not NULL when llq_timedreceive tests it outside the        *)
(* critical section follows from the accounting between the list and the   *)
(* counting semaphore, which is therefore part of the invariant.           *)
(***************************************************************************)
EXTENDS Llq, SequenceLemmas

\* list is a linked list in the heap: distinct nodes, each allocated and filled
\* in, each pointing to the next one, the last to NULL.
Linked(list) ==
    /\ list \in Seq(Node)
    /\ \A i, j \in DOMAIN list : list[i] = list[j] => i = j
    /\ \A i \in DOMAIN list :
          /\ heap[list[i]].live
          /\ heap[list[i]].data \in Message
          /\ heap[list[i]].ptr = IF i = Len(list) THEN NULL ELSE list[i + 1]

First(list) == IF list = <<>> THEN NULL ELSE list[1]

Last(list) == IF list = <<>> THEN NULL ELSE list[Len(list)]

\* The nodes of list hold the messages of msgs, one by one.
Holds(list, msgs) == /\ Len(list) = Len(msgs)
                     /\ \A i \in DOMAIN list : heap[list[i]].data = msgs[i]

\* The list and at most one more node are what is allocated.
Allocated(list, more) ==
    \A n \in Node : heap[n].live <=> n \in more \/ \E i \in DOMAIN list : list[i] = n

\* The list is linked, nothing else is allocated, and head and tail are its ends.
Whole(list) == /\ Linked(list)
               /\ Allocated(list, {})
               /\ hndl.head = First(list)
               /\ hndl.tail = Last(list)

\* What Link makes of the list.
Added(t) == IF call[t].prio = 1 THEN <<call[t].msg>> \o before ELSE Append(before, call[t].msg)

\* The thread in the critical section of llq_add, at each of its statements.
AddShape(t, list) ==
    /\ pc[t] = "alloc" => Whole(list) /\ Holds(list, before)
    /\ pc[t] = "fill" =>
          LET new == hndl[call[t].field]
          IN /\ Linked(list) /\ Holds(list, before)
             /\ new \in Node /\ \A i \in DOMAIN list : list[i] # new
             /\ Allocated(list, {new})
             /\ call[t].field \in {IF call[t].prio = 1 THEN "head" ELSE "tail", "temp"}
             /\ IF call[t].field = "temp"
                THEN list # <<>> /\ hndl.head = First(list) /\ hndl.tail = Last(list)
                ELSE list = <<>>
    /\ pc[t] = "publish" =>
          /\ Linked(list) /\ Allocated(list, {}) /\ Holds(list, Added(t))
          /\ call[t].field \in {IF call[t].prio = 1 THEN "head" ELSE "tail", "temp"}
          /\ IF call[t].field = "temp"
             THEN /\ hndl.head \in Node
                  /\ call[t].prio = 1 => hndl.temp = First(list) /\ hndl.tail = Last(list)
                  /\ call[t].prio = 0 => hndl.head = First(list) /\ hndl.temp = Last(list)
             ELSE Len(list) = 1 /\ hndl[call[t].field] = list[1]
    /\ pc[t] = "addPost" => Whole(list) /\ Holds(list, Added(t))

\* The thread in the critical section of llq_timedreceive.
RecvShape(t, list) ==
    /\ pc[t] = "copy" => Whole(list) /\ Holds(list, before)
    /\ pc[t] = "free" =>
          /\ Whole(list) /\ Holds(list, before) /\ list # <<>>
          /\ hndl.temp = heap[list[1]].ptr
          /\ buffer[t] = Head(before)
    /\ pc[t] = "advance" =>
          /\ Linked(list) /\ Allocated(list, {}) /\ Holds(list, Tail(before)) /\ before # <<>>
          /\ hndl.head \in Node /\ hndl.temp = First(list)
          /\ list # <<>> => hndl.tail = Last(list)
          /\ buffer[t] = Head(before)
    /\ pc[t] = "recvPost" =>
          /\ Whole(list) /\ Holds(list, Tail(before)) /\ before # <<>>
          /\ buffer[t] = Head(before)

Shape(list) == /\ accessSem = 1 => Whole(list)
               /\ \A t \in Thread : AddShape(t, list) /\ RecvShape(t, list)

\* The access semaphore has one unit, and a thread between its wait and its post.
Mutex == /\ accessSem = 0 <=> \E t \in Thread : pc[t] \in Owning
         /\ \A t, u \in Thread : pc[t] \in Owning /\ pc[u] \in Owning => t = u

\* The threads that are at one of the places.
In(places) == {t \in Thread : pc[t] \in places}

\* PrioQueue's Balance
Accounted(list) ==
    Len(IF accessSem = 0 THEN before ELSE list)
        = countSem + Cardinality(In(Receiving)) + Cardinality(In({"linked"}))

\* An adder keeps the message it was called with until it has linked it.
ArgumentsKept == \A t \in Thread : pc[t] \in Adding => call[t].msg \in Message

\* The inductive invariant.
LlqInv == /\ TypeOK
          /\ ArgumentsKept
          /\ Mutex
          /\ \E list \in Seq(Node) : Shape(list) /\ Accounted(list)

-----------------------------------------------------------------------------
(* What the pointers followed from head are.                               *)

\* A sequence of distinct nodes is no longer than the heap.
LEMMA FitsHeap ==
    ASSUME NEW list \in Seq(Node), \A i, j \in DOMAIN list : list[i] = list[j] => i = j
    PROVE  Cardinality(Node) \in Nat /\ Len(list) <= Cardinality(Node)
  <1>1. Cardinality(Node) \in Nat
    BY NodesFinite, FS_CardinalityType
  <1>2. Len(list) \in Nat /\ DOMAIN list = 1..Len(list) /\ list \in [1..Len(list) -> Node]
    OBVIOUS
  <1>3. list \in Injection(1..Len(list), Node)
    BY <1>2 DEF Injection, IsInjective
  <1>4. Cardinality(1..Len(list)) = Len(list)
    BY <1>2, FS_Interval, SMTT(60)
  <1>5. Cardinality(1..Len(list)) <= Cardinality(Node)
    BY <1>3, NodesFinite, FS_Injection, <1>2, <1>4
  <1> QED
    BY <1>1, <1>4, <1>5

\* Two sequences with the same elements in the same places are equal.
LEMMA SameSequence ==
    ASSUME NEW S, NEW p \in Seq(S), NEW q, NEW n \in Nat,
           q = [i \in 1..n |-> q[i]], Len(p) = n, \A i \in 1..n : q[i] = p[i]
    PROVE  q = p
  OBVIOUS

\* From the head of a linked list, Chain follows exactly that list.
LEMMA ChainIsList ==
    ASSUME TypeOK, NEW list, Linked(list), hndl.head = First(list)
    PROVE  Chain = list
  <1> DEFINE N == Cardinality(Node)
             Step(f) == [k \in 0..N |-> IF k = 0 THEN hndl.head
                                       ELSE IF f[k - 1] = NULL THEN NULL ELSE heap[f[k - 1]].ptr]
             w == [k \in 0..N |-> IF k < Len(list) THEN list[k + 1] ELSE NULL]
  <1>1. N \in Nat /\ Len(list) \in Nat /\ Len(list) <= N /\ list \in Seq(Node)
    BY FitsHeap DEF Linked
  <1>2. w = Step(w)
    <2>1. ASSUME NEW k \in 0..N PROVE w[k] = Step(w)[k]
      <3>1. CASE k = 0
        BY <1>1, <3>1 DEF First
      <3>2. CASE k # 0 /\ k - 1 < Len(list)
        <4>1. k - 1 \in 0..N /\ k \in DOMAIN list
          BY <1>1, <3>2
        <4>2. w[k - 1] = list[k] /\ list[k] \in Node
          BY <1>1, <3>2, <4>1
        <4>3. heap[list[k]].ptr = IF k = Len(list) THEN NULL ELSE list[k + 1]
          BY <4>1 DEF Linked
        <4>4. Step(w)[k] = heap[list[k]].ptr
          BY <3>2, <4>2, PointersDistinct
        <4>5. w[k] = IF k = Len(list) THEN NULL ELSE list[k + 1]
          BY <1>1, <3>2
        <4> QED
          BY <4>3, <4>4, <4>5
      <3>3. CASE k # 0 /\ ~(k - 1 < Len(list))
        BY <1>1, <3>3
      <3> QED
        BY <3>1, <3>2, <3>3
    <2> QED
      BY <2>1
  <1>3. walk = CHOOSE f : f = Step(f)
    BY DEF walk
  <1> HIDE DEF w
  <1>4. walk = Step(walk)
    BY <1>2, <1>3, ZenonT(60)
  <1>5. \A k \in 0..N : walk[k] = w[k]
    <2> SUFFICES ASSUME {k \in 0..N : walk[k] # w[k]} # {} PROVE FALSE
      OBVIOUS
    <2>1. {k \in 0..N : walk[k] # w[k]} \in SUBSET Nat
      BY <1>1
    <2>2. PICK k \in {j \in 0..N : walk[j] # w[j]} : \A j \in {i \in 0..N : walk[i] # w[i]} : k <= j
      BY <2>1, Least
    <2>3. k \in 0..N /\ walk[k] = Step(walk)[k] /\ w[k] = Step(w)[k]
      BY <1>2, <1>4, ZenonT(60)
    <2>4. k # 0
      BY <2>2, <2>3
    <2>5. walk[k - 1] = w[k - 1]
      <3>1. k - 1 \in 0..N /\ ~(k <= k - 1)
        BY <1>1, <2>3, <2>4
      <3> QED
        BY <2>2, <3>1
    <2> QED
      BY <2>2, <2>3, <2>5
  <1>6. {k \in 1..N : walk[k - 1] # NULL} = 1..Len(list)
    <2>1. ASSUME NEW k \in 1..N PROVE walk[k - 1] # NULL <=> k <= Len(list)
      <3>1. k - 1 \in 0..N /\ (k - 1 < Len(list) <=> k <= Len(list)) /\ (k - 1) + 1 = k
        BY <1>1
      <3>2. walk[k - 1] = IF k <= Len(list) THEN list[k] ELSE NULL
        BY <1>5, <3>1 DEF w
      <3>3. k <= Len(list) => list[k] \in Node
        BY <1>1
      <3> QED
        BY <3>2, <3>3, PointersDistinct
    <2> QED
      BY <1>1, <2>1
  <1>7. \A i \in 1..Len(list) : walk[i - 1] = list[i]
    <2> TAKE i \in 1..Len(list)
    <2>1. i - 1 \in 0..N /\ i - 1 < Len(list) /\ (i - 1) + 1 = i
      BY <1>1
    <2> QED
      BY <1>5, <2>1 DEF w
  <1>8. Chain = [i \in 1..Len(list) |-> walk[i - 1]]
    BY <1>6 DEF Chain
  <1> QED
    BY <1>1, <1>7, <1>8

\* Between critical sections, Contents is what the list's nodes hold.
LEMMA ContentsHeld ==
    ASSUME TypeOK, NEW list, Whole(list)
    PROVE  /\ Contents \in Seq(Message)
           /\ Holds(list, Contents)
           /\ \A msgs \in Seq(Message) : Holds(list, msgs) => Contents = msgs
  <1>1. Chain = list /\ list \in Seq(Node)
    BY ChainIsList DEF Whole, Linked
  <1>2. Contents = [i \in 1..Len(list) |-> heap[list[i]].data]
    BY <1>1 DEF Contents
  <1>3. \A i \in 1..Len(list) : heap[list[i]].data \in Message
    BY <1>1 DEF Whole, Linked
  <1>4. Contents \in Seq(Message) /\ Len(Contents) = Len(list) /\ DOMAIN list = 1..Len(list)
    BY <1>1, <1>2, <1>3
  <1>5. Holds(list, Contents)
    BY <1>2, <1>4 DEF Holds
  <1>6. ASSUME NEW msgs \in Seq(Message), Holds(list, msgs) PROVE Contents = msgs
    <2>1. Len(msgs) = Len(list) /\ \A i \in 1..Len(list) : Contents[i] = msgs[i]
      BY <1>2, <1>4, <1>6 DEF Holds
    <2>2. Contents = [i \in 1..Len(list) |-> Contents[i]]
      BY <1>2
    <2> QED
      BY <1>1, <2>1, <2>2, SameSequence
  <1> QED
    BY <1>4, <1>5, <1>6

-----------------------------------------------------------------------------
(* How many threads are where.                                             *)

\* A set of threads is finite.
LEMMA InFinite ==
    ASSUME NEW places
    PROVE  IsFiniteSet(In(places)) /\ Cardinality(In(places)) \in Nat
  <1>1. In(places) \in SUBSET Thread
    BY DEF In
  <1>2. IsFiniteSet(In(places))
    BY <1>1, ThreadsFinite, FS_Subset
  <1> QED
    BY <1>2, FS_CardinalityType

\* A thread that arrives at one of the places makes their population one larger.
LEMMA Arrives ==
    ASSUME TypeOK, NEW t \in Thread, NEW places, NEW to, pc[t] \notin places, to \in places,
           pc' = [pc EXCEPT ![t] = to]
    PROVE  Cardinality(In(places)') = Cardinality(In(places)) + 1
  <1>1. In(places)' = In(places) \cup {t} /\ t \notin In(places)
    BY DEF In, TypeOK
  <1> QED
    BY <1>1, InFinite, FS_AddElement

\* A thread that leaves the places makes their population one smaller.
LEMMA Leaves ==
    ASSUME TypeOK, NEW t \in Thread, NEW places, NEW to, pc[t] \in places, to \notin places,
           pc' = [pc EXCEPT ![t] = to]
    PROVE  Cardinality(In(places)') = Cardinality(In(places)) - 1
  <1>1. In(places)' = In(places) \ {t} /\ t \in In(places)
    BY DEF In, TypeOK
  <1> QED
    BY <1>1, InFinite, FS_RemoveElement, ZenonT(60)

\* A move inside or outside the places does not change their population.
LEMMA Elsewhere ==
    ASSUME TypeOK, NEW t \in Thread, NEW places, NEW to, pc[t] \in places <=> to \in places,
           pc' = [pc EXCEPT ![t] = to]
    PROVE  Cardinality(In(places)') = Cardinality(In(places))
  <1>1. In(places)' = In(places)
    BY DEF In, TypeOK
  <1> QED
    BY <1>1

\* Two threads among the places: the population is at least two.
LEMMA TwoIn ==
    ASSUME NEW places, NEW t \in In(places), NEW u \in In(places), t # u
    PROVE  Cardinality(In(places)) >= 2
  <1>1. IsFiniteSet(In(places) \ {t}) /\ u \in In(places) \ {t}
    BY InFinite, FS_RemoveElement
  <1>2. Cardinality(In(places) \ {t}) \in Nat /\ Cardinality(In(places) \ {t}) # 0
    BY <1>1, FS_CardinalityType, FS_EmptySet
  <1>3. Cardinality(In(places) \ {t}) = Cardinality(In(places)) - 1
    BY InFinite, FS_RemoveElement
  <1> QED
    BY <1>2, <1>3, InFinite

\* One thread among the places: the population is not zero.
LEMMA OneIn ==
    ASSUME NEW places, NEW t \in In(places)
    PROVE  Cardinality(In(places)) >= 1
  <1>1. Cardinality(In(places)) # 0
    BY InFinite, FS_EmptySet
  <1> QED
    BY <1>1, InFinite

-----------------------------------------------------------------------------
(* Steps inside a critical section, and steps of threads outside.          *)

\* A statement inside a critical section changes only what its owner knows
\* of the list: the invariant is kept if the owner's new view is right.
LEMMA InsideKeeps ==
    ASSUME LlqInv, NEW t \in Thread, NEW to, pc[t] \in Owning, to \in Owning,
           pc[t] \in Receiving <=> to \in Receiving,
           pc' = [pc EXCEPT ![t] = to], UNCHANGED <<accessSem, countSem, before>>,
           TypeOK', ArgumentsKept', NEW list \in Seq(Node),
           AddShape(t, list)', RecvShape(t, list)'
    PROVE  LlqInv'
  <1>1. \A u \in Thread : pc'[u] = IF u = t THEN to ELSE pc[u]
    BY DEF LlqInv, TypeOK
  <1>2. Mutex' /\ accessSem' = 0
    BY <1>1 DEF LlqInv, Mutex
  <1>3. \A u \in Thread : u # t => pc'[u] \notin Owning
    BY <1>1 DEF LlqInv, Mutex
  <1>4. Shape(list)'
    <2>1. \A u \in Thread : u # t => AddShape(u, list)' /\ RecvShape(u, list)'
      BY <1>3 DEF AddShape, RecvShape, Owning
    <2> QED
      BY <1>2, <2>1 DEF Shape
  <1>5. Accounted(list)'
    <2>1. accessSem = 0
      BY <1>2
    <2>2. Len(before) = countSem + Cardinality(In(Receiving)) + Cardinality(In({"linked"}))
      BY <2>1 DEF LlqInv, Accounted
    <2>3. pc[t] \in {"linked"} <=> to \in {"linked"}
      BY DEF Owning
    <2>4. Cardinality(In(Receiving)') = Cardinality(In(Receiving))
      BY Elsewhere DEF LlqInv
    <2>5. Cardinality(In({"linked"})') = Cardinality(In({"linked"}))
      BY <2>3, Elsewhere DEF LlqInv
    <2> QED
      BY <1>2, <2>2, <2>4, <2>5 DEF Accounted
  <1> QED
    BY <1>2, <1>4, <1>5 DEF LlqInv

\* A step of a thread outside the critical sections leaves the list alone.
LEMMA OutsideKeepsShape ==
    ASSUME LlqInv, NEW t \in Thread, NEW to, pc[t] \notin Owning, to \notin Owning,
           pc' = [pc EXCEPT ![t] = to], UNCHANGED <<hndl, heap, accessSem, buffer, before>>,
           \A u \in Thread : u # t => call'[u] = call[u],
           NEW list \in Seq(Node), Shape(list)
    PROVE  Mutex' /\ Shape(list)'
  <1>1. \A u \in Thread : pc'[u] = IF u = t THEN to ELSE pc[u]
    BY DEF LlqInv, TypeOK
  <1>2. Mutex'
    BY <1>1 DEF LlqInv, Mutex
  <1>3. Whole(list) => Whole(list)'
    BY DEF Whole, Linked, Allocated
  <1>4. AddShape(t, list)' /\ RecvShape(t, list)'
    BY <1>1 DEF AddShape, RecvShape, Owning
  <1>5. ASSUME NEW u \in Thread, u # t PROVE AddShape(u, list)' /\ RecvShape(u, list)'
    <2>1. pc'[u] = pc[u] /\ call'[u] = call[u] /\ AddShape(u, list) /\ RecvShape(u, list)
      BY <1>1, <1>5 DEF Shape
    <2>2. Added(u)' = Added(u)
      BY <2>1 DEF Added
    <2>3. AddShape(u, list)'
      BY <2>1, <2>2 DEF AddShape, Whole, Linked, Allocated, Holds
    <2>4. RecvShape(u, list)'
      BY <2>1 DEF RecvShape, Whole, Linked, Allocated, Holds
    <2> QED
      BY <2>3, <2>4
  <1> QED
    BY <1>2, <1>3, <1>4, <1>5 DEF Shape

-----------------------------------------------------------------------------
(* What the accounting gives to a thread of llq_timedreceive.              *)

\* Whoever is in llq_timedreceive has an element of the list to its account.
LEMMA ReceiverBacked ==
    ASSUME LlqInv, NEW t \in Thread, pc[t] \in Receiving, NEW list \in Seq(Node), Accounted(list)
    PROVE  /\ accessSem = 1 => list # <<>>
           /\ accessSem = 0 => before # <<>>
           /\ \A u \in Thread : u # t /\ pc[u] \in Receiving /\ accessSem = 0 => Len(before) >= 2
  <1>1. Cardinality(In(Receiving)) \in Nat /\ Cardinality(In({"linked"})) \in Nat /\ countSem \in Nat
    BY InFinite DEF LlqInv, TypeOK
  <1>2. t \in In(Receiving)
    BY DEF In
  <1>3. Cardinality(In(Receiving)) >= 1
    BY <1>2, OneIn
  <1>4. Len(IF accessSem = 0 THEN before ELSE list) >= 1
    BY <1>1, <1>3 DEF Accounted
  <1>5. ASSUME NEW u \in Thread, u # t, pc[u] \in Receiving, accessSem = 0 PROVE Len(before) >= 2
    <2>1. u \in In(Receiving)
      BY <1>5 DEF In
    <2>2. Cardinality(In(Receiving)) >= 2
      BY <1>2, <1>5, <2>1, TwoIn
    <2> QED
      BY <1>1, <1>5, <2>2 DEF Accounted
  <1> QED
    BY <1>4, <1>5

\* The test of head that llq_timedreceive makes outside the critical section
\* always finds an element, whatever another thread is doing inside.
LEMMA HeadFound ==
    ASSUME LlqInv, NEW t \in Thread, pc[t] = "token"
    PROVE  hndl.head # NULL
  <1>1. PICK list \in Seq(Node) : Shape(list) /\ Accounted(list)
    BY DEF LlqInv
  <1>2. accessSem \in {0, 1} /\ before \in Seq(Message) /\ pc[t] \in Receiving
    BY DEF LlqInv, TypeOK, Receiving
  <1>3. list # <<>> => First(list) \in Node
    BY DEF First
  <1>4. CASE accessSem = 1
    <2>1. list # <<>> /\ hndl.head = First(list)
      BY <1>1, <1>2, <1>4, ReceiverBacked DEF Shape, Whole
    <2> QED
      BY <1>3, <2>1, PointersDistinct
  <1>5. CASE accessSem = 0
    <2>1. PICK u \in Thread : pc[u] \in Owning
      BY <1>5 DEF LlqInv, Mutex
    <2>2. u # t /\ AddShape(u, list) /\ RecvShape(u, list)
      BY <1>1, <2>1 DEF Owning, Shape
    <2>3. before # <<>> /\ (pc[u] \in Receiving => Len(before) >= 2)
      BY <1>1, <1>2, <1>5, <2>2, ReceiverBacked
    <2>4. Len(before) >= 1
      BY <1>2, <2>3
    <2>5. Holds(list, before) => list # <<>>
      BY <1>2, <2>4 DEF Holds
    <2>6. Holds(list, Added(u)) => Len(list) >= 2
      <3>1. call[u].msg \in Message \cup {Junk}
        BY DEF LlqInv, TypeOK
      <3>2. before \in Seq(Message \cup {Junk})
        BY <1>2
      <3>3. Len(Added(u)) = Len(before) + 1
        BY <3>1, <3>2 DEF Added
      <3> QED
        BY <2>4, <3>3, <1>2 DEF Holds
    <2>7. CASE pc[u] \in {"alloc", "copy", "free"}
      BY <1>3, <2>2, <2>5, <2>7, PointersDistinct DEF AddShape, RecvShape, Whole
    <2>8. CASE pc[u] = "fill"
      <3>1. Holds(list, before) /\ (list # <<>> => hndl.head = First(list))
        BY <2>2, <2>8 DEF AddShape
      <3> QED
        BY <1>3, <2>5, <3>1, PointersDistinct
    <2>9. CASE pc[u] = "publish"
      <3>1. Holds(list, Added(u)) /\ (Len(list) # 1 => hndl.head \in Node)
        BY <2>2, <2>9 DEF AddShape
      <3> QED
        BY <2>6, <3>1, PointersDistinct
    <2>10. CASE pc[u] = "addPost"
      <3>1. Holds(list, Added(u)) /\ hndl.head = First(list)
        BY <2>2, <2>10 DEF AddShape, Whole
      <3> QED
        BY <1>3, <2>6, <3>1, PointersDistinct
    <2>11. CASE pc[u] = "advance"
      BY <2>2, <2>11, PointersDistinct DEF RecvShape
    <2>12. CASE pc[u] = "recvPost"
      <3>1. Holds(list, Tail(before)) /\ hndl.head = First(list) /\ Len(before) >= 2
        BY <2>2, <2>3, <2>12 DEF RecvShape, Whole, Receiving
      <3>2. Len(list) >= 1
        BY <1>2, <3>1 DEF Holds
      <3> QED
        BY <1>3, <3>1, <3>2, PointersDistinct
    <2> QED
      BY <2>1, <2>7, <2>8, <2>9, <2>10, <2>11, <2>12 DEF Owning
  <1> QED
    BY <1>2, <1>4, <1>5

-----------------------------------------------------------------------------
(* The steps.                                                              *)

\* llq_open makes an empty list.
LEMMA InitLlqInv == Init => LlqInv
  <1> SUFFICES ASSUME Init PROVE LlqInv
    OBVIOUS
  <1>1. TypeOK
    BY DEF Init, TypeOK, NoCall, Adding, Receiving
  <1>2. ArgumentsKept /\ Mutex
    BY DEF Init, ArgumentsKept, Mutex, Adding, Owning
  <1>3. Shape(<<>>)
    <2>1. Whole(<<>>)
      BY DEF Init, Whole, Linked, Allocated, First, Last
    <2>2. \A t \in Thread : AddShape(t, <<>>) /\ RecvShape(t, <<>>)
      BY DEF Init, AddShape, RecvShape
    <2> QED
      BY <2>1, <2>2 DEF Shape
  <1>4. Accounted(<<>>)
    <2>1. In(Receiving) = {} /\ In({"linked"}) = {}
      BY DEF Init, In, Receiving
    <2>2. Cardinality(In(Receiving)) = 0 /\ Cardinality(In({"linked"})) = 0
      BY <2>1, FS_EmptySet
    <2>3. accessSem = 1 /\ countSem = 0
      BY DEF Init
    <2> QED
      BY <2>2, <2>3 DEF Accounted
  <1>5. <<>> \in Seq(Node)
    OBVIOUS
  <1> QED
    BY <1>1, <1>2, <1>3, <1>4, <1>5 DEF LlqInv

\* A call of llq_add that waits for the access semaphore.
LEMMA CallAddKeeps ==
    ASSUME LlqInv, NEW t \in Thread, NEW m \in Message, NEW prio \in {0, 1}, CallAdd(t, m, prio)
    PROVE  LlqInv'
  <1>1. pc[t] = "out" /\ pc' = [pc EXCEPT ![t] = "addWait"]
    BY DEF CallAdd, Goto
  <1>2. TypeOK' /\ ArgumentsKept'
    <2>1. TypeOK'
      BY DEF LlqInv, TypeOK, CallAdd, Goto, Adding
    <2>2. ArgumentsKept'
      BY DEF LlqInv, TypeOK, ArgumentsKept, CallAdd, Goto
    <2> QED
      BY <2>1, <2>2
  <1>3. PICK list \in Seq(Node) : Shape(list) /\ Accounted(list)
    BY DEF LlqInv
  <1>4. Mutex' /\ Shape(list)'
    BY <1>1, <1>3, OutsideKeepsShape DEF CallAdd, Owning, LlqInv, TypeOK
  <1>5. Cardinality(In(Receiving)') = Cardinality(In(Receiving))
    BY <1>1, Elsewhere DEF LlqInv, Receiving
  <1>6. Cardinality(In({"linked"})') = Cardinality(In({"linked"}))
    BY <1>1, Elsewhere DEF LlqInv
  <1>7. Accounted(list)'
    BY <1>3, <1>5, <1>6 DEF Accounted, CallAdd
  <1> QED
    BY <1>2, <1>4, <1>7 DEF LlqInv

\* The last statement of llq_add.
LEMMA SignalKeeps ==
    ASSUME LlqInv, NEW t \in Thread, Signal(t)
    PROVE  LlqInv'
  <1>1. pc[t] = "linked" /\ pc' = [pc EXCEPT ![t] = "out"]
    BY DEF Signal, Goto
  <1>2. TypeOK'
    BY DEF LlqInv, TypeOK, Signal, Goto
  <1>3. ArgumentsKept'
    BY DEF LlqInv, TypeOK, ArgumentsKept, Signal, Goto, Adding
  <1>4. PICK list \in Seq(Node) : Shape(list) /\ Accounted(list)
    BY DEF LlqInv
  <1>5. Mutex' /\ Shape(list)'
    BY <1>1, <1>4, OutsideKeepsShape DEF Signal, Owning
  <1>6. Cardinality(In(Receiving)') = Cardinality(In(Receiving))
    BY <1>1, Elsewhere DEF LlqInv, Receiving
  <1>7. Cardinality(In({"linked"})') = Cardinality(In({"linked"})) - 1
    <2> DEFINE place == {"linked"}
    <2>1. TypeOK /\ pc[t] \in place /\ "out" \notin place
      BY <1>1 DEF LlqInv
    <2> HIDE DEF place
    <2>2. Cardinality(In(place)') = Cardinality(In(place)) - 1
      BY <1>1, <2>1, Leaves
    <2> QED
      BY <2>2 DEF place
  <1>8. Accounted(list)'
    <2>1. Cardinality(In(Receiving)) \in Nat /\ Cardinality(In({"linked"})) \in Nat /\ countSem \in Nat
      BY InFinite DEF LlqInv, TypeOK
    <2> QED
      BY <1>4, <1>6, <1>7, <2>1 DEF Accounted, Signal
  <1> QED
    BY <1>2, <1>3, <1>5, <1>8 DEF LlqInv

\* A receive that is granted a unit.
LEMMA TokenKeeps ==
    ASSUME LlqInv, NEW t \in Thread, Token(t)
    PROVE  LlqInv'
  <1>1. pc[t] = "out" /\ pc' = [pc EXCEPT ![t] = "token"]
    BY DEF Token, Goto
  <1>2. TypeOK'
    BY DEF LlqInv, TypeOK, Token, Goto, Receiving
  <1>3. ArgumentsKept'
    BY DEF LlqInv, TypeOK, ArgumentsKept, Token, Goto, Adding
  <1>4. PICK list \in Seq(Node) : Shape(list) /\ Accounted(list)
    BY DEF LlqInv
  <1>5. Mutex' /\ Shape(list)'
    BY <1>1, <1>4, OutsideKeepsShape DEF Token, Owning
  <1>6. Cardinality(In(Receiving)') = Cardinality(In(Receiving)) + 1
    BY <1>1, Arrives DEF LlqInv, Receiving
  <1>7. Cardinality(In({"linked"})') = Cardinality(In({"linked"}))
    BY <1>1, Elsewhere DEF LlqInv
  <1>8. Accounted(list)'
    <2>1. Cardinality(In(Receiving)) \in Nat /\ Cardinality(In({"linked"})) \in Nat /\ countSem \in Nat
      BY InFinite DEF LlqInv, TypeOK
    <2> QED
      BY <1>4, <1>6, <1>7, <2>1 DEF Accounted, Token
  <1> QED
    BY <1>2, <1>3, <1>5, <1>8 DEF LlqInv

\* A receive that gives up.
LEMMA TimedOutKeeps ==
    ASSUME LlqInv, NEW t \in Thread, TimedOut(t)
    PROVE  LlqInv'
  <1>1. TypeOK' /\ ArgumentsKept' /\ Mutex'
    BY DEF LlqInv, TypeOK, ArgumentsKept, Mutex, TimedOut
  <1>2. PICK list \in Seq(Node) : Shape(list) /\ Accounted(list)
    BY DEF LlqInv
  <1>3. Shape(list)'
    BY <1>2, SMTT(60) DEF TimedOut, Shape, AddShape, RecvShape, Whole, Linked, Allocated, Holds, Added
  <1>4. Accounted(list)'
    BY <1>2 DEF TimedOut, Accounted, In
  <1> QED
    BY <1>1, <1>3, <1>4 DEF LlqInv

\* The unlocked test of head, which always succeeds.
LEMMA TestHeadKeeps ==
    ASSUME LlqInv, NEW t \in Thread, TestHead(t)
    PROVE  LlqInv' /\ hndl.head # NULL
  <1>1. pc[t] = "token" /\ hndl.head # NULL
    BY HeadFound DEF TestHead, Goto
  <1>2. pc' = [pc EXCEPT ![t] = "recvWait"] /\ got' = got
    BY <1>1 DEF TestHead, Goto
  <1>3. TypeOK'
    BY <1>2 DEF LlqInv, TypeOK, TestHead, Receiving
  <1>4. ArgumentsKept'
    BY <1>2 DEF LlqInv, TypeOK, ArgumentsKept, TestHead, Adding
  <1>5. PICK list \in Seq(Node) : Shape(list) /\ Accounted(list)
    BY DEF LlqInv
  <1>6. Mutex' /\ Shape(list)'
    BY <1>1, <1>2, <1>5, OutsideKeepsShape DEF TestHead, Owning
  <1>7. Cardinality(In(Receiving)') = Cardinality(In(Receiving))
    BY <1>1, <1>2, Elsewhere DEF LlqInv, Receiving
  <1>8. Cardinality(In({"linked"})') = Cardinality(In({"linked"}))
    BY <1>1, <1>2, Elsewhere DEF LlqInv
  <1>9. Accounted(list)'
    BY <1>5, <1>7, <1>8 DEF Accounted, TestHead
  <1> QED
    BY <1>1, <1>3, <1>4, <1>6, <1>9 DEF LlqInv

\* Entering a critical section: the owner knows the whole list.
LEMMA OwnKeeps ==
    ASSUME LlqInv, NEW t \in Thread, NEW to \in {"alloc", "copy"},
           pc[t] = IF to = "alloc" THEN "addWait" ELSE "recvWait",
           pc' = [pc EXCEPT ![t] = to], Own,
           UNCHANGED <<hndl, heap, countSem, call, buffer, got>>
    PROVE  LlqInv'
  <1>1. PICK list \in Seq(Node) : Shape(list) /\ Accounted(list)
    BY DEF LlqInv
  <1>2. accessSem = 1 /\ accessSem' = 0 /\ before' = Contents /\ Whole(list)
    BY <1>1 DEF Own, Shape
  <1>3. before' \in Seq(Message) /\ Holds(list, Contents) /\ Len(before') = Len(list)
    BY <1>2, ContentsHeld DEF LlqInv, Holds
  <1>4. TypeOK'
    BY <1>2, <1>3 DEF LlqInv, TypeOK, Adding, Receiving
  <1>5. ArgumentsKept'
    BY DEF LlqInv, TypeOK, ArgumentsKept, Adding
  <1>6. \A u \in Thread : pc[u] \notin Owning
    BY <1>2 DEF LlqInv, Mutex
  <1>7. \A u \in Thread : pc'[u] = IF u = t THEN to ELSE pc[u]
    BY DEF LlqInv, TypeOK
  <1>8. Mutex'
    BY <1>2, <1>6, <1>7 DEF Mutex, Owning
  <1>9. Shape(list)'
    <2>1. Whole(list)' /\ Holds(list, before)'
      BY <1>2, <1>3 DEF Whole, Linked, Allocated, Holds
    <2>2. AddShape(t, list)' /\ RecvShape(t, list)'
      BY <1>7, <2>1 DEF AddShape, RecvShape
    <2>3. \A u \in Thread : u # t => AddShape(u, list)' /\ RecvShape(u, list)'
      BY <1>6, <1>7 DEF AddShape, RecvShape, Owning
    <2> QED
      BY <1>2, <2>2, <2>3 DEF Shape
  <1>10. Accounted(list)'
    <2>1. pc[t] \in Receiving <=> to \in Receiving
      BY DEF Receiving
    <2>2. pc[t] \in {"linked"} <=> to \in {"linked"}
      OBVIOUS
    <2>3. Cardinality(In(Receiving)') = Cardinality(In(Receiving))
      BY <2>1, Elsewhere DEF LlqInv
    <2>4. Cardinality(In({"linked"})') = Cardinality(In({"linked"}))
      BY <2>2, Elsewhere DEF LlqInv
    <2> QED
      BY <1>1, <1>2, <1>3, <2>3, <2>4 DEF Accounted
  <1> QED
    BY <1>4, <1>5, <1>8, <1>9, <1>10 DEF LlqInv

\* Leaving a critical section: no thread owns the list, and it is whole.
LEMMA PostKeepsShape ==
    ASSUME LlqInv, NEW t \in Thread, NEW to, pc[t] \in Owning, to \notin Owning,
           pc' = [pc EXCEPT ![t] = to], accessSem' = accessSem + 1,
           UNCHANGED <<hndl, heap>>, NEW list \in Seq(Node), Whole(list)
    PROVE  accessSem = 0 /\ Mutex' /\ Shape(list)'
  <1>1. \A u \in Thread : pc'[u] = IF u = t THEN to ELSE pc[u]
    BY DEF LlqInv, TypeOK
  <1>2. accessSem = 0 /\ accessSem' = 1
    BY DEF LlqInv, Mutex
  <1>3. \A u \in Thread : pc'[u] \notin Owning
    BY <1>1 DEF LlqInv, Mutex
  <1>4. Mutex'
    BY <1>2, <1>3 DEF Mutex
  <1>5. Whole(list)'
    BY DEF Whole, Linked, Allocated
  <1>6. \A u \in Thread : AddShape(u, list)' /\ RecvShape(u, list)'
    BY <1>3 DEF AddShape, RecvShape, Owning
  <1> QED
    BY <1>2, <1>4, <1>5, <1>6 DEF Shape

\* The end of llq_add's critical section: the list has its message.
LEMMA AddPostKeeps ==
    ASSUME LlqInv, NEW t \in Thread, AddPost(t)
    PROVE  LlqInv'
  <1>1. pc[t] = "addPost" /\ pc' = [pc EXCEPT ![t] = "linked"]
    BY DEF AddPost, Goto
  <1>2. pc[t] \in Owning /\ "linked" \notin Owning
    BY <1>1 DEF Owning
  <1>3. PICK list \in Seq(Node) : Shape(list) /\ Accounted(list)
    BY DEF LlqInv
  <1>4. Whole(list) /\ Holds(list, Added(t))
    BY <1>1, <1>3 DEF Shape, AddShape
  <1>5. accessSem = 0 /\ Mutex' /\ Shape(list)'
    BY <1>1, <1>2, <1>4, PostKeepsShape DEF AddPost
  <1>6. TypeOK'
    BY <1>1, <1>5 DEF LlqInv, TypeOK, AddPost, NoCall
  <1>7. ArgumentsKept'
    BY <1>1 DEF LlqInv, TypeOK, ArgumentsKept, AddPost, Adding
  <1>8. Len(list) = Len(before) + 1
    <2>1. call[t].msg \in Message
      BY <1>1 DEF LlqInv, ArgumentsKept, Adding
    <2>2. Len(Added(t)) = Len(before) + 1
      BY <2>1 DEF Added, LlqInv, TypeOK
    <2> QED
      BY <1>4, <2>2 DEF Holds
  <1>9. Accounted(list)'
    <2>1. pc[t] \notin Receiving /\ "linked" \notin Receiving
          /\ pc[t] \notin {"linked"} /\ "linked" \in {"linked"}
      BY <1>1 DEF Receiving
    <2>2. Cardinality(In(Receiving)') = Cardinality(In(Receiving))
      BY <1>1, <2>1, Elsewhere DEF LlqInv
    <2>3. Cardinality(In({"linked"})') = Cardinality(In({"linked"})) + 1
      BY <1>1, <2>1, Arrives DEF LlqInv
    <2>4. Cardinality(In(Receiving)) \in Nat /\ Cardinality(In({"linked"})) \in Nat
          /\ countSem \in Nat /\ Len(before) \in Nat
      BY InFinite DEF LlqInv, TypeOK
    <2>5. Len(before) = countSem + Cardinality(In(Receiving)) + Cardinality(In({"linked"}))
      BY <1>3, <1>5 DEF Accounted
    <2> QED
      BY <1>5, <1>8, <2>2, <2>3, <2>4, <2>5 DEF Accounted, AddPost
  <1> QED
    BY <1>5, <1>6, <1>7, <1>9 DEF LlqInv

\* The end of llq_timedreceive's critical section: the list has lost its head.
LEMMA RecvPostKeeps ==
    ASSUME LlqInv, NEW t \in Thread, RecvPost(t)
    PROVE  LlqInv'
  <1>1. pc[t] = "recvPost" /\ pc' = [pc EXCEPT ![t] = "out"]
    BY DEF RecvPost, Goto
  <1>2. pc[t] \in Owning /\ "out" \notin Owning
    BY <1>1 DEF Owning
  <1>3. PICK list \in Seq(Node) : Shape(list) /\ Accounted(list)
    BY DEF LlqInv
  <1>4. Whole(list) /\ Holds(list, Tail(before)) /\ before # <<>> /\ buffer[t] = Head(before)
    BY <1>1, <1>3 DEF Shape, RecvShape
  <1>5. accessSem = 0 /\ Mutex' /\ Shape(list)'
    BY <1>1, <1>2, <1>4, PostKeepsShape DEF RecvPost
  <1>6. TypeOK'
    <2>1. buffer[t] \in Message
      BY <1>4 DEF LlqInv, TypeOK
    <2> QED
      BY <1>1, <1>5, <2>1 DEF LlqInv, TypeOK, RecvPost
  <1>7. ArgumentsKept'
    BY <1>1 DEF LlqInv, TypeOK, ArgumentsKept, RecvPost, Adding
  <1>8. Len(list) = Len(before) - 1
    BY <1>4 DEF Holds, LlqInv, TypeOK
  <1>9. Accounted(list)'
    <2>1. pc[t] \in Receiving /\ "out" \notin Receiving
          /\ pc[t] \notin {"linked"} /\ "out" \notin {"linked"}
      BY <1>1 DEF Receiving
    <2>2. Cardinality(In(Receiving)') = Cardinality(In(Receiving)) - 1
      BY <1>1, <2>1, Leaves DEF LlqInv
    <2>3. Cardinality(In({"linked"})') = Cardinality(In({"linked"}))
      BY <1>1, <2>1, Elsewhere DEF LlqInv
    <2>4. Cardinality(In(Receiving)) \in Nat /\ Cardinality(In({"linked"})) \in Nat
          /\ countSem \in Nat /\ Len(before) \in Nat
      BY InFinite DEF LlqInv, TypeOK
    <2>5. Len(before) = countSem + Cardinality(In(Receiving)) + Cardinality(In({"linked"}))
      BY <1>3, <1>5 DEF Accounted
    <2> QED
      BY <1>5, <1>8, <2>2, <2>3, <2>4, <2>5 DEF Accounted, RecvPost
  <1> QED
    BY <1>5, <1>6, <1>7, <1>9 DEF LlqInv

\* addToHead and addToTail: the new node is apart from the list, and the field
\* of the handle it was stored in tells whether the list was empty.
LEMMA AllocKeeps ==
    ASSUME LlqInv, NEW t \in Thread, Alloc(t)
    PROVE  LlqInv'
  <1>1. pc[t] = "alloc" /\ pc' = [pc EXCEPT ![t] = "fill"]
        /\ UNCHANGED <<accessSem, countSem, buffer, got, before>>
    BY DEF Alloc, Goto
  <1>2. PICK list \in Seq(Node) : Shape(list) /\ Accounted(list)
    BY DEF LlqInv
  <1>3. Whole(list) /\ Holds(list, before)
    BY <1>1, <1>2 DEF Shape, AddShape
  <1> DEFINE field == Field(call[t].prio)
  <1>4. PICK n \in Node \ Live :
           /\ heap' = [heap EXCEPT ![n] = [live |-> TRUE, ptr |-> Junk, data |-> Junk]]
           /\ hndl' = [hndl EXCEPT ![field] = n]
           /\ call' = [call EXCEPT ![t].field = field]
    BY DEF Alloc
  <1>5. call[t].prio \in {0, 1}
    BY DEF LlqInv, TypeOK
  <1>6. /\ field \in {IF call[t].prio = 1 THEN "head" ELSE "tail", "temp"}
        /\ field = "temp" <=> list # <<>>
    <2>1. hndl.head = NULL <=> list = <<>>
      BY <1>3, PointersDistinct DEF Whole, First
    <2>2. hndl.tail = NULL <=> list = <<>>
      BY <1>3, PointersDistinct DEF Whole, Last
    <2> QED
      BY <1>5, <2>1, <2>2 DEF Field
  <1> HIDE DEF field
  <1>7. TypeOK'
    BY <1>1, <1>4, <1>6, ZenonT(60) DEF LlqInv, TypeOK, Adding
  <1>8. ArgumentsKept'
    BY <1>1, <1>4 DEF LlqInv, TypeOK, ArgumentsKept, Adding
  <1>9. call'[t].prio = call[t].prio /\ call'[t].field = field
        /\ hndl'[field] = n /\ (field = "temp" => hndl'.head = hndl.head /\ hndl'.tail = hndl.tail)
    BY <1>4, <1>6 DEF LlqInv, TypeOK
  <1>10. \A i \in DOMAIN list : list[i] \in Node /\ list[i] # n /\ heap'[list[i]] = heap[list[i]]
    BY <1>3, <1>4 DEF Whole, Linked, Live, LlqInv, TypeOK
  <1>11. Linked(list)' /\ Holds(list, before)'
    BY <1>1, <1>3, <1>10 DEF Whole, Linked, Holds
  <1>12. Allocated(list, {n})'
    BY <1>3, <1>4 DEF Whole, Allocated, LlqInv, TypeOK
  <1>13. AddShape(t, list)'
    <2>1. pc'[t] = "fill"
      BY <1>1 DEF LlqInv, TypeOK
    <2> QED
      BY <1>3, <1>4, <1>6, <1>9, <1>10, <1>11, <1>12, <2>1, ZenonT(60) DEF AddShape, Whole
  <1>14. RecvShape(t, list)'
    BY <1>1 DEF RecvShape, LlqInv, TypeOK
  <1>15. pc[t] \in Owning /\ "fill" \in Owning /\ pc[t] \notin Receiving /\ "fill" \notin Receiving
    BY <1>1 DEF Owning, Receiving
  <1> QED
    BY <1>1, <1>7, <1>8, <1>13, <1>14, <1>15, InsideKeeps

\* The new node becomes the only one of an empty list, ...
LEMMA FillEmpty ==
    ASSUME LlqInv, NEW t \in Thread, Fill(t), call[t].field # "temp",
           NEW list \in Seq(Node), AddShape(t, list), pc[t] = "fill",
           NEW new, new = hndl[call[t].field], NEW msg, call[t].msg = msg, NEW old, before = old
    PROVE  AddShape(t, <<new>>)'
  <1> DEFINE one == <<new>>
  <1>1. pc'[t] = "publish" /\ UNCHANGED <<hndl, call, before>>
    BY DEF Fill, Goto, LlqInv, TypeOK
  <1>2. /\ list = <<>> /\ new \in Node /\ Allocated(list, {new}) /\ Holds(list, before)
        /\ call[t].field \in {IF call[t].prio = 1 THEN "head" ELSE "tail", "temp"}
    BY DEF AddShape
  <1>3. heap' = [heap EXCEPT ![new] = [live |-> TRUE, data |-> msg, ptr |-> NULL]]
    BY DEF Fill
  <1>4. msg \in Message /\ old \in Seq(Message)
    BY DEF LlqInv, ArgumentsKept, Adding, TypeOK
  <1>5. one \in Seq(Node) /\ Len(one) = 1 /\ DOMAIN one = {1} /\ one[1] = new
    BY <1>2
  <1> HIDE DEF one
  <1>6. heap'[new] = [live |-> TRUE, data |-> msg, ptr |-> NULL]
    BY <1>2, <1>3 DEF LlqInv, TypeOK
  <1>7. Linked(one)'
    BY <1>4, <1>5, <1>6 DEF Linked
  <1>8. Allocated(one, {})'
    BY <1>2, <1>3, <1>5 DEF Allocated, LlqInv, TypeOK
  <1>9. Added(t)' = <<msg>>
    <2>1. old = <<>>
      BY <1>2, <1>4 DEF Holds
    <2> QED
      BY <1>1, <1>4, <2>1 DEF Added
  <1>10. Holds(one, <<msg>>)'
    BY <1>1, <1>5, <1>6 DEF Holds
  <1>11. Holds(one, Added(t))'
    BY <1>9, <1>10 DEF Holds
  <1> QED
    BY <1>1, <1>2, <1>5, <1>7, <1>8, <1>11 DEF AddShape, one

\* ... the first one of a list with elements (addToHead), ...
LEMMA FillAtHead ==
    ASSUME LlqInv, NEW t \in Thread, Fill(t), call[t].field = "temp", call[t].prio = 1,
           NEW list \in Seq(Node), AddShape(t, list), pc[t] = "fill",
           NEW new, new = hndl.temp, NEW msg, call[t].msg = msg, NEW old, before = old
    PROVE  AddShape(t, <<new>> \o list)'
  <1> DEFINE longer == <<new>> \o list
  <1>1. pc'[t] = "publish" /\ UNCHANGED <<hndl, call, before>>
    BY DEF Fill, Goto, LlqInv, TypeOK
  <1>2. /\ list # <<>> /\ new \in Node /\ Allocated(list, {new}) /\ Holds(list, before)
        /\ Linked(list) /\ \A i \in DOMAIN list : list[i] # new
        /\ hndl.head = list[1] /\ hndl.tail = list[Len(list)] /\ hndl.head \in Node
    BY DEF AddShape, First, Last
  <1>3. heap' = [heap EXCEPT ![new] = [live |-> TRUE, data |-> msg, ptr |-> hndl.head]]
    BY DEF Fill
  <1>4. msg \in Message /\ old \in Seq(Message)
    BY DEF LlqInv, ArgumentsKept, Adding, TypeOK
  <1>5. /\ longer \in Seq(Node) /\ Len(longer) = Len(list) + 1 /\ longer # <<>> /\ Len(list) >= 1
        /\ longer[1] = new /\ DOMAIN longer = 1..(Len(list) + 1) /\ DOMAIN list = 1..Len(list)
        /\ \A i \in DOMAIN list : longer[i + 1] = list[i]
        /\ \A i \in DOMAIN longer : i # 1 => i - 1 \in DOMAIN list /\ longer[i] = list[i - 1]
    BY <1>2
  <1> HIDE DEF longer
  <1>6. heap'[new] = [live |-> TRUE, data |-> msg, ptr |-> hndl.head]
        /\ \A i \in DOMAIN list : heap'[list[i]] = heap[list[i]]
    BY <1>2, <1>3 DEF LlqInv, TypeOK
  <1>7. Linked(longer)'
    <2>1. \A i, j \in DOMAIN longer : longer[i] = longer[j] => i = j
      BY <1>2, <1>5, SMTT(60) DEF Linked
    <2>2. ASSUME NEW i \in DOMAIN longer
          PROVE  /\ heap'[longer[i]].live /\ heap'[longer[i]].data \in Message
                 /\ heap'[longer[i]].ptr = IF i = Len(longer) THEN NULL ELSE longer[i + 1]
      <3>1. CASE i = 1
        BY <1>2, <1>4, <1>5, <1>6, <3>1, SMTT(60)
      <3>2. CASE i # 1
        <4>1. i - 1 \in DOMAIN list /\ longer[i] = list[i - 1]
          BY <1>5, <3>2
        <4>2. heap'[longer[i]] = heap[list[i - 1]]
          BY <1>6, <4>1
        <4>3. heap[list[i - 1]].live /\ heap[list[i - 1]].data \in Message
              /\ heap[list[i - 1]].ptr = IF i - 1 = Len(list) THEN NULL ELSE list[(i - 1) + 1]
          BY <1>2, <4>1 DEF Linked
        <4>4. (i - 1) + 1 = i /\ (i - 1 = Len(list) <=> i = Len(longer))
          BY <1>5
        <4>5. i # Len(longer) => i \in DOMAIN list
          BY <1>5
        <4> QED
          BY <1>5, <4>2, <4>3, <4>4, <4>5
      <3> QED
        BY <3>1, <3>2
    <2> QED
      BY <1>5, <2>1, <2>2 DEF Linked
  <1>8. Allocated(longer, {})'
    <2>1. ASSUME NEW n \in Node PROVE heap'[n].live <=> \E i \in DOMAIN longer : longer[i] = n
      <3>1. heap'[n].live <=> n = new \/ heap[n].live
        BY <1>2, <1>3 DEF LlqInv, TypeOK
      <3>2. (\E i \in DOMAIN longer : longer[i] = n) <=> n = new \/ \E i \in DOMAIN list : list[i] = n
        <4>1. 1 \in DOMAIN longer /\ \A i \in DOMAIN list : i + 1 \in DOMAIN longer
          BY <1>5
        <4> QED
          BY <1>5, <4>1, SMTT(60)
      <3> QED
        BY <1>2, <3>1, <3>2 DEF Allocated
    <2> QED
      BY <2>1 DEF Allocated
  <1>9. Holds(longer, <<msg>> \o old)'
    <2>1. Len(list) = Len(old) /\ \A i \in DOMAIN list : heap[list[i]].data = old[i]
      BY <1>2 DEF Holds
    <2> DEFINE msgs == <<msg>> \o old
    <2>2. Len(msgs) = Len(old) + 1 /\ msgs[1] = msg
          /\ \A i \in 1..Len(msgs) : i # 1 => msgs[i] = old[i - 1]
      BY <1>4
    <2> HIDE DEF msgs
    <2>3. ASSUME NEW i \in DOMAIN longer PROVE heap'[longer[i]].data = msgs[i]
      <3>1. CASE i = 1
        BY <1>5, <1>6, <2>2, <3>1
      <3>2. CASE i # 1
        <4>1. i - 1 \in DOMAIN list /\ longer[i] = list[i - 1] /\ i \in 1..Len(msgs)
          BY <1>5, <2>1, <2>2, <3>2
        <4>2. heap'[longer[i]].data = heap[list[i - 1]].data
          BY <1>6, <4>1
        <4>3. msgs[i] = old[i - 1]
          BY <2>2, <3>2, <4>1
        <4> QED
          BY <2>1, <4>1, <4>2, <4>3
      <3> QED
        BY <3>1, <3>2
    <2>4. Holds(longer, msgs)'
      BY <1>1, <1>5, <2>1, <2>2, <2>3 DEF Holds, msgs
    <2> QED
      BY <2>4 DEF msgs
  <1>10. Added(t)' = <<msg>> \o old
    BY <1>1 DEF Added
  <1>11. Holds(longer, Added(t))'
    BY <1>9, <1>10 DEF Holds
  <1>12. First(longer) = new /\ Last(longer) = hndl.tail
    BY <1>2, <1>5 DEF First, Last
  <1> QED
    BY <1>1, <1>2, <1>7, <1>8, <1>11, <1>12 DEF AddShape, longer

\* ... or the last one (addToTail, which follows tail).
LEMMA FillAtTail ==
    ASSUME LlqInv, NEW t \in Thread, Fill(t), call[t].field = "temp", call[t].prio = 0,
           NEW list \in Seq(Node), AddShape(t, list), pc[t] = "fill",
           NEW new, new = hndl.temp, NEW msg, call[t].msg = msg, NEW old, before = old
    PROVE  AddShape(t, Append(list, new))'
  <1> DEFINE last == Len(list)
             longer == Append(list, new)
  <1>1. pc'[t] = "publish" /\ UNCHANGED <<hndl, call, before>>
    BY DEF Fill, Goto, LlqInv, TypeOK
  <1>2. /\ list # <<>> /\ new \in Node /\ Allocated(list, {new}) /\ Holds(list, before)
        /\ Linked(list) /\ \A i \in DOMAIN list : list[i] # new
        /\ hndl.head = list[1] /\ hndl.tail = list[last] /\ hndl.head \in Node
        /\ hndl.tail \in Node
    BY DEF AddShape, First, Last
  <1>3. heap' = [heap EXCEPT ![list[last]].ptr = new,
                            ![new] = [live |-> TRUE, data |-> msg, ptr |-> NULL]]
    BY <1>2 DEF Fill
  <1>4. msg \in Message /\ old \in Seq(Message)
    BY DEF LlqInv, ArgumentsKept, Adding, TypeOK
  <1>5. /\ last \in Nat /\ last >= 1 /\ DOMAIN list = 1..last /\ last \in DOMAIN list
        /\ longer \in Seq(Node) /\ Len(longer) = last + 1 /\ longer # <<>>
        /\ longer[last + 1] = new /\ DOMAIN longer = 1..(last + 1)
        /\ \A i \in DOMAIN list : longer[i] = list[i]
        /\ \A i \in DOMAIN longer : i # last + 1 => i \in DOMAIN list
    BY <1>2
  <1> HIDE DEF longer, last
  <1>6. /\ heap'[new] = [live |-> TRUE, data |-> msg, ptr |-> NULL]
        /\ heap'[list[last]] = [heap[list[last]] EXCEPT !.ptr = new]
        /\ \A n \in Node : n # new /\ n # list[last] => heap'[n] = heap[n]
    BY <1>2, <1>3, <1>5 DEF LlqInv, TypeOK
  <1>7. \A i \in DOMAIN list : /\ heap'[list[i]].live = heap[list[i]].live
                               /\ heap'[list[i]].data = heap[list[i]].data
                               /\ heap'[list[i]].ptr = IF i = last THEN new ELSE heap[list[i]].ptr
    <2> TAKE i \in DOMAIN list
    <2>1. list[i] \in Node /\ list[i] # new
      BY <1>2
    <2>2. CASE i = last
      BY <1>6, <2>2, <2>1 DEF LlqInv, TypeOK
    <2>3. CASE i # last
      BY <1>2, <1>5, <1>6, <2>1, <2>3 DEF Linked
    <2> QED
      BY <2>2, <2>3
  <1>8. Linked(longer)'
    <2>1. \A i, j \in DOMAIN longer : longer[i] = longer[j] => i = j
      BY <1>2, <1>5 DEF Linked
    <2>2. ASSUME NEW i \in DOMAIN longer
          PROVE  /\ heap'[longer[i]].live /\ heap'[longer[i]].data \in Message
                 /\ heap'[longer[i]].ptr = IF i = Len(longer) THEN NULL ELSE longer[i + 1]
      <3>1. CASE i = last + 1
        BY <1>2, <1>4, <1>5, <1>6, <3>1
      <3>2. CASE i # last + 1
        <4>1. i \in DOMAIN list /\ longer[i] = list[i] /\ i # Len(longer)
          BY <1>5, <3>2
        <4>2. heap[list[i]].live /\ heap[list[i]].data \in Message
              /\ heap[list[i]].ptr = IF i = last THEN NULL ELSE list[i + 1]
          BY <1>2, <4>1 DEF Linked, last
        <4>3. i # last => i + 1 \in DOMAIN list /\ longer[i + 1] = list[i + 1]
          BY <1>5, <4>1
        <4> QED
          BY <1>5, <1>7, <4>1, <4>2, <4>3
      <3> QED
        BY <3>1, <3>2
    <2> QED
      BY <1>5, <2>1, <2>2 DEF Linked
  <1>9. Allocated(longer, {})'
    <2>1. ASSUME NEW n \in Node PROVE heap'[n].live <=> \E i \in DOMAIN longer : longer[i] = n
      <3>1. heap'[n].live <=> n = new \/ heap[n].live
        BY <1>2, <1>5, <1>6, <1>7
      <3>2. (\E i \in DOMAIN longer : longer[i] = n) <=> n = new \/ \E i \in DOMAIN list : list[i] = n
        <4>1. last + 1 \in DOMAIN longer /\ \A i \in DOMAIN list : i \in DOMAIN longer
          BY <1>5
        <4> QED
          BY <1>5, <4>1
      <3> QED
        BY <1>2, <3>1, <3>2 DEF Allocated
    <2> QED
      BY <2>1 DEF Allocated
  <1>10. Holds(longer, Append(old, msg))'
    <2>1. last = Len(old) /\ \A i \in DOMAIN list : heap[list[i]].data = old[i]
      BY <1>2 DEF Holds, last
    <2> DEFINE msgs == Append(old, msg)
    <2>2. Len(msgs) = Len(old) + 1 /\ msgs[Len(old) + 1] = msg
          /\ \A i \in 1..Len(old) : msgs[i] = old[i]
      BY <1>4
    <2> HIDE DEF msgs
    <2>3. \A i \in DOMAIN longer : heap'[longer[i]].data = msgs[i]
      BY <1>5, <1>6, <1>7, <2>1, <2>2
    <2>4. Holds(longer, msgs)'
      BY <1>1, <1>5, <2>1, <2>2, <2>3 DEF Holds, msgs
    <2> QED
      BY <2>4 DEF msgs
  <1>11. Added(t)' = Append(old, msg)
    BY <1>1 DEF Added
  <1>12. Holds(longer, Added(t))'
    BY <1>10, <1>11 DEF Holds
  <1>13. First(longer) = hndl.head /\ Last(longer) = new
    BY <1>2, <1>5 DEF First, Last
  <1> QED
    BY <1>1, <1>2, <1>5, <1>8, <1>9, <1>12, <1>13 DEF AddShape, longer

\* Linking the node and copying the message into it.
LEMMA FillKeeps ==
    ASSUME LlqInv, NEW t \in Thread, Fill(t)
    PROVE  LlqInv'
  <1>1. pc[t] = "fill" /\ pc' = [pc EXCEPT ![t] = "publish"]
        /\ UNCHANGED <<hndl, accessSem, countSem, call, buffer, got, before>>
    BY DEF Fill, Goto
  <1>2. PICK list \in Seq(Node) : Shape(list) /\ Accounted(list)
    BY DEF LlqInv
  <1>3. AddShape(t, list)
    BY <1>2 DEF Shape
  <1>4. PICK new : new = hndl[call[t].field]
    OBVIOUS
  <1>5. PICK msg : call[t].msg = msg
    OBVIOUS
  <1>6. PICK old : before = old
    OBVIOUS
  <1>7. new \in Node
    BY <1>1, <1>3, <1>4 DEF AddShape
  <1>8. TypeOK'
    <2>1. call[t].msg \in Message /\ hndl.head \in Node \cup {NULL}
      BY <1>1 DEF LlqInv, TypeOK, ArgumentsKept, Adding
    <2> DEFINE node == [live |-> TRUE, data |-> call[t].msg,
                        ptr |-> IF call[t].field = "temp" /\ call[t].prio = 1
                                THEN hndl.head ELSE NULL]
    <2>2. node \in [live : BOOLEAN, ptr : Node \cup {NULL, Junk}, data : Message \cup {Junk}]
      BY <2>1
    <2>3. heap' = IF call[t].field = "temp" /\ call[t].prio = 0
                  THEN [heap EXCEPT ![hndl.tail].ptr = new, ![new] = node]
                  ELSE [heap EXCEPT ![new] = node]
      BY <1>4 DEF Fill
    <2> HIDE DEF node
    <2>4. heap' \in [Node -> [live : BOOLEAN, ptr : Node \cup {NULL, Junk}, data : Message \cup {Junk}]]
      BY <1>7, <2>2, <2>3, ZenonT(60) DEF LlqInv, TypeOK
    <2> QED
      BY <1>1, <2>4 DEF LlqInv, TypeOK, Adding
  <1>9. ArgumentsKept'
    BY <1>1 DEF LlqInv, TypeOK, ArgumentsKept, Adding
  <1>10. \A longer : RecvShape(t, longer)'
    BY <1>1 DEF RecvShape, LlqInv, TypeOK
  <1>11. pc[t] \in Owning /\ "publish" \in Owning
         /\ pc[t] \notin Receiving /\ "publish" \notin Receiving
    BY <1>1 DEF Owning, Receiving
  <1>12. CASE call[t].field # "temp"
    <2>1. AddShape(t, <<new>>)' /\ <<new>> \in Seq(Node)
      BY <1>1, <1>3, <1>4, <1>5, <1>6, <1>7, <1>12, FillEmpty
    <2> QED
      BY <1>1, <1>8, <1>9, <1>10, <1>11, <2>1, InsideKeeps
  <1>13. CASE call[t].field = "temp" /\ call[t].prio = 1
    <2>1. AddShape(t, <<new>> \o list)' /\ <<new>> \o list \in Seq(Node)
      BY <1>1, <1>3, <1>4, <1>5, <1>6, <1>7, <1>13, FillAtHead
    <2> QED
      BY <1>1, <1>8, <1>9, <1>10, <1>11, <2>1, InsideKeeps
  <1>14. CASE call[t].field = "temp" /\ call[t].prio = 0
    <2>1. AddShape(t, Append(list, new))' /\ Append(list, new) \in Seq(Node)
      BY <1>1, <1>3, <1>4, <1>5, <1>6, <1>7, <1>14, FillAtTail
    <2> QED
      BY <1>1, <1>8, <1>9, <1>10, <1>11, <2>1, InsideKeeps
  <1> QED
    BY <1>12, <1>13, <1>14 DEF LlqInv, TypeOK

\* Moving the ends: head and tail lead to the new list.
LEMMA PublishKeeps ==
    ASSUME LlqInv, NEW t \in Thread, Publish(t)
    PROVE  LlqInv'
  <1>1. pc[t] = "publish" /\ pc' = [pc EXCEPT ![t] = "addPost"]
        /\ UNCHANGED <<heap, accessSem, countSem, call, buffer, got, before>>
    BY DEF Publish, Goto
  <1>2. PICK list \in Seq(Node) : Shape(list) /\ Accounted(list)
    BY DEF LlqInv
  <1>3. /\ Linked(list) /\ Allocated(list, {}) /\ Holds(list, Added(t))
        /\ call[t].field \in {IF call[t].prio = 1 THEN "head" ELSE "tail", "temp"}
        /\ IF call[t].field = "temp"
           THEN /\ hndl.head \in Node
                /\ call[t].prio = 1 => hndl.temp = First(list) /\ hndl.tail = Last(list)
                /\ call[t].prio = 0 => hndl.head = First(list) /\ hndl.temp = Last(list)
           ELSE Len(list) = 1 /\ hndl[call[t].field] = list[1]
    BY <1>1, <1>2 DEF Shape, AddShape
  <1>4. call[t].prio \in {0, 1} /\ hndl \in [{"head", "tail", "temp"} -> Node \cup {NULL}]
    BY DEF LlqInv, TypeOK
  <1>5. hndl'.head = First(list) /\ hndl'.tail = Last(list)
    <2>1. Len(list) = 1 => First(list) = list[1] /\ Last(list) = list[1]
      BY DEF First, Last
    <2>2. CASE call[t].field = "head"
      <3>1. Len(list) = 1 /\ hndl.head = list[1]
        BY <1>3, <2>2
      <3>2. hndl' = [hndl EXCEPT !.tail = hndl.head]
        BY <2>2 DEF Publish
      <3>3. hndl'.head = hndl.head /\ hndl'.tail = hndl.head
        BY <1>4, <3>2
      <3> QED
        BY <2>1, <3>1, <3>3
    <2>3. CASE call[t].field = "tail"
      BY <1>3, <1>4, <2>1, <2>3 DEF Publish
    <2>4. CASE call[t].field = "temp"
      BY <1>3, <1>4, <2>4 DEF Publish
    <2>5. call[t].field \in {"head", "tail", "temp"}
      BY <1>3
    <2> QED
      BY <2>2, <2>3, <2>4, <2>5
  <1>6. hndl' \in [{"head", "tail", "temp"} -> Node \cup {NULL}]
    BY <1>3, <1>4 DEF Publish
  <1>7. TypeOK'
    BY <1>1, <1>6 DEF LlqInv, TypeOK, Adding
  <1>8. ArgumentsKept'
    BY <1>1 DEF LlqInv, TypeOK, ArgumentsKept, Adding
  <1>9. pc'[t] = "addPost"
    BY <1>1 DEF LlqInv, TypeOK
  <1>10. Whole(list)' /\ Holds(list, Added(t))'
    BY <1>1, <1>3, <1>5 DEF Whole, Linked, Allocated, Holds, Added
  <1>11. AddShape(t, list)' /\ RecvShape(t, list)'
    BY <1>9, <1>10 DEF AddShape, RecvShape
  <1>12. pc[t] \in Owning /\ "addPost" \in Owning
         /\ pc[t] \notin Receiving /\ "addPost" \notin Receiving
    BY <1>1 DEF Owning, Receiving
  <1> QED
    BY <1>1, <1>7, <1>8, <1>11, <1>12, InsideKeeps

\* The copy of the head: it is there, although head was tested too early.
LEMMA CopyKeeps ==
    ASSUME LlqInv, NEW t \in Thread, Copy(t)
    PROVE  LlqInv'
  <1>1. pc[t] = "copy" /\ pc' = [pc EXCEPT ![t] = "free"]
        /\ UNCHANGED <<heap, accessSem, countSem, call, got, before>>
    BY DEF Copy, Goto
  <1>2. PICK list \in Seq(Node) : Shape(list) /\ Accounted(list)
    BY DEF LlqInv
  <1>3. Whole(list) /\ Holds(list, before)
    BY <1>1, <1>2 DEF Shape, RecvShape
  <1>4. pc[t] \in Owning /\ "free" \in Owning /\ pc[t] \in Receiving /\ "free" \in Receiving
    BY <1>1 DEF Owning, Receiving
  <1>5. list # <<>> /\ before # <<>> /\ before \in Seq(Message)
    <2>1. accessSem = 0 /\ before \in Seq(Message)
      BY <1>4 DEF LlqInv, Mutex, TypeOK
    <2>2. before # <<>>
      BY <1>2, <1>4, <2>1, ReceiverBacked
    <2> QED
      BY <1>3, <2>1, <2>2 DEF Holds
  <1>6. 1 \in DOMAIN list /\ hndl.head = list[1] /\ list[1] \in Node
    BY <1>3, <1>5 DEF Whole, First
  <1>7. heap[list[1]].data = Head(before) /\ Head(before) \in Message
    BY <1>3, <1>5, <1>6 DEF Holds
  <1>8. heap[list[1]].ptr \in Node \cup {NULL}
    <2>1. heap[list[1]].ptr = IF 1 = Len(list) THEN NULL ELSE list[1 + 1]
      BY <1>3, <1>6 DEF Whole, Linked
    <2>2. Len(list) # 1 => 1 + 1 \in DOMAIN list
      <3>1. Len(list) \in Nat /\ Len(list) >= 1 /\ DOMAIN list = 1..Len(list)
        BY <1>5
      <3> QED
        BY <3>1
    <2>3. Len(list) # 1 => list[1 + 1] \in Node
      BY <2>2
    <2> QED
      BY <2>1, <2>3
  <1>9. hndl' = [hndl EXCEPT !.temp = heap[list[1]].ptr] /\ buffer' = [buffer EXCEPT ![t] = Head(before)]
    BY <1>6, <1>7 DEF Copy
  <1>10. TypeOK'
    BY <1>1, <1>7, <1>8, <1>9 DEF LlqInv, TypeOK, Receiving
  <1>11. ArgumentsKept'
    BY <1>1 DEF LlqInv, TypeOK, ArgumentsKept, Adding
  <1>12. pc'[t] = "free" /\ buffer'[t] = Head(before)
         /\ hndl'.temp = heap[list[1]].ptr /\ hndl'.head = hndl.head /\ hndl'.tail = hndl.tail
    BY <1>1, <1>9 DEF LlqInv, TypeOK
  <1>13. Whole(list)' /\ Holds(list, before)'
    BY <1>1, <1>3, <1>12 DEF Whole, Linked, Allocated, Holds
  <1>14. AddShape(t, list)' /\ RecvShape(t, list)'
    BY <1>1, <1>5, <1>12, <1>13 DEF AddShape, RecvShape
  <1> QED
    BY <1>1, <1>4, <1>10, <1>11, <1>14, InsideKeeps

\* The elements of a sequence after the first.
LEMMA RestOf ==
    ASSUME NEW S, NEW q \in Seq(S), q # <<>>
    PROVE  /\ Len(q) \in Nat /\ Len(q) >= 1 /\ DOMAIN q = 1..Len(q) /\ 1 \in DOMAIN q
           /\ Tail(q) \in Seq(S) /\ Len(Tail(q)) = Len(q) - 1 /\ DOMAIN Tail(q) = 1..(Len(q) - 1)
           /\ \A i \in DOMAIN Tail(q) : i + 1 \in DOMAIN q /\ Tail(q)[i] = q[i + 1]
           /\ Tail(q) = <<>> <=> Len(q) = 1
  <1>1. Len(q) \in Nat /\ Len(q) >= 1 /\ DOMAIN q = 1..Len(q) /\ 1 \in DOMAIN q
    OBVIOUS
  <1>2. Tail(q) \in Seq(S) /\ Len(Tail(q)) = Len(q) - 1 /\ DOMAIN Tail(q) = 1..(Len(q) - 1)
    OBVIOUS
  <1>3. \A i \in DOMAIN Tail(q) : i + 1 \in DOMAIN q /\ Tail(q)[i] = q[i + 1]
    BY <1>1, <1>2
  <1>4. Tail(q) = <<>> <=> Len(q) = 1
    <2>1. \A r \in Seq(S) : r = <<>> <=> Len(r) = 0
      OBVIOUS
    <2>2. Tail(q) = <<>> <=> Len(Tail(q)) = 0
      BY <1>2, <2>1, Zenon
    <2>3. Len(Tail(q)) = 0 <=> Len(q) = 1
      BY <1>1, <1>2
    <2> QED
      BY <2>2, <2>3
  <1> QED
    BY <1>1, <1>2, <1>3, <1>4

\* Freeing the head: the list is what follows it.
LEMMA FreeKeeps ==
    ASSUME LlqInv, NEW t \in Thread, Free(t)
    PROVE  LlqInv'
  <1>1. pc[t] = "free" /\ pc' = [pc EXCEPT ![t] = "advance"]
        /\ UNCHANGED <<hndl, accessSem, countSem, call, buffer, got, before>>
    BY DEF Free, Goto
  <1>2. PICK list \in Seq(Node) : Shape(list) /\ Accounted(list)
    BY DEF LlqInv
  <1>3. /\ Whole(list) /\ Holds(list, before) /\ list # <<>>
        /\ hndl.temp = heap[list[1]].ptr /\ buffer[t] = Head(before)
    BY <1>1, <1>2 DEF Shape, RecvShape
  <1>4. PICK old : before = old
    OBVIOUS
  <1>5. old \in Seq(Message) /\ old # <<>> /\ Len(old) = Len(list)
    BY <1>3, <1>4 DEF Holds, LlqInv, TypeOK
  <1> DEFINE rest == Tail(list)
  <1>6. /\ Len(list) \in Nat /\ Len(list) >= 1 /\ DOMAIN list = 1..Len(list) /\ 1 \in DOMAIN list
        /\ rest \in Seq(Node) /\ Len(rest) = Len(list) - 1 /\ DOMAIN rest = 1..(Len(list) - 1)
        /\ \A i \in DOMAIN rest : i + 1 \in DOMAIN list /\ rest[i] = list[i + 1]
        /\ rest = <<>> <=> Len(list) = 1
    BY <1>3, RestOf
  <1> HIDE DEF rest
  <1>7. hndl.head = list[1] /\ list[1] \in Node /\ hndl.tail = list[Len(list)] /\ Linked(list)
        /\ Allocated(list, {})
    BY <1>3, <1>6 DEF Whole, First, Last
  <1>8. heap' = [heap EXCEPT ![list[1]] = [live |-> FALSE, ptr |-> Junk, data |-> Junk]]
    BY <1>7 DEF Free
  <1>9. TypeOK'
    BY <1>1, <1>8 DEF LlqInv, TypeOK, Receiving
  <1>10. ArgumentsKept'
    BY <1>1 DEF LlqInv, TypeOK, ArgumentsKept, Adding
  <1>11. \A i \in DOMAIN rest : rest[i] # list[1] /\ heap'[rest[i]] = heap[list[i + 1]]
    <2> TAKE i \in DOMAIN rest
    <2>1. i + 1 \in DOMAIN list /\ rest[i] = list[i + 1] /\ i + 1 # 1
      BY <1>6
    <2>2. list[i + 1] # list[1] /\ list[i + 1] \in Node
      BY <1>6, <1>7, <2>1 DEF Linked
    <2> QED
      BY <1>7, <1>8, <2>1, <2>2 DEF LlqInv, TypeOK
  <1>12. Linked(rest)'
    <2>1. \A i, j \in DOMAIN rest : rest[i] = rest[j] => i = j
      <3> TAKE i, j \in DOMAIN rest
      <3>1. rest[i] = rest[j] => i + 1 = j + 1
        BY <1>6, <1>7 DEF Linked
      <3> QED
        BY <1>6, <3>1
    <2>2. ASSUME NEW i \in DOMAIN rest
          PROVE  /\ heap'[rest[i]].live /\ heap'[rest[i]].data \in Message
                 /\ heap'[rest[i]].ptr = IF i = Len(rest) THEN NULL ELSE rest[i + 1]
      <3>1. i + 1 \in DOMAIN list /\ (i + 1 = Len(list) <=> i = Len(rest))
            /\ (i # Len(rest) => i + 1 \in DOMAIN rest)
        BY <1>6
      <3>2. heap[list[i + 1]].live /\ heap[list[i + 1]].data \in Message
            /\ heap[list[i + 1]].ptr = IF i + 1 = Len(list) THEN NULL ELSE list[(i + 1) + 1]
        BY <1>7, <3>1 DEF Linked
      <3>3. i # Len(rest) => rest[i + 1] = list[(i + 1) + 1]
        BY <1>6, <3>1
      <3> QED
        BY <1>11, <3>1, <3>2, <3>3
    <2> QED
      BY <1>6, <2>1, <2>2 DEF Linked
  <1>13. Allocated(rest, {})'
    <2>1. ASSUME NEW n \in Node PROVE heap'[n].live <=> \E i \in DOMAIN rest : rest[i] = n
      <3>1. heap'[n].live <=> n # list[1] /\ heap[n].live
        BY <1>7, <1>8 DEF LlqInv, TypeOK
      <3>2. (\E i \in DOMAIN rest : rest[i] = n) <=> n # list[1] /\ \E i \in DOMAIN list : list[i] = n
        <4>1. \A i \in DOMAIN list : i # 1 => i - 1 \in DOMAIN rest /\ rest[i - 1] = list[i]
          <5> TAKE i \in DOMAIN list
          <5>1. i # 1 => i - 1 \in DOMAIN rest /\ (i - 1) + 1 = i
            BY <1>6
          <5> QED
            BY <1>6, <5>1
        <4> QED
          BY <1>6, <1>11, <4>1
      <3> QED
        BY <1>7, <3>1, <3>2 DEF Allocated
    <2> QED
      BY <2>1 DEF Allocated
  <1>14. Holds(rest, Tail(old))'
    <2> DEFINE msgs == Tail(old)
    <2>1. Len(msgs) = Len(old) - 1 /\ DOMAIN msgs = 1..(Len(old) - 1)
          /\ \A i \in DOMAIN msgs : msgs[i] = old[i + 1]
      BY <1>5
    <2> HIDE DEF msgs
    <2>2. \A i \in DOMAIN list : heap[list[i]].data = old[i]
      BY <1>3, <1>4 DEF Holds
    <2>3. ASSUME NEW i \in DOMAIN rest PROVE heap'[rest[i]].data = msgs[i]
      <3>1. i + 1 \in DOMAIN list /\ i \in DOMAIN msgs
        BY <1>5, <1>6, <2>1
      <3> QED
        BY <1>11, <2>1, <2>2, <3>1
    <2>4. Len(rest) = Len(msgs)
      BY <1>5, <1>6, <2>1
    <2>5. Holds(rest, msgs)'
      BY <2>3, <2>4 DEF Holds
    <2> QED
      BY <2>5 DEF msgs
  <1>15. Holds(rest, Tail(before))'
    BY <1>1, <1>4, <1>14
  <1>16. hndl.temp = First(rest) /\ (rest # <<>> => hndl.tail = Last(rest))
    <2>1. heap[list[1]].ptr = IF 1 = Len(list) THEN NULL ELSE list[1 + 1]
      BY <1>6, <1>7 DEF Linked
    <2>2. Len(list) # 1 => 1 \in DOMAIN rest /\ Len(rest) \in DOMAIN rest /\ Len(rest) + 1 = Len(list)
      BY <1>6
    <2>3. Len(list) # 1 => rest[1] = list[1 + 1] /\ rest[Len(rest)] = list[Len(list)]
      BY <1>6, <2>2
    <2> QED
      BY <1>3, <1>6, <1>7, <2>1, <2>3 DEF First, Last
  <1>17. pc'[t] = "advance"
    BY <1>1 DEF LlqInv, TypeOK
  <1>18. AddShape(t, rest)' /\ RecvShape(t, rest)'
    BY <1>1, <1>3, <1>4, <1>5, <1>7, <1>12, <1>13, <1>15, <1>16, <1>17 DEF AddShape, RecvShape
  <1>19. pc[t] \in Owning /\ "advance" \in Owning /\ pc[t] \in Receiving /\ "advance" \in Receiving
    BY <1>1 DEF Owning, Receiving
  <1> QED
    BY <1>1, <1>6, <1>9, <1>10, <1>18, <1>19, InsideKeeps

\* head and tail are moved: the list is whole again.
LEMMA AdvanceKeeps ==
    ASSUME LlqInv, NEW t \in Thread, Advance(t)
    PROVE  LlqInv'
  <1>1. pc[t] = "advance" /\ pc' = [pc EXCEPT ![t] = "recvPost"]
        /\ UNCHANGED <<heap, accessSem, countSem, call, buffer, got, before>>
    BY DEF Advance, Goto
  <1>2. PICK list \in Seq(Node) : Shape(list) /\ Accounted(list)
    BY DEF LlqInv
  <1>3. /\ Linked(list) /\ Allocated(list, {}) /\ Holds(list, Tail(before)) /\ before # <<>>
        /\ hndl.head \in Node /\ hndl.temp = First(list)
        /\ list # <<>> => hndl.tail = Last(list)
        /\ buffer[t] = Head(before)
    BY <1>1, <1>2 DEF Shape, RecvShape
  <1>4. TypeOK'
    BY <1>1 DEF LlqInv, TypeOK, Receiving, Advance
  <1>5. ArgumentsKept'
    BY <1>1 DEF LlqInv, TypeOK, ArgumentsKept, Adding
  <1>6. hndl.temp = NULL <=> list = <<>>
    BY <1>3, PointersDistinct DEF First
  <1>7. hndl'.head = First(list) /\ hndl'.tail = Last(list)
    BY <1>3, <1>6 DEF Advance, Last, LlqInv, TypeOK
  <1>8. Whole(list)' /\ Holds(list, Tail(before))'
    BY <1>1, <1>3, <1>7 DEF Whole, Linked, Allocated, Holds
  <1>9. pc'[t] = "recvPost"
    BY <1>1 DEF LlqInv, TypeOK
  <1>10. AddShape(t, list)' /\ RecvShape(t, list)'
    BY <1>1, <1>3, <1>8, <1>9 DEF AddShape, RecvShape
  <1>11. pc[t] \in Owning /\ "recvPost" \in Owning /\ pc[t] \in Receiving /\ "recvPost" \in Receiving
    BY <1>1 DEF Owning, Receiving
  <1> QED
    BY <1>1, <1>4, <1>5, <1>10, <1>11, InsideKeeps

\* No step of any thread breaks the invariant.
LEMMA NextLlqInv == LlqInv /\ [Next]_vars => LlqInv'
  <1> SUFFICES ASSUME LlqInv, [Next]_vars PROVE LlqInv'
    OBVIOUS
  <1>1. CASE UNCHANGED vars
    <2>1. UNCHANGED <<hndl, heap, accessSem, countSem, pc, call, buffer, got, before>>
      BY <1>1 DEF vars
    <2>2. PICK list \in Seq(Node) : Shape(list) /\ Accounted(list)
      BY DEF LlqInv
    <2>3. TypeOK' /\ ArgumentsKept' /\ Mutex'
      BY <2>1 DEF LlqInv, TypeOK, ArgumentsKept, Mutex
    <2>4. Shape(list)'
      BY <2>1, <2>2, SMTT(60) DEF Shape, AddShape, RecvShape, Whole, Linked, Allocated, Holds, Added
    <2>5. Accounted(list)'
      BY <2>1, <2>2 DEF Accounted, In
    <2> QED
      BY <2>3, <2>4, <2>5 DEF LlqInv
  <1>2. ASSUME NEW t \in Thread, NEW m \in Message, NEW prio \in {0, 1}, CallAdd(t, m, prio)
        PROVE  LlqInv'
    BY <1>2, CallAddKeeps
  <1>3. ASSUME NEW t \in Thread, AddOwn(t) PROVE LlqInv'
    BY <1>3, OwnKeeps DEF AddOwn, Goto
  <1>4. ASSUME NEW t \in Thread, RecvOwn(t) PROVE LlqInv'
    BY <1>4, OwnKeeps DEF RecvOwn, Goto
  <1>5. ASSUME NEW t \in Thread, Alloc(t) \/ Fill(t) \/ Publish(t) PROVE LlqInv'
    BY <1>5, AllocKeeps, FillKeeps, PublishKeeps
  <1>6. ASSUME NEW t \in Thread, AddPost(t) \/ Signal(t) \/ Token(t) \/ TimedOut(t) \/ TestHead(t)
        PROVE  LlqInv'
    BY <1>6, AddPostKeeps, SignalKeeps, TokenKeeps, TimedOutKeeps, TestHeadKeeps
  <1>7. ASSUME NEW t \in Thread, Copy(t) \/ Free(t) \/ Advance(t) \/ RecvPost(t) PROVE LlqInv'
    BY <1>7, CopyKeeps, FreeKeeps, AdvanceKeeps, RecvPostKeeps
  <1> QED
    BY <1>1, <1>2, <1>3, <1>4, <1>5, <1>6, <1>7 DEF Next

\* The inductive invariant holds in every reachable state.
THEOREM LlqInvariant == Spec => []LlqInv
  BY InitLlqInv, NextLlqInv, PTL DEF Spec

-----------------------------------------------------------------------------
(* What it gives.                                                          *)

\* Between critical sections the list is whole: head and tail are its ends,
\* every node on the way is allocated and filled in, and no other node is
\* allocated, so that queue.c leaks nothing and leaves nothing dangling.
THEOREM LlqListWhole == Spec => []ListWhole
  <1>1. LlqInv => ListWhole
    <2> SUFFICES ASSUME LlqInv, accessSem = 1
                 PROVE  /\ (hndl.head = NULL) <=> (hndl.tail = NULL)
                        /\ hndl.head # NULL => hndl.tail = Chain[Len(Chain)]
                        /\ IsInjective(Chain)
                        /\ Range(Chain) = Live
                        /\ \A n \in Live : heap[n].data # Junk /\ heap[n].ptr # Junk
      BY DEF LlqInv, ListWhole
    <2>1. PICK list \in Seq(Node) : Whole(list)
      BY DEF LlqInv, Shape
    <2>2. Chain = list
      BY <2>1, ChainIsList DEF LlqInv, Whole
    <2>3. /\ (hndl.head = NULL) <=> (hndl.tail = NULL)
          /\ hndl.head # NULL => hndl.tail = Chain[Len(Chain)]
      <3>1. list # <<>> => First(list) \in Node /\ Last(list) \in Node
        BY DEF First, Last
      <3>2. list = <<>> => First(list) = NULL /\ Last(list) = NULL
        BY DEF First, Last
      <3>3. list # <<>> => Last(list) = list[Len(list)]
        BY DEF Last
      <3> QED
        BY <2>1, <2>2, <3>1, <3>2, <3>3, PointersDistinct DEF Whole
    <2>4. IsInjective(Chain)
      BY <2>1, <2>2 DEF Whole, Linked, IsInjective
    <2>5. Range(Chain) = Live
      <3>1. \A i \in DOMAIN list : list[i] \in Node
        OBVIOUS
      <3> QED
        BY <2>1, <2>2, <3>1 DEF Whole, Allocated, Range, Live
    <2>6. \A n \in Live : heap[n].data # Junk /\ heap[n].ptr # Junk
      <3> SUFFICES ASSUME NEW n \in Live PROVE heap[n].data # Junk /\ heap[n].ptr # Junk
        OBVIOUS
      <3>1. PICK i \in DOMAIN list : list[i] = n
        BY <2>1 DEF Whole, Allocated, Live
      <3>2. heap[n].data \in Message /\ heap[n].ptr = IF i = Len(list) THEN NULL ELSE list[i + 1]
        BY <2>1, <3>1 DEF Whole, Linked
      <3>3. i # Len(list) => list[i + 1] \in Node
        <4>1. DOMAIN list = 1..Len(list) /\ Len(list) \in Nat
          OBVIOUS
        <4>2. i # Len(list) => i + 1 \in DOMAIN list
          BY <4>1
        <4> QED
          BY <4>2
      <3> QED
        BY <3>2, <3>3, PointersDistinct
    <2> QED
      BY <2>3, <2>4, <2>5, <2>6
  <1> QED
    BY <1>1, LlqInvariant, PTL

\* Every pointer a critical section of queue.c is about to follow leads to a
\* node that is allocated and filled in: the head that llq_timedreceive tested
\* before it owned the list, and the tail that addToTail links to.
THEOREM LlqSafeToFollow == Spec => []SafeToFollow
  <1>1. ASSUME LlqInv, NEW t \in Thread, pc[t] \in {"copy", "free"}
        PROVE  hndl.head \in Live /\ heap[hndl.head].ptr # Junk /\ heap[hndl.head].data # Junk
    <2>1. PICK list \in Seq(Node) : Shape(list) /\ Accounted(list)
      BY <1>1 DEF LlqInv
    <2>2. Whole(list) /\ Holds(list, before)
      BY <1>1, <2>1 DEF Shape, RecvShape
    <2>3. list # <<>>
      <3>1. pc[t] \in Receiving /\ accessSem = 0
        BY <1>1 DEF Receiving, Owning, LlqInv, Mutex
      <3>2. before # <<>> /\ before \in Seq(Message)
        BY <1>1, <2>1, <3>1, ReceiverBacked DEF LlqInv, TypeOK
      <3> QED
        BY <2>2, <3>2 DEF Holds
    <2>4. 1 \in DOMAIN list /\ hndl.head = list[1] /\ list[1] \in Node
      BY <2>2, <2>3 DEF Whole, First
    <2>5. heap[list[1]].live /\ heap[list[1]].data \in Message
          /\ heap[list[1]].ptr = IF 1 = Len(list) THEN NULL ELSE list[1 + 1]
      BY <2>2, <2>4 DEF Whole, Linked
    <2>6. 1 # Len(list) => list[1 + 1] \in Node
      <3>1. Len(list) \in Nat /\ Len(list) >= 1 /\ DOMAIN list = 1..Len(list)
        BY <2>3
      <3>2. 1 # Len(list) => 1 + 1 \in DOMAIN list
        BY <3>1
      <3> QED
        BY <3>2
    <2> QED
      BY <2>4, <2>5, <2>6, PointersDistinct DEF Live
  <1>2. ASSUME LlqInv, NEW t \in Thread, pc[t] = "fill", call[t].field = "temp"
        PROVE  hndl.tail \in Live /\ hndl.head \in Live
    <2>1. PICK list \in Seq(Node) : Shape(list)
      BY <1>2 DEF LlqInv
    <2>2. Linked(list) /\ list # <<>> /\ hndl.head = First(list) /\ hndl.tail = Last(list)
      BY <1>2, <2>1 DEF Shape, AddShape
    <2>3. 1 \in DOMAIN list /\ Len(list) \in DOMAIN list
      BY <2>2
    <2> QED
      BY <2>2, <2>3 DEF Linked, First, Last, Live
  <1>3. LlqInv => SafeToFollow
    BY <1>1, <1>2 DEF SafeToFollow
  <1> QED
    BY <1>3, LlqInvariant, PTL

-----------------------------------------------------------------------------
(* The pointers implement PrioQueue.                                       *)

\* What PrioQueue sees of the list and of the threads.
Listed == IF accessSem = 0 THEN before ELSE Contents

Seen == [t \in Thread |-> Outside(t)]

\* A move of one thread, as PrioQueue sees it.
LEMMA SeenMoves ==
    ASSUME TypeOK, NEW t \in Thread, NEW to, pc' = [pc EXCEPT ![t] = to],
           NEW place, place = Outside(t)'
    PROVE  Seen' = [Seen EXCEPT ![t] = place]
  <1>1. \A u \in Thread : pc'[u] = IF u = t THEN to ELSE pc[u]
    BY DEF TypeOK
  <1>2. \A u \in Thread : u # t => Outside(u)' = Outside(u)
    BY <1>1 DEF Outside
  <1>3. Seen' = [u \in Thread |-> Outside(u)']
    BY DEF Seen
  <1>4. \A u \in Thread : Seen'[u] = IF u = t THEN place ELSE Seen[u]
    BY <1>2, <1>3 DEF Seen
  <1> QED
    BY <1>3, <1>4 DEF Seen

\* Where each place of llq_add and llq_timedreceive is outside queue.c.
LEMMA OutsideIs ==
    ASSUME NEW t \in Thread
    PROVE  /\ pc[t] \in {"out"} \cup Adding => Outside(t) = "out"
           /\ pc[t] = "linked" => Outside(t) = "linked"
           /\ pc[t] \in Receiving => Outside(t) = "token"
  BY DEF Outside, Adding, Receiving

\* A statement that PrioQueue does not see.
LEMMA Unseen ==
    ASSUME LlqInv, NEW t \in Thread, NEW to, pc' = [pc EXCEPT ![t] = to],
           \/ pc[t] \in {"out"} \cup Adding /\ to \in {"out"} \cup Adding
           \/ pc[t] \in Receiving /\ to \in Receiving
    PROVE  Seen' = Seen
  <1>1. pc'[t] = to
    BY DEF LlqInv, TypeOK
  <1>2. Outside(t)' = Outside(t)
    BY <1>1 DEF Outside, Adding, Receiving
  <1>3. \A u \in Thread : Outside(u)' = Outside(u)
    BY <1>2 DEF Outside, LlqInv, TypeOK
  <1> QED
    BY <1>3 DEF Seen

\* A statement inside a critical section leaves what PrioQueue sees of the list.
LEMMA InsideUnseen ==
    ASSUME LlqInv, NEW t \in Thread, pc[t] \in Owning, UNCHANGED <<accessSem, before>>
    PROVE  Listed' = Listed
  <1>1. accessSem = 0
    BY DEF LlqInv, Mutex
  <1> QED
    BY <1>1 DEF Listed

\* So does any step that changes neither the pointers nor the heap.
LEMMA SameList ==
    ASSUME UNCHANGED <<hndl, heap, accessSem, before>>
    PROVE  Listed' = Listed
  <1>1. walk' = walk
    BY DEF walk
  <1>2. Contents' = Contents
    BY <1>1 DEF Contents, Chain
  <1> QED
    BY <1>2 DEF Listed

\* When no thread owns the list, PrioQueue sees the messages its nodes hold.
FreeListSeen ==
    TypeOK /\ accessSem = 1 =>
        \A list \in Seq(Node), msgs \in Seq(Message) :
            Whole(list) /\ Holds(list, msgs) => Listed = msgs

\* They do, because Contents follows the list that is whole.
LEMMA FreeListIsSeen == FreeListSeen
  BY ContentsHeld DEF FreeListSeen, Listed

\* Every step of the pointers is a step of PrioQueue or one it does not see.
LEMMA StepImplements ==
    LlqInv /\ LlqInv' /\ [Next]_vars => [Abstract!QNext]_(Abstract!qvars)
  <1> SUFFICES ASSUME LlqInv, LlqInv', [Next]_vars PROVE [Abstract!QNext]_(Abstract!qvars)
    OBVIOUS
  <1> DEFINE Stutters == Listed' = Listed /\ Seen' = Seen /\ UNCHANGED <<countSem, got>>
  <1>1. Stutters => UNCHANGED Abstract!qvars
    BY DEF Abstract!qvars, Listed, Seen
  <1>2. CASE UNCHANGED vars
    <2>1. Listed' = Listed
      BY <1>2, SameList DEF vars
    <2>2. Seen' = Seen
      BY <1>2 DEF vars, Seen, Outside
    <2> QED
      BY <1>1, <1>2, <2>1, <2>2 DEF vars
  <1>3. ASSUME NEW t \in Thread, NEW m \in Message, NEW prio \in {0, 1}, CallAdd(t, m, prio)
        PROVE  Stutters
    <2>1. Listed' = Listed
      BY <1>3, SameList DEF CallAdd
    <2>2. Seen' = Seen
      BY <1>3, Unseen DEF CallAdd, Goto, Adding
    <2> QED
      BY <1>3, <2>1, <2>2 DEF CallAdd
  <1>4. ASSUME NEW t \in Thread, AddOwn(t) \/ RecvOwn(t) PROVE Stutters
    <2>1. accessSem = 1 /\ accessSem' = 0 /\ before' = Contents
      BY <1>4 DEF AddOwn, RecvOwn, Own
    <2>2. Listed' = Listed
      BY <2>1 DEF Listed
    <2>3. Seen' = Seen
      BY <1>4, Unseen DEF AddOwn, RecvOwn, Goto, Adding, Receiving
    <2> QED
      BY <1>4, <2>2, <2>3 DEF AddOwn, RecvOwn
  <1>5. ASSUME NEW t \in Thread,
               Alloc(t) \/ Fill(t) \/ Publish(t) \/ Copy(t) \/ Free(t) \/ Advance(t)
        PROVE  Stutters
    <2>1. pc[t] \in Owning /\ UNCHANGED <<accessSem, before, countSem, got>>
      BY <1>5 DEF Alloc, Fill, Publish, Copy, Free, Advance, Goto, Owning
    <2>2. Listed' = Listed
      BY <2>1, InsideUnseen
    <2>3. Seen' = Seen
      BY <1>5, Unseen DEF Alloc, Fill, Publish, Copy, Free, Advance, Goto, Adding, Receiving
    <2> QED
      BY <2>1, <2>2, <2>3
  <1>6. ASSUME NEW t \in Thread, TestHead(t) PROVE Stutters
    <2>1. hndl.head # NULL
      BY <1>6, TestHeadKeeps
    <2>2. pc[t] = "token" /\ pc' = [pc EXCEPT ![t] = "recvWait"] /\ got' = got
      BY <1>6, <2>1 DEF TestHead, Goto
    <2>3. Listed' = Listed
      BY <1>6, SameList DEF TestHead
    <2>4. Seen' = Seen
      BY <2>2, Unseen DEF Receiving
    <2> QED
      BY <1>6, <2>2, <2>3, <2>4 DEF TestHead
  <1>7. ASSUME NEW t \in Thread, AddPost(t) PROVE Abstract!Link(t, call[t].msg, call[t].prio)
    <2>1. pc[t] = "addPost" /\ pc' = [pc EXCEPT ![t] = "linked"]
      BY <1>7 DEF AddPost, Goto
    <2>2. PICK list \in Seq(Node) : Shape(list)
      BY DEF LlqInv
    <2>3. Whole(list) /\ Holds(list, Added(t))
      BY <2>1, <2>2 DEF Shape, AddShape
    <2>4. accessSem = 0 /\ accessSem' = 1
      BY <1>7, <2>1 DEF AddPost, LlqInv, Mutex, Owning
    <2>5. PICK msgs : msgs = Added(t)
      OBVIOUS
    <2>6. msgs \in Seq(Message)
      <3>1. call[t].msg \in Message
        BY <2>1 DEF LlqInv, ArgumentsKept, Adding
      <3> QED
        BY <2>5, <3>1 DEF Added, LlqInv, TypeOK
    <2>7. Whole(list)' /\ Holds(list, msgs)'
      BY <1>7, <2>3, <2>5 DEF AddPost, Whole, Linked, Allocated, Holds
    <2>8. FreeListSeen'
      BY FreeListIsSeen, PTL
    <2>9. Listed' = Added(t) /\ Listed = before
      BY <2>4, <2>5, <2>6, <2>7, <2>8 DEF LlqInv, Listed, FreeListSeen
    <2>10. Seen[t] = "out" /\ Seen' = [Seen EXCEPT ![t] = "linked"]
      <3>1. Outside(t) = "out"
        BY <2>1, OutsideIs DEF Adding
      <3>2. "linked" = Outside(t)'
        BY <2>1 DEF Outside, Adding, Receiving, LlqInv, TypeOK
      <3> QED
        BY <2>1, <3>1, <3>2, SeenMoves DEF LlqInv, Seen
    <2> QED
      BY <1>7, <2>9, <2>10 DEF Abstract!Link, AddPost, Listed, Seen, Added
  <1>8. ASSUME NEW t \in Thread, RecvPost(t) PROVE Abstract!Unlink(t)
    <2>1. pc[t] = "recvPost" /\ pc' = [pc EXCEPT ![t] = "out"]
      BY <1>8 DEF RecvPost, Goto
    <2>2. PICK list \in Seq(Node) : Shape(list)
      BY DEF LlqInv
    <2>3. Whole(list) /\ Holds(list, Tail(before)) /\ before # <<>> /\ buffer[t] = Head(before)
      BY <2>1, <2>2 DEF Shape, RecvShape
    <2>4. accessSem = 0 /\ accessSem' = 1
      BY <1>8, <2>1 DEF RecvPost, LlqInv, Mutex, Owning
    <2>5. PICK msgs : msgs = Tail(before)
      OBVIOUS
    <2>6. msgs \in Seq(Message)
      BY <2>3, <2>5 DEF LlqInv, TypeOK
    <2>7. Whole(list)' /\ Holds(list, msgs)'
      BY <1>8, <2>3, <2>5 DEF RecvPost, Whole, Linked, Allocated, Holds
    <2>8. FreeListSeen'
      BY FreeListIsSeen, PTL
    <2>9. Listed' = Tail(before) /\ Listed = before
      BY <2>4, <2>5, <2>6, <2>7, <2>8 DEF LlqInv, Listed, FreeListSeen
    <2>10. Seen[t] = "token" /\ Seen' = [Seen EXCEPT ![t] = "out"]
      <3>1. Outside(t) = "token"
        BY <2>1, OutsideIs DEF Receiving
      <3>2. "out" = Outside(t)'
        BY <2>1 DEF Outside, Receiving, Adding, LlqInv, TypeOK
      <3> QED
        BY <2>1, <3>1, <3>2, SeenMoves DEF LlqInv, Seen
    <2>11. got' = [got EXCEPT ![t] = Head(before)]
      BY <1>8, <2>3 DEF RecvPost
    <2>12. Listed # <<>> /\ Listed' = Tail(Listed) /\ got' = [got EXCEPT ![t] = Head(Listed)]
      BY <2>3, <2>9, <2>11
    <2>13. got' = [got EXCEPT ![t] = IF Listed = <<>> THEN Empty ELSE Head(Listed)]
           /\ Listed' = IF Listed = <<>> THEN <<>> ELSE Tail(Listed)
      BY <2>12
    <2> QED
      BY <1>8, <2>10, <2>13 DEF Abstract!Unlink, RecvPost, Listed, Seen
  <1>9. ASSUME NEW t \in Thread, Signal(t) PROVE Abstract!Signal(t)
    <2>1. pc[t] = "linked" /\ pc' = [pc EXCEPT ![t] = "out"]
      BY <1>9 DEF Signal, Goto
    <2>2. Listed' = Listed
      BY <1>9, SameList DEF Signal
    <2>3. Seen[t] = "linked" /\ Seen' = [Seen EXCEPT ![t] = "out"]
      <3>1. Outside(t) = "linked"
        BY <2>1, OutsideIs
      <3>2. "out" = Outside(t)'
        BY <2>1 DEF Outside, Receiving, Adding, LlqInv, TypeOK
      <3> QED
        BY <2>1, <3>1, <3>2, SeenMoves DEF LlqInv, Seen
    <2> QED
      BY <1>9, <2>2, <2>3 DEF Abstract!Signal, Signal, Listed, Seen
  <1>10. ASSUME NEW t \in Thread, Token(t) PROVE Abstract!Token(t)
    <2>1. pc[t] = "out" /\ pc' = [pc EXCEPT ![t] = "token"]
      BY <1>10 DEF Token, Goto
    <2>2. Listed' = Listed
      BY <1>10, SameList DEF Token
    <2>3. Seen[t] = "out" /\ Seen' = [Seen EXCEPT ![t] = "token"]
      <3>1. Outside(t) = "out"
        BY <2>1, OutsideIs
      <3>2. "token" = Outside(t)'
        BY <2>1 DEF Outside, Receiving, Adding, LlqInv, TypeOK
      <3> QED
        BY <2>1, <3>1, <3>2, SeenMoves DEF LlqInv, Seen
    <2> QED
      BY <1>10, <2>2, <2>3 DEF Abstract!Token, Token, Listed, Seen
  <1>11. ASSUME NEW t \in Thread, TimedOut(t) PROVE Abstract!TimedOut(t)
    <2>1. Listed' = Listed
      BY <1>11, SameList DEF TimedOut
    <2>2. Seen[t] = "out" /\ Seen' = Seen
      BY <1>11, OutsideIs DEF TimedOut, Seen, Outside
    <2> QED
      BY <1>11, <2>1, <2>2 DEF Abstract!TimedOut, TimedOut, Listed, Seen
  <1>12. ASSUME NEW t \in Thread, AddPost(t) PROVE Abstract!Add(t)
    <2>1. call[t].msg \in Message /\ call[t].prio \in {0, 1}
      BY <1>12 DEF AddPost, Goto, LlqInv, ArgumentsKept, Adding, TypeOK
    <2> QED
      BY <1>7, <1>12, <2>1 DEF Abstract!Add
  <1> QED
    BY <1>1, <1>2, <1>3, <1>4, <1>5, <1>6, <1>8, <1>9, <1>10, <1>11, <1>12 DEF Next, Abstract!QNext

\* queue.c implements PrioQueue: its critical sections take effect, as wholes,
\* when they post the access semaphore, and a receive that was granted a unit
\* returns the head of the list.
THEOREM LlqImplementsPrioQueue == Spec => ImplementsPrioQueue
  <1>1. Init => Abstract!QInit
    <2> SUFFICES ASSUME Init PROVE Abstract!QInit
      OBVIOUS
    <2>1. Listed = <<>>
      <3>1. LlqInv /\ accessSem = 1 /\ Whole(<<>>) /\ Holds(<<>>, <<>>)
        BY InitLlqInv DEF Init, Whole, Linked, Allocated, First, Last, Holds
      <3>2. <<>> \in Seq(Message) /\ <<>> \in Seq(Node)
        OBVIOUS
      <3> QED
        BY <3>1, <3>2, FreeListIsSeen DEF LlqInv, FreeListSeen
    <2>2. Seen = [t \in Thread |-> "out"]
      BY OutsideIs DEF Init, Seen
    <2> QED
      BY <2>1, <2>2 DEF Init, Abstract!QInit, Listed, Seen
  <1> QED
    BY <1>1, StepImplements, LlqInvariant, PTL DEF Spec, ImplementsPrioQueue, Abstract!QSpec

=============================================================================

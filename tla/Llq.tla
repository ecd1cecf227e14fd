-------------------------------- MODULE Llq --------------------------------
(***************************************************************************)
(* framework/rpc/queue.c pointer by pointer: the handle's head, tail and   *)
(* temp, the heap nodes with malloc and free, the access semaphore, the    *)
(* counting semaphore, and the test of head that llq_timedreceive makes    *)
(* before it owns the access semaphore.                                    *)
(*                                                                         *)
(* malloc hands out memory with arbitrary contents (Junk) and always       *)
(* succeeds: the code checks no result.  A node and its data buffer are    *)
(* allocated and freed together.  Reads and writes of one pointer are      *)
(* atomic, which is what the targets of this framework do.                 *)
(***************************************************************************)
EXTENDS Naturals, Sequences, FiniteSets, Functions

CONSTANTS Thread, Message, Nothing, Empty,    \* as in PrioQueue
          Node,      \* the addresses malloc can return
          NULL,      \* the null pointer
          Junk       \* contents of memory nobody has written

ASSUME ThreadsFinite == IsFiniteSet(Thread)
ASSUME NodesFinite == IsFiniteSet(Node)
ASSUME PointersDistinct == NULL \notin Node /\ Junk \notin Node \cup Message \cup {NULL}

VARIABLES hndl,       \* the three pointers of llq_t
          heap,       \* what is at each address
          accessSem,  \* llqAccessSem
          countSem,   \* llqCountSem
          pc,         \* where each thread is in llq_add or llq_timedreceive
          call,       \* each thread's llq_add: its arguments and the field it fills
          buffer,     \* what each thread's receive has copied out
          got,        \* what each thread's last receive returned
          before      \* history variable: the list when the access semaphore was taken

vars == <<hndl, heap, accessSem, countSem, pc, call, buffer, got, before>>

Adding == {"addWait", "alloc", "fill", "publish", "addPost"}
Receiving == {"token", "recvWait", "copy", "free", "advance", "recvPost"}
Owning == {"alloc", "fill", "publish", "addPost", "copy", "free", "advance", "recvPost"}

Live == {n \in Node : heap[n].live}

\* The pointers followed from head: walk[k] is where k steps lead.
walk[k \in 0..Cardinality(Node)] ==
    IF k = 0 THEN hndl.head
    ELSE IF walk[k - 1] = NULL THEN NULL ELSE heap[walk[k - 1]].ptr

\* The nodes from head on, for a list no longer than the heap.
Chain == [i \in {k \in 1..Cardinality(Node) : walk[k - 1] # NULL} |-> walk[i - 1]]

Contents == [i \in DOMAIN Chain |-> heap[Chain[i]].data]

NoCall == [msg |-> Junk, prio |-> 0, field |-> "none"]

\* llq_open
Init == /\ hndl = [head |-> NULL, tail |-> NULL, temp |-> NULL]
        /\ heap = [n \in Node |-> [live |-> FALSE, ptr |-> Junk, data |-> Junk]]
        /\ accessSem = 1
        /\ countSem = 0
        /\ pc = [t \in Thread |-> "out"]
        /\ call = [t \in Thread |-> NoCall]
        /\ buffer = [t \in Thread |-> Junk]
        /\ got = [t \in Thread |-> Nothing]
        /\ before = <<>>

Goto(t, from, to) == pc[t] = from /\ pc' = [pc EXCEPT ![t] = to]

\* sem_wait(&hndl->llqAccessSem)
Own == accessSem = 1 /\ accessSem' = 0 /\ before' = Contents

-----------------------------------------------------------------------------
(* llq_add, with addToHead and addToTail                                   *)

\* addToHead tests head, addToTail tests tail; a list with elements gets its
\* new node through temp.
Field(prio) == CASE prio = 1 /\ hndl.head = NULL -> "head"
                 [] prio = 0 /\ hndl.tail = NULL -> "tail"
                 [] OTHER -> "temp"

CallAdd(t, m, prio) ==
    /\ Goto(t, "out", "addWait")
    /\ call' = [call EXCEPT ![t] = [msg |-> m, prio |-> prio, field |-> "none"]]
    /\ UNCHANGED <<hndl, heap, accessSem, countSem, buffer, got, before>>

AddOwn(t) ==
    /\ Goto(t, "addWait", "alloc")
    /\ Own
    /\ UNCHANGED <<hndl, heap, countSem, call, buffer, got>>

\* The result of malloc goes straight into the shared handle.
Alloc(t) ==
    /\ Goto(t, "alloc", "fill")
    /\ \E n \in Node \ Live :
          /\ heap' = [heap EXCEPT ![n] = [live |-> TRUE, ptr |-> Junk, data |-> Junk]]
          /\ hndl' = [hndl EXCEPT ![Field(call[t].prio)] = n]
          /\ call' = [call EXCEPT ![t].field = Field(call[t].prio)]
    /\ UNCHANGED <<accessSem, countSem, buffer, got, before>>

\* Link the node to the list's old end and copy the message into it.
Fill(t) ==
    LET new == hndl[call[t].field]
        node == [live |-> TRUE, data |-> call[t].msg,
                 ptr |-> IF call[t].field = "temp" /\ call[t].prio = 1
                         THEN hndl.head ELSE NULL]
    IN /\ Goto(t, "fill", "publish")
       /\ heap' = IF call[t].field = "temp" /\ call[t].prio = 0
                  THEN [heap EXCEPT ![hndl.tail].ptr = new, ![new] = node]
                  ELSE [heap EXCEPT ![new] = node]
       /\ UNCHANGED <<hndl, accessSem, countSem, call, buffer, got, before>>

\* Fault: addToHead leaves the new node out of the list.
PublishForgetsHead(t) ==
    /\ Goto(t, "publish", "addPost")
    /\ hndl' = CASE call[t].field = "head" -> [hndl EXCEPT !.tail = hndl.head]
                 [] call[t].field = "tail" -> [hndl EXCEPT !.head = hndl.tail]
                 [] call[t].field = "temp" /\ call[t].prio = 1 -> hndl
                 [] call[t].field = "temp" /\ call[t].prio = 0 -> [hndl EXCEPT !.tail = hndl.temp]
    /\ UNCHANGED <<heap, accessSem, countSem, call, buffer, got, before>>

\* Move the ends of the list.
Publish(t) ==
    /\ Goto(t, "publish", "addPost")
    /\ hndl' = CASE call[t].field = "head" -> [hndl EXCEPT !.tail = hndl.head]
                 [] call[t].field = "tail" -> [hndl EXCEPT !.head = hndl.tail]
                 [] call[t].field = "temp" /\ call[t].prio = 1 -> [hndl EXCEPT !.head = hndl.temp]
                 [] call[t].field = "temp" /\ call[t].prio = 0 -> [hndl EXCEPT !.tail = hndl.temp]
    /\ UNCHANGED <<heap, accessSem, countSem, call, buffer, got, before>>

AddPost(t) ==
    /\ Goto(t, "addPost", "linked")
    /\ accessSem' = accessSem + 1
    /\ call' = [call EXCEPT ![t] = NoCall]
    /\ UNCHANGED <<hndl, heap, countSem, buffer, got, before>>

Signal(t) ==
    /\ Goto(t, "linked", "out")
    /\ countSem' = countSem + 1
    /\ UNCHANGED <<hndl, heap, accessSem, call, buffer, got, before>>

-----------------------------------------------------------------------------
(* llq_timedreceive                                                        *)

\* Fault: the unit is not taken from the semaphore.
TokenKeepsUnit(t) ==
    /\ Goto(t, "out", "token")
    /\ countSem > 0
    /\ UNCHANGED <<hndl, heap, accessSem, countSem, call, buffer, got, before>>

Token(t) ==
    /\ Goto(t, "out", "token")
    /\ countSem > 0
    /\ countSem' = countSem - 1
    /\ UNCHANGED <<hndl, heap, accessSem, call, buffer, got, before>>

TimedOut(t) ==
    /\ pc[t] = "out"
    /\ countSem = 0
    /\ got' = [got EXCEPT ![t] = Nothing]
    /\ UNCHANGED <<hndl, heap, accessSem, countSem, pc, call, buffer, before>>

\* if (hndl->head != NULL), read without the access semaphore.
TestHead(t) ==
    /\ Goto(t, "token", IF hndl.head = NULL THEN "out" ELSE "recvWait")
    /\ got' = IF hndl.head = NULL THEN [got EXCEPT ![t] = Empty] ELSE got
    /\ UNCHANGED <<hndl, heap, accessSem, countSem, call, buffer, before>>

RecvOwn(t) ==
    /\ Goto(t, "recvWait", "copy")
    /\ Own
    /\ UNCHANGED <<hndl, heap, countSem, call, buffer, got>>

\* The head is dereferenced without testing it again.
Copy(t) ==
    /\ Goto(t, "copy", "free")
    /\ hndl' = [hndl EXCEPT !.temp = heap[hndl.head].ptr]
    /\ buffer' = [buffer EXCEPT ![t] = heap[hndl.head].data]
    /\ UNCHANGED <<heap, accessSem, countSem, call, got, before>>

Free(t) ==
    /\ Goto(t, "free", "advance")
    /\ heap' = [heap EXCEPT ![hndl.head] = [live |-> FALSE, ptr |-> Junk, data |-> Junk]]
    /\ UNCHANGED <<hndl, accessSem, countSem, call, buffer, got, before>>

\* Fault: an emptied list keeps its tail.
AdvanceKeepsTail(t) ==
    /\ Goto(t, "advance", "recvPost")
    /\ hndl' = [hndl EXCEPT !.head = hndl.temp]
    /\ UNCHANGED <<heap, accessSem, countSem, call, buffer, got, before>>

\* head becomes temp; an emptied list also loses its tail.
Advance(t) ==
    /\ Goto(t, "advance", "recvPost")
    /\ hndl' = [hndl EXCEPT !.head = hndl.temp,
                            !.tail = IF hndl.temp = NULL THEN NULL ELSE hndl.tail]
    /\ UNCHANGED <<heap, accessSem, countSem, call, buffer, got, before>>

RecvPost(t) ==
    /\ Goto(t, "recvPost", "out")
    /\ accessSem' = accessSem + 1
    /\ got' = [got EXCEPT ![t] = buffer[t]]
    /\ buffer' = [buffer EXCEPT ![t] = Junk]
    /\ UNCHANGED <<hndl, heap, countSem, call, before>>

-----------------------------------------------------------------------------
\* Bound: no more calls of llq_add than there are addresses for their nodes.
RoomForNode == Cardinality(Live) + Cardinality({t \in Thread : pc[t] \in {"addWait", "alloc"}})
                  < Cardinality(Node)

Next == \E t \in Thread :
           \/ RoomForNode /\ \E m \in Message, prio \in {0, 1} : CallAdd(t, m, prio)
           \/ AddOwn(t) \/ Alloc(t) \/ Fill(t) \/ Publish(t) \/ AddPost(t) \/ Signal(t)
           \/ Token(t) \/ TimedOut(t) \/ TestHead(t)
           \/ RecvOwn(t) \/ Copy(t) \/ Free(t) \/ Advance(t) \/ RecvPost(t)

Spec == Init /\ [][Next]_vars

-----------------------------------------------------------------------------
TypeOK ==
    /\ hndl \in [{"head", "tail", "temp"} -> Node \cup {NULL}]
    /\ heap \in [Node -> [live : BOOLEAN, ptr : Node \cup {NULL, Junk}, data : Message \cup {Junk}]]
    /\ accessSem \in {0, 1} /\ countSem \in Nat
    /\ pc \in [Thread -> {"out", "linked"} \cup Adding \cup Receiving]
    /\ call \in [Thread -> [msg : Message \cup {Junk}, prio : {0, 1},
                            field : {"none", "head", "tail", "temp"}]]
    /\ buffer \in [Thread -> Message \cup {Junk}]
    /\ got \in [Thread -> Message \cup {Nothing, Empty}]
    /\ before \in Seq(Message)

(***************************************************************************)
(* Between critical sections the list is whole: head and tail are NULL     *)
(* together, tail is the last node reached from head, every node on the    *)
(* way is allocated and filled in, and no other node is allocated, so that *)
(* nothing leaks and nothing dangles.  (And the variables have their types *)
(* at all times.)                                                          *)
(***************************************************************************)
ListWhole ==
    /\ TypeOK
    /\ accessSem = 1 =>
        /\ (hndl.head = NULL) <=> (hndl.tail = NULL)
        /\ hndl.head # NULL => hndl.tail = Chain[Len(Chain)]
        /\ IsInjective(Chain)
        /\ Range(Chain) = Live
        /\ \A n \in Live : heap[n].data # Junk /\ heap[n].ptr # Junk

(***************************************************************************)
(* Every pointer a critical section is about to follow leads to a node     *)
(* that is allocated and filled in: llq_timedreceive follows head after a  *)
(* test it made before it owned the list, addToTail follows tail.          *)
(***************************************************************************)
SafeToFollow ==
    \A t \in Thread :
        /\ pc[t] \in {"copy", "free"} =>
              hndl.head \in Live /\ heap[hndl.head].ptr # Junk /\ heap[hndl.head].data # Junk
        /\ pc[t] = "fill" /\ call[t].field = "temp" =>
              hndl.tail \in Live /\ hndl.head \in Live

(***************************************************************************)
(* The pointer-level queue is a PrioQueue: its critical sections take      *)
(* effect when they post the access semaphore.                             *)
(***************************************************************************)
Outside(t) == CASE pc[t] \in {"out"} \cup Adding -> "out"
                [] pc[t] = "linked" -> "linked"
                [] pc[t] \in Receiving -> "token"

Abstract == INSTANCE PrioQueue
               WITH items <- IF accessSem = 0 THEN before ELSE Contents,
                    count <- countSem,
                    qpc <- [t \in Thread |-> Outside(t)]

ImplementsPrioQueue == Abstract!QSpec
=============================================================================

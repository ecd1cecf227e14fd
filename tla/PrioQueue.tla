----------------------------- MODULE PrioQueue -----------------------------
(***************************************************************************)
(* The message queue of framework/rpc/queue.c as its callers see it: a     *)
(* list whose critical sections are atomic, beside a counting semaphore    *)
(* that says how many elements may be fetched.                             *)
(*                                                                         *)
(* The list and the semaphore are NOT updated together.  llq_add links the *)
(* element under the access semaphore and posts the count afterwards;      *)
(* llq_timedreceive takes a token from the count first and unlinks an      *)
(* element afterwards.  Any number of threads may be between the two.      *)
(* Module Llq models the same code pointer by pointer and implements this  *)
(* specification; module Rpc drives it.                                    *)
(***************************************************************************)
EXTENDS Naturals, Sequences, FiniteSets

CONSTANTS Thread,    \* the threads that call llq_add and llq_receive
          Message,   \* what can be queued
          Nothing,   \* result of a receive that timed out (-1), and of none yet
          Empty      \* result of a receive that found head == NULL (length 0)

ASSUME ThreadsFinite == IsFiniteSet(Thread)
ASSUME ResultsDistinct == Nothing \notin Message /\ Empty \notin Message /\ Nothing # Empty

VARIABLES items,     \* the linked list, head first
          count,     \* value of llqCountSem
          qpc,       \* where each thread is inside the queue's functions
          got        \* what each thread's last receive returned

qvars == <<items, count, qpc, got>>

QInit == /\ items = <<>>
        /\ count = 0
        /\ qpc = [t \in Thread |-> "out"]
        /\ got = [t \in Thread |-> Nothing]

\* Fault: addToTail makes the new tail the head of a list that has one.
LinkLosesHead(t, m, prio) ==
    /\ qpc[t] = "out"
    /\ items' = IF prio = 1 THEN <<m>> \o items ELSE <<m>>
    /\ qpc' = [qpc EXCEPT ![t] = "linked"]
    /\ UNCHANGED <<count, got>>

\* llq_add up to the post of the access semaphore.
Link(t, m, prio) ==
    /\ qpc[t] = "out"
    /\ items' = IF prio = 1 THEN <<m>> \o items ELSE Append(items, m)
    /\ qpc' = [qpc EXCEPT ![t] = "linked"]
    /\ UNCHANGED <<count, got>>

\* The last statement of llq_add: sem_post(llqCountSem).
Signal(t) ==
    /\ qpc[t] = "linked"
    /\ count' = count + 1
    /\ qpc' = [qpc EXCEPT ![t] = "out"]
    /\ UNCHANGED <<items, got>>

\* llq_timedreceive is granted a unit of llqCountSem.
Token(t) ==
    /\ qpc[t] = "out"
    /\ count > 0
    /\ count' = count - 1
    /\ qpc' = [qpc EXCEPT ![t] = "token"]
    /\ UNCHANGED <<items, got>>

\* sem_timedwait gives up.  It never does while the semaphore is positive.
TimedOut(t) ==
    /\ qpc[t] = "out"
    /\ count = 0
    /\ got' = [got EXCEPT ![t] = Nothing]
    /\ UNCHANGED <<items, count, qpc>>

\* Fault: the list is emptied when its second element is the last.
UnlinkDropsLast(t) ==
    /\ qpc[t] = "token"
    /\ got' = [got EXCEPT ![t] = IF items = <<>> THEN Empty ELSE Head(items)]
    /\ items' = IF Len(items) < 3 THEN <<>> ELSE Tail(items)
    /\ qpc' = [qpc EXCEPT ![t] = "out"]
    /\ UNCHANGED count

\* Fault: the tail is unlinked where the head should be.
UnlinkTail(t) ==
    /\ qpc[t] = "token"
    /\ got' = [got EXCEPT ![t] = IF items = <<>> THEN Empty ELSE items[Len(items)]]
    /\ items' = IF items = <<>> THEN <<>> ELSE SubSeq(items, 1, Len(items) - 1)
    /\ qpc' = [qpc EXCEPT ![t] = "out"]
    /\ UNCHANGED count

\* The rest of llq_timedreceive: unlink the head, or return 0 without one.
Unlink(t) ==
    /\ qpc[t] = "token"
    /\ got' = [got EXCEPT ![t] = IF items = <<>> THEN Empty ELSE Head(items)]
    /\ items' = IF items = <<>> THEN <<>> ELSE Tail(items)
    /\ qpc' = [qpc EXCEPT ![t] = "out"]
    /\ UNCHANGED count

Add(t) == \E m \in Message, prio \in {0, 1} : Link(t, m, prio)

QNext == \E t \in Thread :
            Add(t) \/ Signal(t) \/ Token(t) \/ TimedOut(t) \/ Unlink(t)

QSpec == QInit /\ [][QNext]_qvars
-----------------------------------------------------------------------------
QTypeOK == /\ items \in Seq(Message)
          /\ count \in Nat
          /\ qpc \in [Thread -> {"out", "linked", "token"}]
          /\ got \in [Thread -> Message \cup {Nothing, Empty}]

At(place) == {t \in Thread : qpc[t] = place}

(***************************************************************************)
(* Every linked element is accounted for exactly once: by a unit of the    *)
(* semaphore, by a receiver that took a unit and has not unlinked yet, or  *)
(* by an adder that has linked and not posted yet.                         *)
(***************************************************************************)
Balance == Len(items) = count + Cardinality(At("token")) + Cardinality(At("linked"))

(***************************************************************************)
(* The receivers between sem_wait(llqCountSem) and the unlocked test of    *)
(* head never outnumber the elements: however the other receivers and      *)
(* adders interleave, each of them will find one.                          *)
(***************************************************************************)
TokenBacked == Cardinality(At("token")) <= Len(items)

(***************************************************************************)
(* llq_receive never returns 0.  rpcGetMqClientMsg and rpcWaitMqClientMsg  *)
(* test the result against -1 only, so a 0 would hand mtProcess a buffer   *)
(* nothing was copied into.                                                *)
(***************************************************************************)
NoEmptyReceive == \A t \in Thread : got[t] # Empty

(* The inductive invariant of RpcProofs, its part about the queue. *)
QInv == QTypeOK /\ Balance /\ NoEmptyReceive
=============================================================================

----------------------------- MODULE RpcProofs -----------------------------
(***************************************************************************)
(* PrioQueue for every set of threads and messages: the accounting between *)
(* the list and its counting semaphore, and with it that a receiver which  *)
(* was granted a unit finds an element.                                    *)
(*                                                                         *)
(* Rpc for every number of application threads, every set of subsystems    *)
(* and every bound: its types, the mutual exclusion of rpcSendFrame, the   *)
(* discipline of expectedSrspCmdId, and that it drives its queue as        *)
(* PrioQueue allows, which brings over what is proved of the queue.        *)
(***************************************************************************)
EXTENDS Rpc, FiniteSetTheorems, FunctionTheorems, TLAPS

-----------------------------------------------------------------------------
(* The queue by itself.                                                    *)

\* At(place) is a finite set with a cardinality in Nat.
LEMMA AtFinite ==
    ASSUME NEW place
    PROVE  IsFiniteSet(At(place)) /\ Cardinality(At(place)) \in Nat
  <1>1. At(place) \in SUBSET Thread
    BY DEF At
  <1>2. IsFiniteSet(At(place))
    BY <1>1, ThreadsFinite, FS_Subset
  <1> QED
    BY <1>2, FS_CardinalityType

\* A thread that arrives at a place makes its population one larger.
LEMMA Arrives ==
    ASSUME QTypeOK, NEW t \in Thread, NEW place, qpc[t] # place,
           qpc' = [qpc EXCEPT ![t] = place]
    PROVE  Cardinality(At(place)') = Cardinality(At(place)) + 1
  <1>1. At(place)' = At(place) \cup {t} /\ t \notin At(place)
    BY DEF At, QTypeOK
  <1> QED
    BY <1>1, AtFinite, FS_AddElement

\* A thread that leaves a place makes its population one smaller.
LEMMA Leaves ==
    ASSUME QTypeOK, NEW t \in Thread, NEW place, NEW to, qpc[t] = place, to # place,
           qpc' = [qpc EXCEPT ![t] = to]
    PROVE  Cardinality(At(place)') = Cardinality(At(place)) - 1
  <1>1. At(place)' = At(place) \ {t} /\ t \in At(place)
    BY DEF At, QTypeOK
  <1> QED
    BY <1>1, AtFinite, FS_RemoveElement

\* A move between two other places does not change a place's population.
LEMMA Elsewhere ==
    ASSUME QTypeOK, NEW t \in Thread, NEW place, NEW to, qpc[t] # place, to # place,
           qpc' = [qpc EXCEPT ![t] = to]
    PROVE  Cardinality(At(place)') = Cardinality(At(place))
  <1>1. At(place)' = At(place)
    BY DEF At, QTypeOK
  <1> QED
    BY <1>1

\* The accounting gives every receiver with a unit an element of its own.
LEMMA BalanceBacksTokens ==
    ASSUME QTypeOK, Balance
    PROVE  TokenBacked
  <1>1. Len(items) \in Nat /\ count \in Nat
    BY DEF QTypeOK
  <1>2. Cardinality(At("token")) \in Nat /\ Cardinality(At("linked")) \in Nat
    BY AtFinite
  <1> QED
    BY <1>1, <1>2 DEF Balance, TokenBacked

\* In particular the list is not empty when a receiver holds a unit.
LEMMA TokenFindsElement ==
    ASSUME QTypeOK, Balance, NEW t \in Thread, qpc[t] = "token"
    PROVE  items # <<>>
  <1>1. t \in At("token")
    BY DEF At
  <1>2. Cardinality(At("token")) # 0
    BY <1>1, AtFinite, FS_EmptySet
  <1>3. Cardinality(At("token")) \in Nat /\ Cardinality(At("token")) <= Len(items)
    BY AtFinite, BalanceBacksTokens DEF TokenBacked
  <1>4. Len(items) # 0
    BY <1>2, <1>3 DEF QTypeOK
  <1> QED
    BY <1>4

\* The initial states satisfy the inductive invariant.
LEMMA QInitQInv == QInit => QInv
  <1> SUFFICES ASSUME QInit PROVE QInv
    OBVIOUS
  <1>1. QTypeOK
    BY DEF QInit, QTypeOK
  <1>2. At("token") = {} /\ At("linked") = {}
    BY DEF QInit, At
  <1>3. Balance
    <2>1. Cardinality(At("token")) = 0 /\ Cardinality(At("linked")) = 0
      BY <1>2, FS_EmptySet
    <2>2. Len(items) = 0 /\ count = 0
      BY DEF QInit
    <2> QED
      BY <2>1, <2>2 DEF Balance
  <1>4. NoEmptyReceive
    BY ResultsDistinct DEF QInit, NoEmptyReceive
  <1> QED
    BY <1>1, <1>3, <1>4 DEF QInv

\* llq_add's critical section keeps the inductive invariant: the new element
\* is accounted for by its adder.
LEMMA LinkKeepsQInv ==
    ASSUME QInv, NEW t \in Thread, NEW m \in Message, NEW prio \in {0, 1}, Link(t, m, prio)
    PROVE  QInv'
  <1> USE DEF QInv
  <1>1. QTypeOK'
    BY DEF Link, QTypeOK
  <1>2. Len(items') = Len(items) + 1
    <2>1. CASE prio = 1
      BY <2>1 DEF Link, QTypeOK
    <2>2. CASE prio = 0
      BY <2>2 DEF Link, QTypeOK
    <2> QED
      BY <2>1, <2>2
  <1>3. Cardinality(At("linked")') = Cardinality(At("linked")) + 1
    BY Arrives DEF Link
  <1>4. Cardinality(At("token")') = Cardinality(At("token"))
    BY Elsewhere DEF Link
  <1>5. Balance'
    BY <1>2, <1>3, <1>4, AtFinite DEF Balance, Link, QTypeOK
  <1>6. NoEmptyReceive'
    BY DEF Link, NoEmptyReceive
  <1> QED
    BY <1>1, <1>5, <1>6

\* Posting the count moves the element from its adder's account to the semaphore's.
LEMMA SignalKeepsQInv ==
    ASSUME QInv, NEW t \in Thread, Signal(t)
    PROVE  QInv'
  <1> USE DEF QInv
  <1>1. QTypeOK'
    BY DEF Signal, QTypeOK
  <1>2. Cardinality(At("linked")') = Cardinality(At("linked")) - 1
    BY Leaves DEF Signal
  <1>3. Cardinality(At("token")') = Cardinality(At("token"))
    BY Elsewhere DEF Signal
  <1>4. Balance'
    BY <1>2, <1>3, AtFinite DEF Balance, Signal, QTypeOK
  <1>5. NoEmptyReceive'
    BY DEF Signal, NoEmptyReceive
  <1> QED
    BY <1>1, <1>4, <1>5

\* A granted unit moves an element from the semaphore's account to the receiver's.
LEMMA TokenKeepsQInv ==
    ASSUME QInv, NEW t \in Thread, Token(t)
    PROVE  QInv'
  <1> USE DEF QInv
  <1>1. QTypeOK'
    BY DEF Token, QTypeOK
  <1>2. Cardinality(At("token")') = Cardinality(At("token")) + 1
    BY Arrives DEF Token
  <1>3. Cardinality(At("linked")') = Cardinality(At("linked"))
    BY Elsewhere DEF Token
  <1>4. Balance'
    BY <1>2, <1>3, AtFinite DEF Balance, Token, QTypeOK
  <1>5. NoEmptyReceive'
    BY DEF Token, NoEmptyReceive
  <1> QED
    BY <1>1, <1>4, <1>5

\* A receive that gives up touches no account.
LEMMA TimedOutKeepsQInv ==
    ASSUME QInv, NEW t \in Thread, TimedOut(t)
    PROVE  QInv'
  <1> USE DEF QInv
  <1>1. QTypeOK'
    BY DEF TimedOut, QTypeOK
  <1>2. At("token")' = At("token") /\ At("linked")' = At("linked")
    BY DEF TimedOut, At
  <1>3. Balance'
    BY <1>2 DEF Balance, TimedOut
  <1>4. NoEmptyReceive'
    BY ResultsDistinct DEF TimedOut, NoEmptyReceive, QTypeOK
  <1> QED
    BY <1>1, <1>3, <1>4

\* Unlinking the head closes the receiver's account; there is a head to unlink.
LEMMA UnlinkKeepsQInv ==
    ASSUME QInv, NEW t \in Thread, Unlink(t)
    PROVE  QInv'
  <1> USE DEF QInv
  <1>1. items # <<>>
    BY TokenFindsElement DEF Unlink
  <1>2. items' = Tail(items) /\ got' = [got EXCEPT ![t] = Head(items)]
    BY <1>1 DEF Unlink
  <1>3. Head(items) \in Message /\ Tail(items) \in Seq(Message)
        /\ Len(Tail(items)) = Len(items) - 1
    BY <1>1 DEF QTypeOK
  <1>4. QTypeOK'
    BY <1>2, <1>3 DEF Unlink, QTypeOK
  <1>5. Cardinality(At("token")') = Cardinality(At("token")) - 1
    BY Leaves DEF Unlink
  <1>6. Cardinality(At("linked")') = Cardinality(At("linked"))
    BY Elsewhere DEF Unlink
  <1>7. Balance'
    BY <1>2, <1>3, <1>5, <1>6, AtFinite DEF Balance, Unlink, QTypeOK
  <1>8. NoEmptyReceive'
    BY <1>2, <1>3, ResultsDistinct DEF NoEmptyReceive, QTypeOK
  <1> QED
    BY <1>4, <1>7, <1>8

\* No step of any thread, and no step of the rest of the program, breaks it.
LEMMA QNextQInv == QInv /\ [QNext]_qvars => QInv'
  <1> SUFFICES ASSUME QInv, [QNext]_qvars PROVE QInv'
    OBVIOUS
  <1>1. CASE UNCHANGED qvars
    BY <1>1 DEF qvars, QInv, QTypeOK, Balance, NoEmptyReceive, At
  <1>2. ASSUME NEW t \in Thread, Add(t) PROVE QInv'
    BY <1>2, LinkKeepsQInv DEF Add
  <1>3. ASSUME NEW t \in Thread, Signal(t) PROVE QInv'
    BY <1>3, SignalKeepsQInv
  <1>4. ASSUME NEW t \in Thread, Token(t) PROVE QInv'
    BY <1>4, TokenKeepsQInv
  <1>5. ASSUME NEW t \in Thread, TimedOut(t) PROVE QInv'
    BY <1>5, TimedOutKeepsQInv
  <1>6. ASSUME NEW t \in Thread, Unlink(t) PROVE QInv'
    BY <1>6, UnlinkKeepsQInv
  <1> QED
    BY <1>1, <1>2, <1>3, <1>4, <1>5, <1>6 DEF QNext

\* The inductive invariant holds in every reachable state.
THEOREM QueueInvariant == QSpec => []QInv
  BY QInitQInv, QNextQInv, PTL DEF QSpec

\* The variables keep their types.
THEOREM QueueTypeCorrect == QSpec => []QTypeOK
  <1>1. QInv => QTypeOK
    BY DEF QInv
  <1> QED
    BY <1>1, QueueInvariant, PTL

\* List and counting semaphore agree up to the threads between the two.
THEOREM QueueBalanced == QSpec => []Balance
  <1>1. QInv => Balance
    BY DEF QInv
  <1> QED
    BY <1>1, QueueInvariant, PTL

\* However many receivers hold a unit, the list has an element for each.
THEOREM QueueTokenBacked == QSpec => []TokenBacked
  <1>1. QInv => TokenBacked
    BY BalanceBacksTokens DEF QInv
  <1> QED
    BY <1>1, QueueInvariant, PTL

\* llq_receive and llq_timedreceive never return 0 to their callers.
THEOREM QueueNeverEmptyHanded == QSpec => []NoEmptyReceive
  <1>1. QInv => NoEmptyReceive
    BY DEF QInv
  <1> QED
    BY <1>1, QueueInvariant, PTL

-----------------------------------------------------------------------------
(* The queue in the RPC layer.                                             *)

\* The parts of the invariant that concern one thread and its data.
Local == TypeOK /\ SendersHaveRequests /\ PlacesAgree /\ FramesInHand

\* Every step of the program is a step of its queue or leaves the queue alone.
LEMMA QueueStep == IInv /\ [Next]_vars => [QNext]_qvars
  <1> SUFFICES ASSUME IInv, [Next]_vars PROVE [QNext]_qvars
    OBVIOUS
  <1>1. ASSUME NEW t \in App, Call(t) PROVE [QNext]_qvars
    BY <1>1 DEF Call, NewRequest, qvars
  <1>2. ASSUME NEW t \in App, NestedCall(t) PROVE [QNext]_qvars
    BY <1>2 DEF NestedCall, NewRequest, qvars
  <1>3. ASSUME NEW t \in App, Acquire(t) PROVE [QNext]_qvars
    BY <1>3 DEF Acquire, qvars
  <1>4. ASSUME NEW t \in App, SetExpected(t) PROVE [QNext]_qvars
    BY <1>4 DEF SetExpected, qvars
  <1>5. ASSUME NEW t \in App, Write(t) PROVE [QNext]_qvars
    BY <1>5 DEF Write, qvars
  <1>6. ASSUME NEW t \in App, SrspGranted(t) PROVE [QNext]_qvars
    BY <1>6 DEF SrspGranted, qvars
  <1>7. ASSUME NEW t \in App, SrspTimeout(t) PROVE [QNext]_qvars
    BY <1>7 DEF SrspTimeout, qvars
  <1>8. ASSUME NEW t \in App, ClearExpected(t) PROVE [QNext]_qvars
    BY <1>8 DEF ClearExpected, qvars
  <1>9. ASSUME NEW t \in App, Release(t) PROVE [QNext]_qvars
    BY <1>9 DEF Release, qvars
  <1>10. ASSUME NEW t \in App, Poll(t) PROVE [QNext]_qvars
    BY <1>10 DEF Poll, qvars
  <1>11. ASSUME NEW t \in App, Get(t) PROVE [QNext]_qvars
    BY <1>11 DEF Get, qvars
  <1>12. ASSUME NEW t \in App, Fetch(t) PROVE [QNext]_qvars
    BY <1>12, QueueUsers DEF Fetch, QNext
  <1>13. ASSUME NEW t \in App, FetchTimeout(t) PROVE [QNext]_qvars
    BY <1>13, QueueUsers DEF FetchTimeout, QNext
  <1>14. ASSUME NEW t \in App, Take(t) PROVE [QNext]_qvars
    BY <1>14, QueueUsers DEF Take, QNext
  <1>15. ASSUME NEW t \in App, Dispatch(t) PROVE [QNext]_qvars
    BY <1>15 DEF Dispatch, qvars
  <1>16. ASSUME NEW t \in App, CallbackReturns(t) PROVE [QNext]_qvars
    BY <1>16 DEF CallbackReturns, qvars
  <1>17. ASSUME NEW t \in App, ReturnToApp(t) PROVE [QNext]_qvars
    BY <1>17 DEF ReturnToApp, qvars
  <1>18. ASSUME NEW t \in App, ReturnToCallback(t) PROVE [QNext]_qvars
    BY <1>18 DEF ReturnToCallback, qvars
  <1>19. CASE RxFrame
    BY <1>19 DEF RxFrame, Discarded, qvars
  <1>20. CASE RxPost
    BY <1>20 DEF RxPost, qvars
  <1>21. CASE RxLink
    BY <1>21, QueueUsers, QueueElements DEF RxLink, QNext, Add, IInv, FramesInHand
  <1>22. CASE RxSignal
    BY <1>22, QueueUsers DEF RxSignal, QNext
  <1>23. CASE ZnpAnswer
    BY <1>23 DEF ZnpAnswer, qvars
  <1>24. CASE ZnpIndication
    BY <1>24 DEF ZnpIndication, qvars
  <1>25. CASE LineLoses
    BY <1>25 DEF LineLoses, qvars
  <1>26. CASE UNCHANGED vars
    BY <1>26 DEF vars, qvars
  <1> QED
    BY <1>1, <1>2, <1>3, <1>4, <1>5, <1>6, <1>7, <1>8, <1>9, <1>10, <1>11, <1>12, <1>13, <1>14,
       <1>15, <1>16, <1>17, <1>18, <1>19, <1>20, <1>21, <1>22, <1>23, <1>24, <1>25, <1>26
       DEF Next, AppNext, RxNext, ZnpNext

\* So the queue's own invariant is kept.
LEMMA QueueKept == IInv /\ [Next]_vars => QInv'
  BY QueueStep, QNextQInv DEF IInv

\* Types, places and frames in hand are kept.
LEMMA LocalKept == IInv /\ QInv' /\ [Next]_vars => Local'
  <1> SUFFICES ASSUME IInv, QInv', [Next]_vars PROVE Local'
    OBVIOUS
  <1> USE QueueUsers, QueueElements, ThreadsDistinct, SubsDistinct, BoundsNatural,
        ResultsDistinct
  <1> USE DEF IInv, Local, TypeOK, SendersHaveRequests, PlacesAgree, FramesInHand,
             QInv, QTypeOK, SendPlaces, AppPlaces,
             Statuses, Goto, qvars, semVars, appVars, rxVars, wireVars, boundVars
  <1>1. ASSUME NEW t \in App, Call(t) PROVE Local'
    <2>1. PICK type \in {"SREQ", "AREQ"}, s \in Sub :
             req' = [req EXCEPT ![t] = [type |-> type, sub |-> s, id |-> requests + 1]]
      BY <1>1 DEF Call, NewRequest
    <2>2. requests' \in 0..MaxReq /\ [type |-> type, sub |-> s, id |-> requests + 1] \in Request
      BY <1>1, SMTT(60) DEF Call, NewRequest, Request, Id
    <2> QED
      BY <1>1, <2>1, <2>2, SMTT(60) DEF Call, NewRequest
  <1>2. ASSUME NEW t \in App, NestedCall(t) PROVE Local'
    <2>1. PICK type \in {"SREQ", "AREQ"}, s \in Sub :
             req' = [req EXCEPT ![t] = [type |-> type, sub |-> s, id |-> requests + 1]]
      BY <1>2 DEF NestedCall, NewRequest
    <2>2. requests' \in 0..MaxReq /\ [type |-> type, sub |-> s, id |-> requests + 1] \in Request
      BY <1>2, SMTT(60) DEF NestedCall, NewRequest, Request, Id
    <2>3. <<[req |-> req[t], status |-> status[t]]>> \o stack[t] \in Seq(Suspended)
      <3>1. [req |-> req[t], status |-> status[t]] \in Suspended
        BY DEF Suspended
      <3> QED
        BY <3>1
    <2> QED
      BY <1>2, <2>1, <2>2, <2>3, SMTT(60) DEF NestedCall, NewRequest
  <1>3. ASSUME NEW t \in App, Acquire(t) PROVE Local'
    BY <1>3, SMTT(60) DEF Acquire
  <1>4. ASSUME NEW t \in App, SetExpected(t) PROVE Local'
    BY <1>4, SMTT(60) DEF SetExpected, Synchronous, Request
  <1>5. ASSUME NEW t \in App, Write(t) PROVE Local'
    BY <1>5, SMTT(60) DEF Write, Synchronous, Request
  <1>6. ASSUME NEW t \in App, SrspGranted(t) PROVE Local'
    BY <1>6, SMTT(60) DEF SrspGranted
  <1>7. ASSUME NEW t \in App, SrspTimeout(t) PROVE Local'
    BY <1>7, SMTT(60) DEF SrspTimeout
  <1>8. ASSUME NEW t \in App, ClearExpected(t) PROVE Local'
    BY <1>8, SMTT(60) DEF ClearExpected
  <1>9. ASSUME NEW t \in App, Release(t) PROVE Local'
    BY <1>9, SMTT(60) DEF Release
  <1>10. ASSUME NEW t \in App, Poll(t) PROVE Local'
    BY <1>10, SMTT(60) DEF Poll
  <1>11. ASSUME NEW t \in App, Get(t) PROVE Local'
    BY <1>11, SMTT(60) DEF Get
  <1>12. ASSUME NEW t \in App, Fetch(t) PROVE Local'
    BY <1>12, SMTT(60) DEF Fetch, Token
  <1>13. ASSUME NEW t \in App, FetchTimeout(t) PROVE Local'
    BY <1>13, SMTT(60) DEF FetchTimeout, TimedOut
  <1>14. ASSUME NEW t \in App, Take(t) PROVE Local'
    BY <1>14, SMTT(60) DEF Take, Unlink, NoEmptyReceive
  <1>15. ASSUME NEW t \in App, Dispatch(t) PROVE Local'
    <2>1. got[t] \in Frame /\ got[t].type \in {"SRSP", "AREQ"}
      BY <1>15 DEF Dispatch, Frame
    <2>2. dispatched' \in Seq(Frame) /\ srspBuf' \in Frame \cup {Nothing}
      BY <1>15, <2>1 DEF Dispatch
    <2>3. pc' \in [App -> AppPlaces]
      BY <1>15 DEF Dispatch
    <2> QED
      BY <1>15, <2>2, <2>3, SMTT(60) DEF Dispatch
  <1>16. ASSUME NEW t \in App, CallbackReturns(t) PROVE Local'
    BY <1>16, SMTT(60) DEF CallbackReturns
  <1>17. ASSUME NEW t \in App, ReturnToApp(t) PROVE Local'
    BY <1>17, SMTT(60) DEF ReturnToApp
  <1>18. ASSUME NEW t \in App, ReturnToCallback(t) PROVE Local'
    <2>1. Head(stack[t]) \in Suspended /\ Tail(stack[t]) \in Seq(Suspended)
      BY <1>18, SMTT(60) DEF ReturnToCallback
    <2>2. Head(stack[t]).req \in Request \cup {NoReq} /\ Head(stack[t]).status \in Statuses
      BY <2>1 DEF Suspended
    <2> QED
      BY <1>18, <2>1, <2>2, ZenonT(60) DEF ReturnToCallback
  <1>19. CASE RxFrame
    <2>1. Head(fromZnp) \in Frame /\ Tail(fromZnp) \in Seq(Frame)
      BY <1>19, SMTT(60) DEF RxFrame, Discarded
    <2> QED
      BY <1>19, <2>1, ZenonT(60) DEF RxFrame, Discarded
  <1>20. CASE RxPost
    BY <1>20 DEF RxPost
  <1>21. CASE RxLink
    BY <1>21, ZenonT(60) DEF RxLink, Link
  <1>22. CASE RxSignal
    BY <1>22 DEF RxSignal, Signal
  <1>23. CASE ZnpAnswer
    <2>1. Head(toZnp) \in Request /\ Tail(toZnp) \in Seq(Request)
      BY <1>23, SMTT(60) DEF ZnpAnswer
    <2>2. [Head(toZnp) EXCEPT !.type = "SRSP"] \in Frame
      BY <2>1 DEF Request, Frame
    <2>3. fromZnp' \in Seq(Frame)
      BY <1>23, <2>2 DEF ZnpAnswer
    <2> QED
      BY <1>23, <2>1, <2>3, ZenonT(60) DEF ZnpAnswer
  <1>24. CASE ZnpIndication
    BY <1>24, SMTT(60) DEF ZnpIndication, Frame, Id
  <1>25. CASE LineLoses
    <2>1. losses' \in 0..MaxLoss
      BY <1>25 DEF LineLoses
    <2>2. toZnp' \in Seq(Request) /\ fromZnp' \in Seq(Frame)
      <3>1. CASE toZnp # <<>> /\ toZnp' = Tail(toZnp) /\ UNCHANGED fromZnp
        BY <3>1
      <3>2. CASE fromZnp # <<>> /\ fromZnp' = Tail(fromZnp) /\ UNCHANGED toZnp
        BY <3>2
      <3> QED
        BY <1>25, <3>1, <3>2 DEF LineLoses
    <2> QED
      BY <1>25, <2>1, <2>2, ZenonT(60) DEF LineLoses
  <1>26. CASE UNCHANGED vars
    BY <1>26 DEF vars
  <1> QED
    BY <1>1, <1>2, <1>3, <1>4, <1>5, <1>6, <1>7, <1>8, <1>9, <1>10, <1>11, <1>12, <1>13, <1>14,
       <1>15, <1>16, <1>17, <1>18, <1>19, <1>20, <1>21, <1>22, <1>23, <1>24, <1>25, <1>26, ZenonT(60)
       DEF Next, AppNext, RxNext, ZnpNext

\* The senders are finitely many.
LEMMA SendersFinite == IsFiniteSet(Senders) /\ Cardinality(Senders) \in Nat
  <1>1. Senders \in SUBSET App
    BY DEF Senders
  <1> QED
    BY <1>1, ThreadsDistinct, FS_Subset, FS_CardinalityType

\* Two threads that are both inside rpcSendFrame are the same thread.
LEMMA SenderUnique ==
    ASSUME TypeOK, OneSender, NEW t \in Senders, NEW u \in Senders
    PROVE  t = u
  <1>1. Cardinality(Senders) # 0
    BY SendersFinite, FS_EmptySet
  <1>2. Cardinality(Senders) = 1
    BY <1>1, SendersFinite DEF OneSender, TypeOK
  <1> QED
    BY <1>2, SendersFinite, FS_Singleton

\* The senders' semaphore and the senders' number move together.
LEMMA OneSenderKept == IInv /\ [Next]_vars => OneSender'
  <1> SUFFICES ASSUME IInv, [Next]_vars PROVE OneSender'
    OBVIOUS
  <1> USE DEF IInv, TypeOK, SendPlaces
  <1>1. ASSUME NEW t \in App, Call(t) PROVE OneSender'
    BY <1>1 DEF Call, Goto, NewRequest, semVars, appVars, OneSender, Senders
  <1>2. ASSUME NEW t \in App, NestedCall(t) PROVE OneSender'
    BY <1>2 DEF NestedCall, Goto, NewRequest, semVars, appVars, OneSender, Senders
  <1>3. ASSUME NEW t \in App, Acquire(t) PROVE OneSender'
    <2>1. t \notin Senders /\ Senders' = Senders \cup {t}
      BY <1>3 DEF Acquire, Goto, Senders
    <2>2. Cardinality(Senders') = Cardinality(Senders) + 1
      BY <2>1, SendersFinite, FS_AddElement
    <2> QED
      BY <1>3, <2>2, SendersFinite DEF Acquire, OneSender
  <1>4. ASSUME NEW t \in App, SetExpected(t) PROVE OneSender'
    BY <1>4 DEF SetExpected, Goto, semVars, appVars, OneSender, Senders
  <1>5. ASSUME NEW t \in App, Write(t) PROVE OneSender'
    BY <1>5 DEF Write, Goto, semVars, appVars, OneSender, Senders
  <1>6. ASSUME NEW t \in App, SrspGranted(t) PROVE OneSender'
    BY <1>6 DEF SrspGranted, Goto, semVars, appVars, OneSender, Senders
  <1>7. ASSUME NEW t \in App, SrspTimeout(t) PROVE OneSender'
    BY <1>7 DEF SrspTimeout, Goto, semVars, appVars, OneSender, Senders
  <1>8. ASSUME NEW t \in App, ClearExpected(t) PROVE OneSender'
    BY <1>8 DEF ClearExpected, Goto, semVars, appVars, OneSender, Senders
  <1>9. ASSUME NEW t \in App, Release(t) PROVE OneSender'
    <2>1. t \in Senders /\ Senders' = Senders \ {t}
      BY <1>9 DEF Release, Goto, Senders
    <2>2. Cardinality(Senders') = Cardinality(Senders) - 1
      BY <2>1, SendersFinite, FS_RemoveElement
    <2> QED
      BY <1>9, <2>2, SendersFinite DEF Release, OneSender
  <1>10. ASSUME NEW t \in App, Poll(t) PROVE OneSender'
    BY <1>10 DEF Poll, Goto, semVars, appVars, OneSender, Senders
  <1>11. ASSUME NEW t \in App, Get(t) PROVE OneSender'
    BY <1>11 DEF Get, Goto, semVars, appVars, OneSender, Senders
  <1>12. ASSUME NEW t \in App, Fetch(t) PROVE OneSender'
    BY <1>12 DEF Fetch, Goto, semVars, appVars, OneSender, Senders
  <1>13. ASSUME NEW t \in App, FetchTimeout(t) PROVE OneSender'
    BY <1>13 DEF FetchTimeout, Goto, semVars, appVars, OneSender, Senders
  <1>14. ASSUME NEW t \in App, Take(t) PROVE OneSender'
    BY <1>14 DEF Take, Goto, semVars, appVars, OneSender, Senders
  <1>15. ASSUME NEW t \in App, Dispatch(t) PROVE OneSender'
    BY <1>15 DEF Dispatch, Goto, semVars, appVars, OneSender, Senders
  <1>16. ASSUME NEW t \in App, CallbackReturns(t) PROVE OneSender'
    BY <1>16 DEF CallbackReturns, Goto, semVars, appVars, OneSender, Senders
  <1>17. ASSUME NEW t \in App, ReturnToApp(t) PROVE OneSender'
    BY <1>17 DEF ReturnToApp, Goto, semVars, appVars, OneSender, Senders
  <1>18. ASSUME NEW t \in App, ReturnToCallback(t) PROVE OneSender'
    BY <1>18 DEF ReturnToCallback, Goto, semVars, appVars, OneSender, Senders
  <1>19. CASE RxFrame
    BY <1>19 DEF RxFrame, Discarded, Goto, semVars, appVars, OneSender, Senders
  <1>20. CASE RxPost
    BY <1>20 DEF RxPost, Goto, semVars, appVars, OneSender, Senders
  <1>21. CASE RxLink
    BY <1>21 DEF RxLink, Goto, semVars, appVars, OneSender, Senders
  <1>22. CASE RxSignal
    BY <1>22 DEF RxSignal, Goto, semVars, appVars, OneSender, Senders
  <1>23. CASE ZnpAnswer
    BY <1>23 DEF ZnpAnswer, Goto, semVars, appVars, OneSender, Senders
  <1>24. CASE ZnpIndication
    BY <1>24 DEF ZnpIndication, Goto, semVars, appVars, OneSender, Senders
  <1>25. CASE LineLoses
    BY <1>25 DEF LineLoses, Goto, semVars, appVars, OneSender, Senders
  <1>26. CASE UNCHANGED vars
    BY <1>26 DEF vars, semVars, appVars, OneSender, Senders
  <1> QED
    BY <1>1, <1>2, <1>3, <1>4, <1>5, <1>6, <1>7, <1>8, <1>9, <1>10, <1>11, <1>12, <1>13, <1>14,
       <1>15, <1>16, <1>17, <1>18, <1>19, <1>20, <1>21, <1>22, <1>23, <1>24, <1>25, <1>26
       DEF Next, AppNext, RxNext, ZnpNext

\* expectedSrspCmdId follows the one sender.
LEMMA ExpectedKept == IInv /\ [Next]_vars => ExpectedIsCurrent'
  <1> SUFFICES ASSUME IInv, [Next]_vars PROVE ExpectedIsCurrent'
    OBVIOUS
  <1> USE SubsDistinct DEF IInv, TypeOK, ExpectedIsCurrent, Awaiting, Synchronous
  <1>1. ASSUME NEW t \in App, Call(t) PROVE ExpectedIsCurrent'
    BY <1>1 DEF Call, Goto, NewRequest, semVars, appVars
  <1>2. ASSUME NEW t \in App, NestedCall(t) PROVE ExpectedIsCurrent'
    BY <1>2 DEF NestedCall, Goto, NewRequest, semVars, appVars
  <1>3. ASSUME NEW t \in App, Acquire(t) PROVE ExpectedIsCurrent'
    BY <1>3 DEF Acquire, Goto, semVars, appVars
  <1>4. ASSUME NEW t \in App, SetExpected(t) PROVE ExpectedIsCurrent'
    <2>1. \A u \in App : Awaiting(u) => u = t
      BY <1>4, SenderUnique DEF SetExpected, Goto, Senders, SendPlaces
    <2> QED
      BY <1>4, <2>1 DEF SetExpected, Goto, SendersHaveRequests, SendPlaces, Request
  <1>5. ASSUME NEW t \in App, Write(t) PROVE ExpectedIsCurrent'
    BY <1>5 DEF Write, Goto, semVars, appVars
  <1>6. ASSUME NEW t \in App, SrspGranted(t) PROVE ExpectedIsCurrent'
    BY <1>6 DEF SrspGranted, Goto, semVars, appVars
  <1>7. ASSUME NEW t \in App, SrspTimeout(t) PROVE ExpectedIsCurrent'
    BY <1>7 DEF SrspTimeout, Goto, semVars, appVars
  <1>8. ASSUME NEW t \in App, ClearExpected(t) PROVE ExpectedIsCurrent'
    <2>1. \A u \in App : Awaiting(u) => u = t
      BY <1>8, SenderUnique DEF ClearExpected, Goto, Senders, SendPlaces
    <2> QED
      BY <1>8, <2>1 DEF ClearExpected, Goto, SendersHaveRequests, SendPlaces, Request
  <1>9. ASSUME NEW t \in App, Release(t) PROVE ExpectedIsCurrent'
    BY <1>9 DEF Release, Goto, semVars, appVars
  <1>10. ASSUME NEW t \in App, Poll(t) PROVE ExpectedIsCurrent'
    BY <1>10 DEF Poll, Goto, semVars, appVars
  <1>11. ASSUME NEW t \in App, Get(t) PROVE ExpectedIsCurrent'
    BY <1>11 DEF Get, Goto, semVars, appVars
  <1>12. ASSUME NEW t \in App, Fetch(t) PROVE ExpectedIsCurrent'
    BY <1>12 DEF Fetch, Goto, semVars, appVars
  <1>13. ASSUME NEW t \in App, FetchTimeout(t) PROVE ExpectedIsCurrent'
    BY <1>13 DEF FetchTimeout, Goto, semVars, appVars
  <1>14. ASSUME NEW t \in App, Take(t) PROVE ExpectedIsCurrent'
    BY <1>14 DEF Take, Goto, semVars, appVars
  <1>15. ASSUME NEW t \in App, Dispatch(t) PROVE ExpectedIsCurrent'
    BY <1>15 DEF Dispatch, Goto, semVars, appVars
  <1>16. ASSUME NEW t \in App, CallbackReturns(t) PROVE ExpectedIsCurrent'
    BY <1>16 DEF CallbackReturns, Goto, semVars, appVars
  <1>17. ASSUME NEW t \in App, ReturnToApp(t) PROVE ExpectedIsCurrent'
    BY <1>17 DEF ReturnToApp, Goto, semVars, appVars
  <1>18. ASSUME NEW t \in App, ReturnToCallback(t) PROVE ExpectedIsCurrent'
    BY <1>18 DEF ReturnToCallback, Goto, semVars, appVars
  <1>19. CASE RxFrame
    BY <1>19 DEF RxFrame, Discarded, Goto, semVars, appVars
  <1>20. CASE RxPost
    BY <1>20 DEF RxPost, Goto, semVars, appVars
  <1>21. CASE RxLink
    BY <1>21 DEF RxLink, Goto, semVars, appVars
  <1>22. CASE RxSignal
    BY <1>22 DEF RxSignal, Goto, semVars, appVars
  <1>23. CASE ZnpAnswer
    BY <1>23 DEF ZnpAnswer, Goto, semVars, appVars
  <1>24. CASE ZnpIndication
    BY <1>24 DEF ZnpIndication, Goto, semVars, appVars
  <1>25. CASE LineLoses
    BY <1>25 DEF LineLoses, Goto, semVars, appVars
  <1>26. CASE UNCHANGED vars
    BY <1>26 DEF vars, semVars, appVars
  <1> QED
    BY <1>1, <1>2, <1>3, <1>4, <1>5, <1>6, <1>7, <1>8, <1>9, <1>10, <1>11, <1>12, <1>13, <1>14,
       <1>15, <1>16, <1>17, <1>18, <1>19, <1>20, <1>21, <1>22, <1>23, <1>24, <1>25, <1>26
       DEF Next, AppNext, RxNext, ZnpNext

\* The initial states satisfy the inductive invariant.
LEMMA InitIInv == Init => IInv
  <1> SUFFICES ASSUME Init PROVE IInv
    OBVIOUS
  <1>1. QInv
    BY QInitQInv DEF Init
  <1>2. Local
    BY <1>1, QueueUsers, QueueElements, ThreadsDistinct, BoundsNatural
       DEF Init, Local, TypeOK, SendersHaveRequests, PlacesAgree, FramesInHand, QInv, QInit,
           SendPlaces, AppPlaces, Statuses
  <1>3. Senders = {}
    BY DEF Init, Senders, SendPlaces
  <1>4. OneSender
    <2>1. Cardinality(Senders) = 0
      BY <1>3, FS_EmptySet
    <2> QED
      BY <2>1 DEF Init, OneSender
  <1>5. ExpectedIsCurrent
    BY SubsDistinct DEF Init, ExpectedIsCurrent, Awaiting
  <1> QED
    BY <1>1, <1>2, <1>4, <1>5 DEF IInv, Local

\* No step of any thread breaks it.
LEMMA NextIInv == IInv /\ [Next]_vars => IInv'
  <1> SUFFICES ASSUME IInv, [Next]_vars PROVE IInv'
    OBVIOUS
  <1>1. QInv'
    BY QueueKept
  <1>2. Local'
    BY <1>1, LocalKept
  <1>3. OneSender' /\ ExpectedIsCurrent'
    BY OneSenderKept, ExpectedKept
  <1> QED
    BY <1>1, <1>2, <1>3 DEF IInv, Local

\* The inductive invariant holds in every reachable state.
THEOREM RpcInvariant == Spec => []IInv
  BY InitIInv, NextIInv, PTL DEF Spec

\* The variables of rpc.c and its threads keep their types.
THEOREM RpcTypeCorrect == Spec => []TypeOK
  <1>1. IInv => TypeOK
    BY DEF IInv
  <1> QED
    BY <1>1, RpcInvariant, PTL

\* At most one thread is inside rpcSendFrame, and rpcSem says which is the case.
THEOREM RpcOneSender == Spec => []OneSender
  <1>1. IInv => OneSender
    BY DEF IInv
  <1> QED
    BY <1>1, RpcInvariant, PTL

\* expectedSrspCmdId names the request in progress, and nothing when there is none.
THEOREM RpcExpectedIsCurrent == Spec => []ExpectedIsCurrent
  <1>1. IInv => ExpectedIsCurrent
    BY DEF IInv
  <1> QED
    BY <1>1, RpcInvariant, PTL

\* mtProcess is never handed a buffer that llq_timedreceive did not fill.
THEOREM RpcNeverEmptyHanded == Spec => []NoEmptyReceive
  <1>1. IInv => NoEmptyReceive
    BY DEF IInv, QInv
  <1> QED
    BY <1>1, RpcInvariant, PTL

-----------------------------------------------------------------------------
(* What becomes of the frames: the order in which they wait, that each is  *)
(* in one place, and whose answer a synchronous request gets.              *)

\* The frame each application thread has fetched and not yet handed to mtProcess.
Held == [t \in App |-> IF pc[t] = "dispatch" THEN <<got[t]>> ELSE <<>>]

\* Where the frames are between the serial line and mtProcess.
frameVars == <<items, fromZnp, rxpc, rxFrame, areqs, losses, dispatched, Held>>

\* The steps that move a frame.
FrameMoves ==
    \/ \E t \in App : Take(t) \/ Dispatch(t)
    \/ RxNext
    \/ ZnpNext

\* Every other step leaves the frames where they are.
LEMMA OnlyMovesMove == IInv /\ [Next]_vars => FrameMoves \/ UNCHANGED frameVars
  <1> SUFFICES ASSUME IInv, [Next]_vars, ~FrameMoves PROVE UNCHANGED frameVars
    OBVIOUS
  <1> USE DEF frameVars, Held, Goto, IInv, TypeOK, qvars, semVars, appVars, rxVars, wireVars, boundVars
  <1>1. ASSUME NEW t \in App, Call(t) PROVE UNCHANGED frameVars
    BY <1>1 DEF Call, NewRequest
  <1>2. ASSUME NEW t \in App, NestedCall(t) PROVE UNCHANGED frameVars
    BY <1>2 DEF NestedCall, NewRequest
  <1>3. ASSUME NEW t \in App, Acquire(t) \/ SetExpected(t) \/ Write(t) PROVE UNCHANGED frameVars
    BY <1>3 DEF Acquire, SetExpected, Write
  <1>4. ASSUME NEW t \in App, SrspGranted(t) \/ SrspTimeout(t) \/ ClearExpected(t) \/ Release(t)
        PROVE  UNCHANGED frameVars
    BY <1>4 DEF SrspGranted, SrspTimeout, ClearExpected, Release
  <1>5. ASSUME NEW t \in App, Poll(t) \/ Get(t) \/ CallbackReturns(t)
        PROVE  UNCHANGED frameVars
    BY <1>5 DEF Poll, Get, CallbackReturns
  <1>6. ASSUME NEW t \in App, Fetch(t) PROVE UNCHANGED frameVars
    BY <1>6 DEF Fetch, Token
  <1>7. ASSUME NEW t \in App, FetchTimeout(t) PROVE UNCHANGED frameVars
    BY <1>7 DEF FetchTimeout, TimedOut, QTypeOK
  <1>8. ASSUME NEW t \in App, ReturnToApp(t) \/ ReturnToCallback(t) PROVE UNCHANGED frameVars
    BY <1>8 DEF ReturnToApp, ReturnToCallback
  <1>9. CASE UNCHANGED vars
    BY <1>9 DEF vars
  <1> QED
    BY <1>1, <1>2, <1>3, <1>4, <1>5, <1>6, <1>7, <1>8, <1>9, ZenonT(60)
       DEF FrameMoves, Next, AppNext, RxNext, ZnpNext

-----------------------------------------------------------------------------
(* The order of the indications.                                           *)

Indication(f) == f.type = "AREQ"

\* The indications of p come before those of q ...
Precede(p, q) ==
    \A i \in DOMAIN p, j \in DOMAIN q :
        Indication(p[i]) /\ Indication(q[j]) => p[i].id < q[j].id

\* ... and those of one sequence are in the order of their identifiers.
Ordered(q) ==
    \A i, j \in DOMAIN q :
        i < j /\ Indication(q[i]) /\ Indication(q[j]) => q[i].id < q[j].id

\* What QueueSorted says of the queue.
Sorted(q) ==
    \A i, j \in DOMAIN q :
        i < j => \/ q[i].type = "SRSP"
                 \/ q[j].type = "AREQ" /\ q[i].id < q[j].id

\* The frame between the line and the queue, if there is one.
InTransit == IF rxpc \in {"post", "link"} THEN <<rxFrame>> ELSE <<>>

Issued(q) == \A i \in DOMAIN q : Indication(q[i]) => q[i].id <= areqs

(***************************************************************************)
(* QueueSorted alone is not inductive: what RxLink appends must be younger *)
(* than the queue, so the frames on the line and in rpcProcess's hands     *)
(* must be in order too, and older than the next indication.               *)
(***************************************************************************)
OrderInv ==
    /\ Sorted(items)
    /\ Ordered(fromZnp)
    /\ Precede(items, InTransit) /\ Precede(items, fromZnp) /\ Precede(InTransit, fromZnp)
    /\ Issued(items) /\ Issued(InTransit) /\ Issued(fromZnp)
    /\ rxpc = "post" => ~Indication(rxFrame)

\* Taking the first element of a sequence keeps the order, and the rest follows it.
LEMMA TailOrdered ==
    ASSUME NEW S, NEW q \in Seq(S), q # <<>>, Ordered(q)
    PROVE  Ordered(Tail(q)) /\ Precede(<<Head(q)>>, Tail(q))
  <1>1. /\ DOMAIN q = 1..Len(q) /\ Len(q) \in Nat \ {0} /\ Head(q) = q[1]
        /\ DOMAIN Tail(q) = 1..(Len(q) - 1) /\ \A i \in DOMAIN Tail(q) : Tail(q)[i] = q[i + 1]
    OBVIOUS
  <1> QED
    BY <1>1, SMTT(60) DEF Ordered, Precede

\* What holds of a sequence holds of its tail.
LEMMA TailKeeps ==
    ASSUME NEW S, NEW q \in Seq(S), q # <<>>
    PROVE  /\ \A p : Precede(p, q) => Precede(p, Tail(q)) /\ Precede(p, <<Head(q)>>)
           /\ \A p : Precede(q, p) => Precede(Tail(q), p)
           /\ Issued(q) => Issued(Tail(q)) /\ Issued(<<Head(q)>>)
  <1>1. /\ DOMAIN q = 1..Len(q) /\ Len(q) \in Nat \ {0} /\ Head(q) = q[1]
        /\ DOMAIN Tail(q) = 1..(Len(q) - 1) /\ \A i \in DOMAIN Tail(q) : Tail(q)[i] = q[i + 1]
    OBVIOUS
  <1> QED
    BY <1>1 DEF Precede, Issued

\* An element younger than a sequence may be appended to it.
LEMMA AppendOrdered ==
    ASSUME NEW S, NEW q \in Seq(S), NEW m \in S, Ordered(q), Precede(q, <<m>>)
    PROVE  Ordered(Append(q, m))
  <1>1. /\ DOMAIN q = 1..Len(q) /\ Len(q) \in Nat /\ DOMAIN Append(q, m) = 1..(Len(q) + 1)
        /\ \A i \in DOMAIN q : Append(q, m)[i] = q[i]
        /\ Append(q, m)[Len(q) + 1] = m
    OBVIOUS
  <1> QED
    BY <1>1 DEF Ordered, Precede

\* What holds of a sequence and of one more element holds of both together.
LEMMA AppendKeeps ==
    ASSUME NEW S, NEW q \in Seq(S), NEW m \in S
    PROVE  /\ \A p : Precede(p, q) /\ Precede(p, <<m>>) => Precede(p, Append(q, m))
           /\ \A p : Precede(q, p) /\ Precede(<<m>>, p) => Precede(Append(q, m), p)
           /\ Issued(q) /\ Issued(<<m>>) => Issued(Append(q, m))
  <1>1. /\ DOMAIN q = 1..Len(q) /\ Len(q) \in Nat /\ DOMAIN Append(q, m) = 1..(Len(q) + 1)
        /\ \A i \in DOMAIN q : Append(q, m)[i] = q[i]
        /\ Append(q, m)[Len(q) + 1] = m
        /\ DOMAIN <<m>> = {1} /\ <<m>>[1] = m
    OBVIOUS
  <1> QED
    BY <1>1 DEF Precede, Issued

\* An SRSP in front of a sequence adds no indication to it.
LEMMA ConsKeeps ==
    ASSUME NEW S, NEW q \in Seq(S), NEW m \in S, ~Indication(m)
    PROVE  /\ \A p : Precede(p, q) => Precede(p, <<m>> \o q)
           /\ \A p : Precede(q, p) => Precede(<<m>> \o q, p)
           /\ Issued(q) => Issued(<<m>> \o q)
  <1>1. /\ DOMAIN q = 1..Len(q) /\ Len(q) \in Nat /\ DOMAIN (<<m>> \o q) = 1..(Len(q) + 1)
        /\ \A i \in 2..(Len(q) + 1) : (<<m>> \o q)[i] = q[i - 1]
        /\ (<<m>> \o q)[1] = m
    OBVIOUS
  <1> QED
    BY <1>1 DEF Precede, Issued

\* A sorted queue stays sorted when its head is taken, ...
LEMMA TailSorted ==
    ASSUME NEW q \in Seq(Frame), q # <<>>, Sorted(q)
    PROVE  Sorted(Tail(q))
  <1>1. /\ DOMAIN q = 1..Len(q) /\ Len(q) \in Nat \ {0}
        /\ DOMAIN Tail(q) = 1..(Len(q) - 1) /\ \A i \in DOMAIN Tail(q) : Tail(q)[i] = q[i + 1]
    OBVIOUS
  <1> QED
    BY <1>1 DEF Sorted

\* ... when a response is put in front of it ...
LEMMA ConsSorted ==
    ASSUME NEW q \in Seq(Frame), Sorted(q), NEW m \in Frame, ~Indication(m)
    PROVE  Sorted(<<m>> \o q)
  <1>1. /\ DOMAIN q = 1..Len(q) /\ Len(q) \in Nat /\ DOMAIN (<<m>> \o q) = 1..(Len(q) + 1)
        /\ \A i \in 2..(Len(q) + 1) : (<<m>> \o q)[i] = q[i - 1]
        /\ (<<m>> \o q)[1] = m
    OBVIOUS
  <1>2. m.type = "SRSP"
    BY DEF Frame, Indication
  <1> QED
    BY <1>1, <1>2 DEF Sorted

\* ... and when an indication younger than all of it is put at its end.
LEMMA AppendSorted ==
    ASSUME NEW q \in Seq(Frame), Sorted(q), NEW m \in Frame, Indication(m), Precede(q, <<m>>)
    PROVE  Sorted(Append(q, m))
  <1>1. /\ DOMAIN q = 1..Len(q) /\ Len(q) \in Nat /\ DOMAIN Append(q, m) = 1..(Len(q) + 1)
        /\ \A i \in DOMAIN q : Append(q, m)[i] = q[i]
        /\ Append(q, m)[Len(q) + 1] = m
        /\ DOMAIN <<m>> = {1} /\ <<m>>[1] = m
    OBVIOUS
  <1>2. \A f \in Frame : f.type = "SRSP" \/ Indication(f)
    BY DEF Frame, Indication
  <1>3. \A i \in DOMAIN q : q[i].type = "SRSP" \/ q[i].id < m.id
    BY <1>1, <1>2 DEF Precede
  <1> QED
    BY <1>1, <1>3 DEF Sorted, Indication

\* Nothing is in flight at first.
LEMMA InitOrder == Init => OrderInv
  BY DEF Init, QInit, OrderInv, Sorted, Ordered, Precede, Issued, InTransit

\* Every step keeps the order.
LEMMA OrderKept == IInv /\ OrderInv /\ [Next]_vars => OrderInv'
  <1> SUFFICES ASSUME IInv, OrderInv, [Next]_vars PROVE OrderInv'
    OBVIOUS
  <1>a. /\ items \in Seq(Frame) /\ fromZnp \in Seq(Frame) /\ areqs \in Nat
        /\ rxpc \in {"post", "link"} => rxFrame \in Frame
        /\ \A f \in Frame : (f.type = "SRSP" \/ Indication(f)) /\ f.id \in Nat
    BY QueueElements, BoundsNatural, SMTT(60) DEF IInv, TypeOK, QTypeOK, FramesInHand, Frame, Id, Indication
  <1>1. CASE UNCHANGED frameVars
    BY <1>1 DEF frameVars, OrderInv, Sorted, Ordered, Precede, Issued, InTransit
  <1>2. ASSUME NEW t \in App, Take(t) PROVE OrderInv'
    <2>1. items # <<>> /\ items' = Tail(items)
      BY <1>2, TokenFindsElement, QueueUsers DEF Take, Unlink, IInv, QInv
    <2>2. UNCHANGED <<fromZnp, rxpc, rxFrame, areqs>>
      BY <1>2 DEF Take, rxVars, wireVars, boundVars
    <2>3. Sorted(items')
      BY <1>a, <2>1, TailSorted DEF OrderInv
    <2>4. Precede(Tail(items), InTransit) /\ Precede(Tail(items), fromZnp) /\ Issued(Tail(items))
      BY <1>a, <2>1, TailKeeps DEF OrderInv
    <2> QED
      BY <2>1, <2>2, <2>3, <2>4 DEF OrderInv, Ordered, Precede, Issued, InTransit
  <1>3. ASSUME NEW t \in App, Dispatch(t) PROVE OrderInv'
    BY <1>3 DEF Dispatch, qvars, rxVars, wireVars, boundVars,
                OrderInv, Sorted, Ordered, Precede, Issued, InTransit
  <1>4. CASE RxFrame
    <2>1. /\ fromZnp # <<>> /\ fromZnp' = Tail(fromZnp) /\ UNCHANGED <<items, areqs>>
          /\ InTransit = <<>>
          /\ InTransit' \in {<<>>, <<Head(fromZnp)>>}
          /\ rxpc' = "post" => rxFrame' = Head(fromZnp) /\ Head(fromZnp).type = "SRSP"
      BY <1>4 DEF RxFrame, Discarded, InTransit, qvars, boundVars
    <2>2. Ordered(Tail(fromZnp)) /\ Precede(<<Head(fromZnp)>>, Tail(fromZnp))
      BY <1>a, <2>1, TailOrdered DEF OrderInv
    <2>3. /\ Precede(items, Tail(fromZnp)) /\ Precede(items, <<Head(fromZnp)>>)
          /\ Issued(Tail(fromZnp)) /\ Issued(<<Head(fromZnp)>>)
      BY <1>a, <2>1, TailKeeps DEF OrderInv
    <2>4. Precede(items, <<>>) /\ Precede(<<>>, Tail(fromZnp)) /\ Issued(<<>>)
      BY DEF Precede, Issued
    <2>5. /\ Precede(items, InTransit') /\ Precede(InTransit', Tail(fromZnp)) /\ Issued(InTransit')
      BY <2>1, <2>2, <2>3, <2>4
    <2> QED
      BY <2>1, <2>2, <2>3, <2>5 DEF OrderInv, Sorted, Ordered, Precede, Issued, Indication
  <1>5. CASE RxPost
    BY <1>5 DEF RxPost, qvars, wireVars, boundVars,
                OrderInv, Sorted, Ordered, Precede, Issued, InTransit
  <1>6. CASE RxLink
    <2>1. UNCHANGED <<fromZnp, areqs>> /\ InTransit = <<rxFrame>> /\ InTransit' = <<>>
          /\ rxFrame \in Frame /\ rxpc' = "signal"
      BY <1>6, <1>a DEF RxLink, InTransit, wireVars, boundVars
    <2>2. /\ rxFrame.type = "SRSP" => items' = <<rxFrame>> \o items
          /\ rxFrame.type # "SRSP" => items' = Append(items, rxFrame)
      BY <1>6 DEF RxLink, Link
    <2>3. Sorted(items') /\ Precede(items', fromZnp) /\ Issued(items')
      <3>1. CASE rxFrame.type = "SRSP"
        <4>1. ~Indication(rxFrame)
          BY <3>1 DEF Indication
        <4> QED
          BY <1>a, <2>1, <2>2, <3>1, <4>1, ConsSorted, ConsKeeps DEF OrderInv
      <3>2. CASE rxFrame.type # "SRSP"
        <4>1. Indication(rxFrame)
          BY <1>a, <2>1, <3>2
        <4>2. Sorted(Append(items, rxFrame))
          BY <1>a, <2>1, <4>1, AppendSorted DEF OrderInv
        <4>3. Precede(Append(items, rxFrame), fromZnp) /\ Issued(Append(items, rxFrame))
          BY <1>a, <2>1, AppendKeeps DEF OrderInv
        <4> QED
          BY <2>2, <3>2, <4>2, <4>3
      <3> QED
        BY <3>1, <3>2
    <2> QED
      BY <2>1, <2>3 DEF OrderInv, Ordered, Precede, Issued
  <1>7. CASE RxSignal
    BY <1>7 DEF RxSignal, Signal, wireVars, boundVars,
                OrderInv, Sorted, Ordered, Precede, Issued, InTransit
  <1>8. CASE ZnpAnswer
    <2>1. /\ UNCHANGED <<items, rxpc, rxFrame, areqs>>
          /\ \/ UNCHANGED fromZnp
             \/ \E m \in Frame : ~Indication(m) /\ fromZnp' = Append(fromZnp, m)
      <3>1. Head(toZnp) \in Request
        BY <1>8 DEF ZnpAnswer, IInv, TypeOK
      <3>2. [Head(toZnp) EXCEPT !.type = "SRSP"] \in Frame
            /\ ~Indication([Head(toZnp) EXCEPT !.type = "SRSP"])
        BY <3>1 DEF Request, Frame, Indication
      <3> QED
        BY <1>8, <3>2 DEF ZnpAnswer, qvars, rxVars, boundVars
    <2>2. ASSUME NEW m \in Frame, ~Indication(m), fromZnp' = Append(fromZnp, m) PROVE OrderInv'
      <3>1. /\ \A p : Precede(p, <<m>>)
            /\ Issued(<<m>>)
        BY <2>2 DEF Precede, Issued
      <3>2. /\ Ordered(Append(fromZnp, m)) /\ Issued(Append(fromZnp, m))
            /\ Precede(items, Append(fromZnp, m)) /\ Precede(InTransit, Append(fromZnp, m))
        BY <1>a, <3>1, AppendOrdered, AppendKeeps DEF OrderInv
      <3> QED
        BY <2>1, <2>2, <3>2 DEF OrderInv, Sorted, Ordered, Precede, Issued, InTransit
    <2> QED
      BY <2>1, <2>2 DEF OrderInv, Sorted, Ordered, Precede, Issued, InTransit
  <1>9. CASE ZnpIndication
    <2>1. PICK s \in Sub : fromZnp' = Append(fromZnp, [type |-> "AREQ", sub |-> s, id |-> areqs + 1])
      BY <1>9 DEF ZnpIndication
    <2> DEFINE m == [type |-> "AREQ", sub |-> s, id |-> areqs + 1]
    <2>2. UNCHANGED <<items, rxpc, rxFrame>> /\ areqs' = areqs + 1 /\ m \in Frame
      BY <1>9, BoundsNatural, SMTT(60) DEF ZnpIndication, qvars, rxVars, Frame, Id, IInv, TypeOK
    <2>3. \A i \in DOMAIN items : items[i].id \in Nat
      BY <1>a
    <2>4. \A i \in DOMAIN fromZnp : fromZnp[i].id \in Nat
      BY <1>a
    <2>5. rxpc \in {"post", "link"} => rxFrame.id \in Nat
      BY <1>a
    <2>6. /\ Precede(items, <<m>>) /\ Precede(fromZnp, <<m>>) /\ Precede(InTransit, <<m>>)
      BY <1>a, <2>3, <2>4, <2>5 DEF OrderInv, Precede, Issued, InTransit
    <2>7. /\ Ordered(Append(fromZnp, m))
          /\ Precede(items, Append(fromZnp, m)) /\ Precede(InTransit, Append(fromZnp, m))
      BY <1>a, <2>2, <2>6, AppendOrdered, AppendKeeps DEF OrderInv
    <2>8. Issued(items)' /\ Issued(InTransit)' /\ Issued(fromZnp)'
      <3>1. DOMAIN fromZnp' = 1..(Len(fromZnp) + 1) /\ DOMAIN fromZnp = 1..Len(fromZnp)
            /\ Len(fromZnp) \in Nat /\ fromZnp'[Len(fromZnp) + 1].id = areqs + 1
            /\ \A i \in DOMAIN fromZnp : fromZnp'[i] = fromZnp[i]
        BY <1>a, <2>1, <2>2
      <3>2. Issued(fromZnp)'
        BY <1>a, <2>2, <2>4, <3>1 DEF OrderInv, Issued
      <3> QED
        BY <1>a, <2>2, <2>3, <2>5, <3>2 DEF OrderInv, Issued, InTransit
    <2> QED
      BY <2>1, <2>2, <2>7, <2>8, SMTT(60) DEF OrderInv, Sorted, Ordered, Precede, InTransit
  <1>10. CASE LineLoses
    <2>1. /\ UNCHANGED <<items, rxpc, rxFrame, areqs>>
          /\ UNCHANGED fromZnp \/ (fromZnp # <<>> /\ fromZnp' = Tail(fromZnp))
      BY <1>10 DEF LineLoses, qvars, rxVars
    <2>2. CASE fromZnp # <<>> /\ fromZnp' = Tail(fromZnp)
      <3>1. /\ Ordered(Tail(fromZnp)) /\ Issued(Tail(fromZnp))
            /\ Precede(items, Tail(fromZnp)) /\ Precede(InTransit, Tail(fromZnp))
        BY <1>a, <2>2, TailOrdered, TailKeeps DEF OrderInv
      <3> QED
        BY <2>1, <2>2, <3>1 DEF OrderInv, Sorted, Ordered, Precede, Issued, InTransit
    <2> QED
      BY <2>1, <2>2 DEF OrderInv, Sorted, Ordered, Precede, Issued, InTransit
  <1> QED
    BY <1>1, <1>2, <1>3, <1>4, <1>5, <1>6, <1>7, <1>8, <1>9, <1>10, OnlyMovesMove
       DEF FrameMoves, RxNext, ZnpNext

\* Responses are in front of indications, and indications in the order they were sent.
THEOREM RpcQueueSorted == Spec => []QueueSorted
  <1>1. OrderInv => QueueSorted
    BY DEF OrderInv, Sorted, QueueSorted
  <1> QED
    BY <1>1, InitOrder, OrderKept, RpcInvariant, PTL DEF Spec

(***************************************************************************)
(* That no indication is overtaken on its way to a callback: those a       *)
(* sequence p holds are past, in that all that is under way was sent after *)
(* them, and what is past once stays past.                                 *)
(***************************************************************************)
Past(p) == Precede(p, items) /\ Precede(p, InTransit) /\ Precede(p, fromZnp) /\ Issued(p)

\* Whatever step is taken, what was past before is past afterwards.
LEMMA PastKept ==
    ASSUME IInv, OrderInv, [Next]_vars, NEW p \in Seq(Frame), Past(p)
    PROVE  Past(p)'
  <1>a. /\ items \in Seq(Frame) /\ fromZnp \in Seq(Frame) /\ areqs \in Nat
        /\ rxpc \in {"post", "link"} => rxFrame \in Frame
        /\ \A f \in Frame : (f.type = "SRSP" \/ Indication(f)) /\ f.id \in Nat
    BY QueueElements, BoundsNatural, SMTT(60) DEF IInv, TypeOK, QTypeOK, FramesInHand, Frame, Id, Indication
  <1>b. Precede(p, <<>>)
    BY DEF Precede
  <1>1. CASE UNCHANGED frameVars
    BY <1>1 DEF frameVars, Past, Precede, Issued, InTransit
  <1>2. ASSUME NEW t \in App, Take(t) PROVE Past(p)'
    <2>1. items # <<>> /\ items' = Tail(items)
      BY <1>2, TokenFindsElement, QueueUsers DEF Take, Unlink, IInv, QInv
    <2>2. UNCHANGED <<fromZnp, rxpc, rxFrame, areqs>>
      BY <1>2 DEF Take, rxVars, wireVars, boundVars
    <2>3. Precede(p, Tail(items))
      BY <1>a, <2>1, TailKeeps DEF Past
    <2> QED
      BY <2>1, <2>2, <2>3 DEF Past, Precede, Issued, InTransit
  <1>3. ASSUME NEW t \in App, Dispatch(t) PROVE Past(p)'
    BY <1>3 DEF Dispatch, qvars, rxVars, wireVars, boundVars, Past, Precede, Issued, InTransit
  <1>4. CASE RxFrame
    <2>1. /\ fromZnp # <<>> /\ fromZnp' = Tail(fromZnp) /\ UNCHANGED <<items, areqs>>
          /\ InTransit' \in {<<>>, <<Head(fromZnp)>>}
      BY <1>4 DEF RxFrame, Discarded, InTransit, qvars, boundVars
    <2>2. Precede(p, Tail(fromZnp)) /\ Precede(p, <<Head(fromZnp)>>)
      BY <1>a, <2>1, TailKeeps DEF Past
    <2>3. Precede(p, InTransit')
      BY <1>b, <2>1, <2>2
    <2> QED
      BY <2>1, <2>2, <2>3 DEF Past, Precede, Issued
  <1>5. CASE RxPost
    BY <1>5 DEF RxPost, qvars, wireVars, boundVars, Past, Precede, Issued, InTransit
  <1>6. CASE RxLink
    <2>1. UNCHANGED <<fromZnp, areqs>> /\ InTransit = <<rxFrame>> /\ InTransit' = <<>>
          /\ rxFrame \in Frame
      BY <1>6, <1>a DEF RxLink, InTransit, wireVars, boundVars
    <2>2. /\ rxFrame.type = "SRSP" => items' = <<rxFrame>> \o items
          /\ rxFrame.type # "SRSP" => items' = Append(items, rxFrame)
      BY <1>6 DEF RxLink, Link
    <2>3. rxFrame.type = "SRSP" => ~Indication(rxFrame)
      BY DEF Indication
    <2>4. Precede(p, items')
      BY <1>a, <2>1, <2>2, <2>3, ConsKeeps, AppendKeeps DEF Past
    <2> QED
      BY <1>b, <2>1, <2>4 DEF Past, Precede, Issued
  <1>7. CASE RxSignal
    BY <1>7 DEF RxSignal, Signal, wireVars, boundVars, Past, Precede, Issued, InTransit, OrderInv
  <1>8. CASE ZnpAnswer
    <2>1. UNCHANGED <<items, rxpc, rxFrame, areqs>>
      BY <1>8 DEF ZnpAnswer, qvars, rxVars, boundVars
    <2>2. CASE UNCHANGED fromZnp
      BY <2>1, <2>2 DEF Past, Precede, Issued, InTransit
    <2>3. CASE fromZnp' # fromZnp
      <3> DEFINE m == [Head(toZnp) EXCEPT !.type = "SRSP"]
      <3>1. Head(toZnp) \in Request
        BY <1>8 DEF ZnpAnswer, IInv, TypeOK
      <3>2. m \in Frame /\ ~Indication(m)
        BY <3>1 DEF Request, Frame, Indication
      <3>3. fromZnp' = Append(fromZnp, m)
        BY <1>8, <2>3 DEF ZnpAnswer
      <3>4. Precede(p, <<m>>)
        BY <3>2 DEF Precede
      <3> HIDE DEF m
      <3>5. Precede(p, Append(fromZnp, m))
        BY <1>a, <3>2, <3>4, AppendKeeps DEF Past
      <3> QED
        BY <2>1, <3>3, <3>5 DEF Past, Precede, Issued, InTransit
    <2> QED
      BY <2>2, <2>3
  <1>9. CASE ZnpIndication
    <2>1. PICK s \in Sub : fromZnp' = Append(fromZnp, [type |-> "AREQ", sub |-> s, id |-> areqs + 1])
      BY <1>9 DEF ZnpIndication
    <2> DEFINE m == [type |-> "AREQ", sub |-> s, id |-> areqs + 1]
    <2>2. UNCHANGED <<items, rxpc, rxFrame>> /\ areqs' = areqs + 1 /\ m \in Frame
      BY <1>9, BoundsNatural, SMTT(60) DEF ZnpIndication, qvars, rxVars, Frame, Id, IInv, TypeOK
    <2>3. \A i \in DOMAIN p : p[i].id \in Nat
      BY <1>a
    <2>4. Precede(p, <<m>>) /\ Issued(p)'
      BY <1>a, <2>2, <2>3 DEF Past, Precede, Issued
    <2>5. fromZnp' = Append(fromZnp, m)
      BY <2>1
    <2> HIDE DEF m
    <2>6. Precede(p, Append(fromZnp, m))
      BY <1>a, <2>2, <2>4, AppendKeeps DEF Past
    <2> QED
      BY <2>2, <2>4, <2>5, <2>6 DEF Past, Precede, InTransit
  <1>10. CASE LineLoses
    <2>1. /\ UNCHANGED <<items, rxpc, rxFrame, areqs>>
          /\ UNCHANGED fromZnp \/ (fromZnp # <<>> /\ fromZnp' = Tail(fromZnp))
      BY <1>10 DEF LineLoses, qvars, rxVars
    <2>2. Precede(p, fromZnp')
      BY <1>a, <2>1, TailKeeps DEF Past
    <2> QED
      BY <2>1, <2>2 DEF Past, Precede, Issued, InTransit
  <1> QED
    BY <1>1, <1>2, <1>3, <1>4, <1>5, <1>6, <1>7, <1>8, <1>9, <1>10, OnlyMovesMove
       DEF FrameMoves, RxNext, ZnpNext

\* Everything a thread has fetched is past.
FetchedPast == \A f \in Fetched : <<f>> \in Seq(Frame) /\ Past(<<f>>)

\* The head of a sorted queue is past once it is unlinked.
LEMMA HeadPast ==
    ASSUME IInv, OrderInv, NEW t \in App, Take(t), NEW h, h = got'[t], Indication(h)
    PROVE  <<h>> \in Seq(Frame) /\ Past(<<h>>)'
  <1>1. items \in Seq(Frame) /\ items # <<>> /\ items' = Tail(items) /\ h = Head(items)
    BY TokenFindsElement, QueueUsers, QueueElements DEF Take, Unlink, IInv, QInv, TypeOK, QTypeOK
  <1>2. UNCHANGED <<fromZnp, rxpc, rxFrame, areqs>>
    BY DEF Take, rxVars, wireVars, boundVars
  <1>3. /\ DOMAIN items = 1..Len(items) /\ Len(items) \in Nat \ {0} /\ h = items[1]
        /\ DOMAIN Tail(items) = 1..(Len(items) - 1)
        /\ \A i \in DOMAIN Tail(items) : Tail(items)[i] = items[i + 1]
    BY <1>1
  <1>4. Precede(<<h>>, Tail(items))
    BY <1>1, <1>3 DEF OrderInv, Sorted, Precede, Indication
  <1>5. /\ Precede(<<h>>, InTransit) /\ Precede(<<h>>, fromZnp)
        /\ Issued(<<h>>)
    BY <1>1, <1>3 DEF OrderInv, Precede, Issued
  <1>6. <<h>> \in Seq(Frame)
    BY <1>1
  <1> QED
    BY <1>1, <1>2, <1>4, <1>5, <1>6 DEF Past, Precede, Issued, InTransit

\* A step adds to what has been fetched at most the frame it unlinks.
LEMMA FetchedGrows ==
    ASSUME IInv, [Next]_vars
    PROVE  \A f \in Fetched' : f \in Fetched \/ \E t \in App : Take(t) /\ f = got'[t] /\ Indication(f)
  <1>1. CASE FrameMoves /\ ~(\E t \in App : Take(t) \/ Dispatch(t))
    <2>1. UNCHANGED <<dispatched, pc, got>>
      BY <1>1 DEF FrameMoves, RxNext, ZnpNext, RxFrame, RxPost, RxLink, RxSignal, Link, Signal,
                  ZnpAnswer, ZnpIndication, LineLoses, appVars, qvars
    <2> QED
      BY <2>1 DEF Fetched
  <1>2. CASE UNCHANGED frameVars
    <2>1. UNCHANGED <<dispatched, Held>>
      BY <1>2 DEF frameVars
    <2>2. \A t \in App : pc'[t] = "dispatch" => pc[t] = "dispatch" /\ got'[t] = got[t]
      <3> SUFFICES ASSUME NEW t \in App, pc'[t] = "dispatch"
                   PROVE  pc[t] = "dispatch" /\ got'[t] = got[t]
        OBVIOUS
      <3>1. Held'[t] = Held[t]
        BY <2>1
      <3>2. Held'[t] = <<got'[t]>> /\ Held[t] = IF pc[t] = "dispatch" THEN <<got[t]>> ELSE <<>>
        BY DEF Held
      <3>3. <<got'[t]>> # <<>> /\ (<<got'[t]>> = <<got[t]>> => got'[t] = got[t])
        OBVIOUS
      <3> QED
        BY <3>1, <3>2, <3>3
    <2> QED
      BY <2>1, <2>2 DEF Fetched
  <1>3. ASSUME NEW t \in App, Take(t)
        PROVE  \A f \in Fetched' : f \in Fetched \/ (f = got'[t] /\ Indication(f))
    <2>1. /\ dispatched' = dispatched
          /\ \A u \in App : u # t => pc'[u] = pc[u] /\ got'[u] = got[u]
      BY <1>3, QueueUsers DEF Take, Unlink, Goto, IInv, TypeOK, QTypeOK
    <2> QED
      BY <2>1 DEF Fetched, Indication
  <1>4. ASSUME NEW t \in App, Dispatch(t) PROVE \A f \in Fetched' : f \in Fetched
    <2>1. /\ got' = got /\ pc[t] = "dispatch" /\ dispatched \in Seq(Frame) /\ got[t] \in Frame
          /\ \A u \in App : pc'[u] = "dispatch" => pc[u] = "dispatch"
          /\ dispatched' \in {dispatched, Append(dispatched, got[t])}
      BY <1>4 DEF Dispatch, Goto, qvars, IInv, TypeOK, FramesInHand
    <2>2. \A f \in Range(dispatched') : f \in Range(dispatched) \/ f = got[t]
      BY <2>1 DEF Range
    <2> QED
      BY <2>1, <2>2 DEF Fetched
  <1> QED
    BY <1>1, <1>2, <1>3, <1>4, OnlyMovesMove

\* Nothing has been fetched at first.
LEMMA InitFetched == Init => FetchedPast
  BY DEF Init, Fetched, FetchedPast, Range

\* Every step keeps what has been fetched past.
LEMMA FetchedKept == IInv /\ OrderInv /\ FetchedPast /\ [Next]_vars => FetchedPast'
  <1> SUFFICES ASSUME IInv, OrderInv, FetchedPast, [Next]_vars, NEW f \in Fetched'
               PROVE  <<f>> \in Seq(Frame) /\ Past(<<f>>)'
    BY DEF FetchedPast
  <1>1. CASE f \in Fetched
    <2>1. <<f>> \in Seq(Frame) /\ Past(<<f>>)
      BY <1>1 DEF FetchedPast
    <2> QED
      BY <2>1, PastKept
  <1>2. ASSUME NEW t \in App, Take(t), f = got'[t], Indication(f)
        PROVE  <<f>> \in Seq(Frame) /\ Past(<<f>>)'
    BY <1>2, HeadPast
  <1> QED
    BY <1>1, <1>2, FetchedGrows

\* No indication that is still waiting was sent before one that has been fetched.
THEOREM RpcFetchedInOrder == Spec => []FetchedInOrder
  <1>1. IInv /\ FetchedPast => FetchedInOrder
    <2> SUFFICES ASSUME IInv, FetchedPast, NEW f \in Fetched, NEW g \in Waiting PROVE f.id < g.id
      BY DEF FetchedInOrder
    <2>1. Past(<<f>>) /\ Indication(f) /\ Indication(g)
      BY DEF FetchedPast, Fetched, Waiting, Indication
    <2>2. g \in Range(fromZnp) \/ g \in Range(items) \/ (rxpc = "link" /\ g = rxFrame)
      BY DEF Waiting
    <2>3. <<f>>[1] = f /\ 1 \in DOMAIN <<f>>
      OBVIOUS
    <2>4. CASE g \in Range(fromZnp)
      BY <2>1, <2>3, <2>4 DEF Past, Precede, Range
    <2>5. CASE g \in Range(items)
      BY <2>1, <2>3, <2>5 DEF Past, Precede, Range
    <2>6. CASE rxpc = "link" /\ g = rxFrame
      BY <2>1, <2>3, <2>6 DEF Past, Precede, InTransit
    <2> QED
      BY <2>2, <2>4, <2>5, <2>6
  <1> QED
    BY <1>1, InitOrder, OrderKept, InitFetched, FetchedKept, RpcInvariant, PTL DEF Spec

-----------------------------------------------------------------------------
(* Each indication is in one place.                                        *)

Indications == {f \in Frame : Indication(f)}

Hand(f) == IF f \in InHand THEN 1 ELSE 0

\* In how many places a frame is.
Places(f) == Occurrences(fromZnp, f) + Occurrences(items, f) + Occurrences(dispatched, f) + Hand(f)

\* InHand is a set: no two threads hold the same indication.
HandsDistinct ==
    /\ \A t, u \in App :
          pc[t] = "dispatch" /\ pc[u] = "dispatch" /\ got[t] = got[u] /\ got[t] \in Indications
             => t = u
    /\ rxpc = "link" /\ rxFrame \in Indications =>
          \A t \in App : pc[t] = "dispatch" => got[t] # rxFrame

(***************************************************************************)
(* EachAreqInOnePlace speaks of the indications sent while no frame is     *)
(* lost; that a frame is not handed out twice needs the bound for every    *)
(* indication, and the next one needs its identifier to be unused.         *)
(***************************************************************************)
OnePlaceInv ==
    /\ HandsDistinct
    /\ \A f \in Indications : Places(f) \in {0, 1} /\ (f.id > areqs => Places(f) = 0)
    /\ losses = 0 =>
          \A i \in 1..areqs : \E s \in Sub : Places([type |-> "AREQ", sub |-> s, id |-> i]) = 1

\* The sequences frames are in, and the numbers of their occurrences.
LEMMA PlacesTyped ==
    ASSUME IInv
    PROVE  /\ items \in Seq(Frame) /\ fromZnp \in Seq(Frame) /\ dispatched \in Seq(Frame)
           /\ \A f : /\ Occurrences(items, f) \in Nat /\ Occurrences(fromZnp, f) \in Nat
                    /\ Occurrences(dispatched, f) \in Nat /\ Hand(f) \in {0, 1}
  <1>1. items \in Seq(Frame) /\ fromZnp \in Seq(Frame) /\ dispatched \in Seq(Frame)
    BY QueueElements DEF IInv, TypeOK, QTypeOK
  <1> QED
    BY <1>1, OccurrencesNat DEF Hand

\* A step that loses and sends nothing keeps the invariant if it keeps every count.
LEMMA SamePlaces ==
    ASSUME IInv, OnePlaceInv, UNCHANGED <<areqs, losses>>, HandsDistinct',
           \A f \in Indications : Places(f)' = Places(f)
    PROVE  OnePlaceInv'
  <1>1. ASSUME NEW i \in 1..areqs, NEW s \in Sub
        PROVE  [type |-> "AREQ", sub |-> s, id |-> i] \in Indications
    BY BoundsNatural DEF IInv, TypeOK, Indications, Indication, Frame, Id
  <1> QED
    BY <1>1 DEF OnePlaceInv

\* The same of a sequence that has lost its first element.
LEMMA TailTyped ==
    ASSUME NEW q \in Seq(Frame), q # <<>>
    PROVE  /\ Head(q) \in Frame /\ Tail(q) \in Seq(Frame)
           /\ Occurrences(q, Head(q)) > 0
           /\ \A f : Occurrences(Tail(q), f) \in Nat
  <1>1. Tail(q) \in Seq(Frame) /\ 1 \in DOMAIN q /\ q[1] = Head(q) /\ Head(q) \in Frame
    OBVIOUS
  <1>2. Occurrences(q, Head(q)) > 0
    BY <1>1, OccurrencesNat
  <1>3. \A f : Occurrences(Tail(q), f) \in Nat
    BY <1>1, OccurrencesNat
  <1> QED
    BY <1>1, <1>2, <1>3

\* No indication has been sent at first.
LEMMA InitOnePlace == Init => OnePlaceInv
  <1> SUFFICES ASSUME Init PROVE OnePlaceInv
    OBVIOUS
  <1>1. \A f : Occurrences(<<>>, f) = 0
    <2>1. \A f : {i \in DOMAIN <<>> : <<>>[i] = f} = {}
      OBVIOUS
    <2> QED
      BY <2>1, FS_EmptySet DEF Occurrences
  <1>2. \A f \in Indications : Places(f) = 0
    BY <1>1 DEF Init, QInit, Places, Hand, InHand
  <1>3. HandsDistinct
    BY DEF Init, HandsDistinct
  <1>4. 1..areqs = {}
    BY DEF Init
  <1> QED
    BY <1>2, <1>3, <1>4 DEF OnePlaceInv

\* Every step moves, adds or drops one frame at a time.
LEMMA OnePlaceKept == IInv /\ OrderInv /\ OnePlaceInv /\ [Next]_vars => OnePlaceInv'
  <1> SUFFICES ASSUME IInv, OrderInv, OnePlaceInv, [Next]_vars PROVE OnePlaceInv'
    OBVIOUS
  <1>a. /\ items \in Seq(Frame) /\ fromZnp \in Seq(Frame) /\ dispatched \in Seq(Frame)
        /\ \A f : /\ Occurrences(items, f) \in Nat /\ Occurrences(fromZnp, f) \in Nat
                 /\ Occurrences(dispatched, f) \in Nat /\ Hand(f) \in {0, 1}
    BY PlacesTyped
  <1>b. /\ pc \in [App -> AppPlaces] /\ got \in [Thread -> Frame \cup {Nothing, Empty}]
        /\ \A t \in App : t \in Thread
        /\ \A f \in Indications : f \in Frame /\ f.type = "AREQ" /\ f.type # "SRSP"
    BY QueueUsers, QueueElements DEF IInv, TypeOK, QTypeOK, Indications, Indication
  <1>c. \A f : Places(f)' = Occurrences(fromZnp', f) + Occurrences(items', f)
                              + Occurrences(dispatched', f) + Hand(f)'
    BY DEF Places, Occurrences
  <1>d. \A f : /\ Occurrences(items, f) \in Nat /\ Occurrences(fromZnp, f) \in Nat
               /\ Occurrences(dispatched, f) \in Nat /\ Hand(f) \in Nat /\ Hand(f)' \in Nat
    BY <1>a DEF Hand
  <1>1. CASE UNCHANGED frameVars
    <2>1. ASSUME NEW t \in App
          PROVE  /\ pc'[t] = "dispatch" <=> pc[t] = "dispatch"
                 /\ pc[t] = "dispatch" => got'[t] = got[t]
      <3>1. Held'[t] = Held[t]
        BY <1>1 DEF frameVars
      <3> QED
        BY <3>1 DEF Held
    <2>2. UNCHANGED <<items, fromZnp, rxpc, rxFrame, areqs, losses, dispatched>>
      BY <1>1 DEF frameVars
    <2>3. InHand' = InHand /\ HandsDistinct'
      BY <2>1, <2>2 DEF InHand, HandsDistinct, OnePlaceInv
    <2> QED
      BY <2>2, <2>3, SamePlaces DEF Places, Hand
  <1>2. ASSUME NEW t \in App, Take(t) PROVE OnePlaceInv'
    <2> DEFINE h == Head(items)
    <2>1. /\ items # <<>> /\ items' = Tail(items) /\ h \in Frame
          /\ got' = [got EXCEPT ![t] = h] /\ pc[t] = "take" /\ pc' = [pc EXCEPT ![t] = "dispatch"]
      <3>1. items # <<>>
        BY <1>2, TokenFindsElement, QueueUsers DEF Take, Unlink, IInv, QInv
      <3>2. h \in Frame
        BY <1>a, <3>1, TailTyped
      <3> QED
        BY <1>2, <3>1, <3>2 DEF Take, Goto, Unlink
    <2>2. UNCHANGED <<fromZnp, rxpc, rxFrame, areqs, losses, dispatched>>
      BY <1>2 DEF Take, rxVars, wireVars, boundVars
    <2>3. InHand' = InHand \cup {h}
      BY <1>b, <2>1, <2>2 DEF InHand
    <2>4. h \in Indications => h \notin InHand
      <3>1. Occurrences(items, h) > 0
        BY <1>a, <2>1, TailTyped
      <3> QED
        BY <1>a, <3>1 DEF OnePlaceInv, Places, Hand
    <2>5. HandsDistinct'
      BY <1>b, <2>1, <2>2, <2>4 DEF HandsDistinct, OnePlaceInv, InHand
    <2>6. \A f : Occurrences(items, f) = Occurrences(items', f) + (IF h = f THEN 1 ELSE 0)
      BY <1>a, <2>1, OccurrencesTail
    <2>7. \A f \in Indications : Hand(f)' = Hand(f) + (IF h = f THEN 1 ELSE 0)
      BY <2>3, <2>4 DEF Hand
    <2>8. \A f : Occurrences(items', f) \in Nat
      BY <1>a, <2>1, TailTyped
    <2>9. ASSUME NEW f \in Indications PROVE Places(f)' = Places(f)
      BY <1>c, <1>d, <2>2, <2>6, <2>7, <2>8 DEF Places
    <2> QED
      BY <2>2, <2>5, <2>9, SamePlaces
  <1>3. ASSUME NEW t \in App, Dispatch(t) PROVE OnePlaceInv'
    <2> DEFINE d == got[t]
    <2>1. /\ pc[t] = "dispatch" /\ pc' = [pc EXCEPT ![t] = "callback"] /\ d \in Frame
          /\ UNCHANGED <<items, fromZnp, got, rxpc, rxFrame, areqs, losses>>
          /\ dispatched' = IF d.type = "SRSP" THEN dispatched ELSE Append(dispatched, d)
      BY <1>3 DEF Dispatch, Goto, qvars, rxVars, wireVars, boundVars, IInv, FramesInHand
    <2>2. HandsDistinct'
      BY <1>b, <2>1 DEF HandsDistinct, OnePlaceInv
    <2>3. \A f \in Indications : f \in InHand' <=> f \in InHand /\ f # d
      BY <1>b, <2>1 DEF InHand, HandsDistinct, OnePlaceInv
    <2>4. d \in InHand
      BY <2>1 DEF InHand
    <2>5. \A f \in Indications : Hand(f) = Hand(f)' + (IF d = f THEN 1 ELSE 0)
      BY <2>3, <2>4 DEF Hand
    <2>6. \A f \in Indications :
             Occurrences(dispatched', f) = Occurrences(dispatched, f) + (IF d = f THEN 1 ELSE 0)
      BY <1>a, <1>b, <2>1, OccurrencesAppend
    <2>7. \A f : Hand(f)' \in {0, 1}
      BY DEF Hand
    <2>8. ASSUME NEW f \in Indications PROVE Places(f)' = Places(f)
      <3>1. Places(f)' = Occurrences(fromZnp, f) + Occurrences(items, f)
                          + Occurrences(dispatched', f) + Hand(f)'
        BY <1>c, <2>1
      <3>2. /\ Occurrences(items, f) \in Nat /\ Occurrences(fromZnp, f) \in Nat
            /\ Occurrences(dispatched, f) \in Nat /\ Hand(f)' \in Nat
        BY <1>d
      <3>3. /\ Hand(f) = Hand(f)' + (IF d = f THEN 1 ELSE 0)
            /\ Occurrences(dispatched', f) = Occurrences(dispatched, f) + (IF d = f THEN 1 ELSE 0)
        BY <2>5, <2>6
      <3> QED
        BY <3>1, <3>2, <3>3 DEF Places
    <2> QED
      BY <2>1, <2>2, <2>8, SamePlaces
  <1>4. CASE RxFrame
    <2> DEFINE h == Head(fromZnp)
    <2>1. /\ fromZnp # <<>> /\ fromZnp' = Tail(fromZnp) /\ h \in Frame /\ rxpc = "read"
          /\ UNCHANGED <<items, got, pc, areqs, losses, dispatched>>
          /\ h.type = "AREQ" => rxpc' = "link" /\ rxFrame' = h
          /\ h.type # "AREQ" => rxpc' # "link"
      BY <1>4, <1>a DEF RxFrame, Discarded, qvars, appVars, boundVars
    <2>2. h \in Indications => h \notin InHand
      <3>1. Occurrences(fromZnp, h) > 0
        BY <1>a, <2>1, TailTyped
      <3> QED
        BY <1>a, <3>1, SMTT(60) DEF OnePlaceInv, Places, Hand
    <2>3. \A f \in Indications : f \in InHand' <=> f \in InHand \/ f = h
      BY <1>b, <2>1 DEF InHand
    <2>4. HandsDistinct'
      BY <1>b, <2>1, <2>2 DEF HandsDistinct, OnePlaceInv, InHand
    <2>5. \A f : Occurrences(fromZnp, f) = Occurrences(fromZnp', f) + (IF h = f THEN 1 ELSE 0)
      BY <1>a, <2>1, OccurrencesTail
    <2>6. \A f \in Indications : Hand(f)' = Hand(f) + (IF h = f THEN 1 ELSE 0)
      BY <2>2, <2>3 DEF Hand
    <2>7. \A f : Occurrences(fromZnp', f) \in Nat
      BY <1>a, <2>1, TailTyped
    <2>8. UNCHANGED <<items, dispatched>>
      BY <2>1
    <2>9. ASSUME NEW f \in Indications PROVE Places(f)' = Places(f)
      BY <1>c, <1>d, <2>5, <2>6, <2>7, <2>8 DEF Places
    <2> QED
      BY <2>1, <2>4, <2>9, SamePlaces
  <1>5. CASE RxPost
    <2>1. /\ UNCHANGED <<items, fromZnp, got, pc, rxFrame, areqs, losses, dispatched>>
          /\ rxpc = "post" /\ rxFrame \notin Indications
      BY <1>5 DEF RxPost, qvars, appVars, wireVars, boundVars, OrderInv, Indications
    <2>2. HandsDistinct' /\ \A f \in Indications : f \in InHand' <=> f \in InHand
      BY <2>1 DEF HandsDistinct, OnePlaceInv, InHand
    <2> QED
      BY <2>1, <2>2, SamePlaces DEF Places, Hand
  <1>6. CASE RxLink
    <2>1. /\ rxpc = "link" /\ rxpc' = "signal" /\ rxFrame \in Frame
          /\ UNCHANGED <<fromZnp, got, pc, rxFrame, areqs, losses, dispatched>>
          /\ items' \in {<<rxFrame>> \o items, Append(items, rxFrame)}
      BY <1>6 DEF RxLink, Link, appVars, wireVars, boundVars, IInv, FramesInHand
    <2>2. HandsDistinct'
      BY <2>1 DEF HandsDistinct, OnePlaceInv
    <2>3. \A f \in Indications : f \in InHand' <=> f \in InHand /\ f # rxFrame
      BY <1>b, <2>1 DEF InHand, HandsDistinct, OnePlaceInv
    <2>4. rxFrame \in InHand
      BY <2>1 DEF InHand
    <2>5. \A f \in Indications : Hand(f) = Hand(f)' + (IF rxFrame = f THEN 1 ELSE 0)
      BY <2>3, <2>4 DEF Hand
    <2>6. \A f : Occurrences(items', f) = Occurrences(items, f) + (IF rxFrame = f THEN 1 ELSE 0)
      <3>1. CASE items' = <<rxFrame>> \o items
        BY <1>a, <2>1, <3>1, OccurrencesCons
      <3>2. CASE items' = Append(items, rxFrame)
        BY <1>a, <2>1, <3>2, OccurrencesAppend
      <3> QED
        BY <2>1, <3>1, <3>2
    <2>7. \A f : Hand(f)' \in {0, 1}
      BY DEF Hand
    <2>8. ASSUME NEW f \in Indications PROVE Places(f)' = Places(f)
      BY <1>c, <1>d, <2>1, <2>5, <2>6, <2>7 DEF Places
    <2> QED
      BY <2>1, <2>2, <2>8, SamePlaces
  <1>7. CASE RxSignal
    <2>1. /\ UNCHANGED <<items, fromZnp, got, pc, areqs, losses, dispatched>>
          /\ rxpc = "signal" /\ rxpc' = "read"
      BY <1>7 DEF RxSignal, Signal, appVars, wireVars, boundVars
    <2>2. HandsDistinct' /\ InHand' = InHand
      BY <2>1 DEF HandsDistinct, OnePlaceInv, InHand
    <2> QED
      BY <2>1, <2>2, SamePlaces DEF Places, Hand
  <1>8. CASE ZnpAnswer
    <2>1. /\ UNCHANGED <<items, got, pc, rxpc, rxFrame, areqs, losses, dispatched>>
          /\ \/ UNCHANGED fromZnp
             \/ \E m \in Frame : m \notin Indications /\ fromZnp' = Append(fromZnp, m)
      <3>1. Head(toZnp) \in Request
        BY <1>8 DEF ZnpAnswer, IInv, TypeOK
      <3>2. [Head(toZnp) EXCEPT !.type = "SRSP"] \in Frame
            /\ [Head(toZnp) EXCEPT !.type = "SRSP"] \notin Indications
        BY <3>1 DEF Request, Frame, Indications, Indication
      <3> QED
        BY <1>8, <3>2 DEF ZnpAnswer, qvars, appVars, rxVars, boundVars
    <2>2. HandsDistinct' /\ InHand' = InHand
      BY <2>1 DEF HandsDistinct, OnePlaceInv, InHand
    <2>3. \A f \in Indications : Occurrences(fromZnp', f) = Occurrences(fromZnp, f)
      <3>1. CASE UNCHANGED fromZnp
        BY <3>1
      <3>2. ASSUME NEW m \in Frame, m \notin Indications, fromZnp' = Append(fromZnp, m),
                   NEW f \in Indications
            PROVE  Occurrences(fromZnp', f) = Occurrences(fromZnp, f)
        <4>1. Occurrences(fromZnp', f) = Occurrences(fromZnp, f) + (IF m = f THEN 1 ELSE 0)
          BY <1>a, <3>2, OccurrencesAppend
        <4> QED
          BY <1>d, <3>2, <4>1
      <3> QED
        BY <2>1, <3>1, <3>2
    <2> QED
      BY <2>1, <2>2, <2>3, SamePlaces DEF Places, Hand
  <1>9. CASE ZnpIndication
    <2>1. PICK s \in Sub : fromZnp' = Append(fromZnp, [type |-> "AREQ", sub |-> s, id |-> areqs + 1])
      BY <1>9 DEF ZnpIndication
    <2> DEFINE m == [type |-> "AREQ", sub |-> s, id |-> areqs + 1]
    <2>2. /\ UNCHANGED <<items, got, pc, rxpc, rxFrame, losses, dispatched>>
          /\ areqs' = areqs + 1 /\ areqs \in Nat /\ areqs' \in 0..MaxAreq /\ m \in Indications
      BY <1>9, BoundsNatural, SMTT(60)
         DEF ZnpIndication, qvars, appVars, rxVars, Indications, Indication, Frame, Id, IInv, TypeOK
    <2>3. HandsDistinct' /\ InHand' = InHand
      BY <2>2 DEF HandsDistinct, OnePlaceInv, InHand
    <2>4. \A f : Occurrences(fromZnp', f) = Occurrences(fromZnp, f) + (IF m = f THEN 1 ELSE 0)
      BY <1>a, <1>b, <2>1, <2>2, OccurrencesAppend
    <2>5. \A f : Places(f)' = Places(f) + (IF m = f THEN 1 ELSE 0)
      <3>1. \A f : Hand(f)' = Hand(f)
        BY <2>3 DEF Hand
      <3> QED
        BY <1>c, <1>d, <2>2, <2>4, <3>1 DEF Places
    <2>6. Places(m) = 0 /\ m.id = areqs + 1
      BY <2>2 DEF OnePlaceInv
    <2>7. \A f \in Indications : f.id \in Nat
      BY BoundsNatural DEF Indications, Frame, Id
    <2>8. \A f \in Indications : Places(f)' \in {0, 1} /\ (f.id > areqs' => Places(f)' = 0)
      <3> TAKE f \in Indications
      <3>1. CASE f = m
        BY <2>2, <2>5, <2>6, <3>1
      <3>2. CASE f # m
        BY <2>2, <2>5, <2>7, <3>2 DEF OnePlaceInv
      <3> QED
        BY <3>1, <3>2
    <2>9. ASSUME losses' = 0, NEW i \in 1..areqs'
          PROVE  \E r \in Sub : Places([type |-> "AREQ", sub |-> r, id |-> i])' = 1
      <3>1. CASE i = areqs + 1
        BY <2>5, <2>6, <3>1
      <3>2. CASE i # areqs + 1
        <4>1. i \in 1..areqs
          BY <2>2, <3>2
        <4>2. PICK r \in Sub : Places([type |-> "AREQ", sub |-> r, id |-> i]) = 1
          BY <2>2, <2>9, <4>1 DEF OnePlaceInv
        <4>3. [type |-> "AREQ", sub |-> r, id |-> i] # m
          BY <4>2, <2>6
        <4> QED
          BY <2>5, <4>2, <4>3
      <3> QED
        BY <3>1, <3>2
    <2> QED
      BY <2>3, <2>8, <2>9 DEF OnePlaceInv
  <1>10. CASE LineLoses
    <2>1. /\ UNCHANGED <<items, got, pc, rxpc, rxFrame, areqs, dispatched>>
          /\ losses' = losses + 1 /\ losses \in Nat
          /\ UNCHANGED fromZnp \/ (fromZnp # <<>> /\ fromZnp' = Tail(fromZnp))
      BY <1>10, BoundsNatural DEF LineLoses, qvars, appVars, rxVars, IInv, TypeOK
    <2>2. HandsDistinct' /\ InHand' = InHand
      BY <2>1 DEF HandsDistinct, OnePlaceInv, InHand
    <2>3. \A f : Occurrences(fromZnp', f) \in 0..Occurrences(fromZnp, f)
      <3>1. CASE UNCHANGED fromZnp
        BY <1>a, <3>1
      <3>2. CASE fromZnp # <<>> /\ fromZnp' = Tail(fromZnp)
        <4>1. \A f : Occurrences(fromZnp', f) \in Nat
          BY <1>a, <3>2, TailTyped
        <4>2. \A f : Occurrences(fromZnp, f) = Occurrences(fromZnp', f)
                                                 + (IF Head(fromZnp) = f THEN 1 ELSE 0)
          BY <1>a, <3>2, OccurrencesTail
        <4> QED
          BY <4>1, <4>2
      <3> QED
        BY <2>1, <3>1, <3>2
    <2>4. \A f : Places(f)' \in 0..Places(f)
      <3>1. \A f : Hand(f)' = Hand(f)
        BY <2>2 DEF Hand
      <3> QED
        BY <1>c, <1>d, <2>1, <2>3, <3>1, SMTT(60) DEF Places
    <2>5. \A f \in Indications : Places(f)' \in {0, 1} /\ (f.id > areqs' => Places(f)' = 0)
      BY <2>1, <2>4 DEF OnePlaceInv
    <2> QED
      BY <2>1, <2>2, <2>5 DEF OnePlaceInv
  <1> QED
    BY <1>1, <1>2, <1>3, <1>4, <1>5, <1>6, <1>7, <1>8, <1>9, <1>10, OnlyMovesMove
       DEF FrameMoves, RxNext, ZnpNext

\* An indication the line does not lose is in exactly one place between the ZNP and the
\* callback it is handed to, and is handed over at most once.
THEOREM RpcEachAreqInOnePlace == Spec => []EachAreqInOnePlace
  <1>1. OnePlaceInv => EachAreqInOnePlace
    BY DEF OnePlaceInv, EachAreqInOnePlace, Places, Hand
  <1> QED
    BY <1>1, InitOrder, OrderKept, InitOnePlace, OnePlaceKept, RpcInvariant, PTL DEF Spec

-----------------------------------------------------------------------------
(* The answer to the one synchronous request in progress.                  *)

\* No wait has timed out and no frame has been lost so far.
Prompt == timeouts = 0 /\ losses = 0

\* A thread is blocked in the wait of the request with this frame's identifier.
Awaited(f) ==
    \E t \in App : pc[t] = "wait" /\ Synchronous(t) /\ req[t].id = f.id /\ req[t].sub = f.sub

Asked == {i \in DOMAIN toZnp : toZnp[i].type = "SREQ"}
Coming == {i \in DOMAIN fromZnp : fromZnp[i].type = "SRSP"}

(***************************************************************************)
(* Between the write of a synchronous request and the end of its wait the  *)
(* request is on its way to the ZNP, or its answer is on its way back, or  *)
(* rpcProcess is about to post for it, or srspSem is up for it: one of the *)
(* four, and none of them without somebody who waits for it.               *)
(***************************************************************************)
AnswerOnItsWay ==
    /\ \A i \in Asked : Awaited(toZnp[i]) /\ Coming = {} /\ rxpc # "post" /\ srspSem = 0
    /\ \A i \in Coming : Awaited(fromZnp[i]) /\ rxpc # "post" /\ srspSem = 0
    /\ \A i, j \in Asked : i = j
    /\ \A i, j \in Coming : i = j
    /\ rxpc = "post" => Awaited(rxFrame) /\ srspSem = 0
    /\ srspSem > 0 => srspSem = 1 /\ posted # Nothing /\ Awaited(posted)

AnswerInv == Prompt => AnswerOnItsWay /\ SuccessIsOwn

answerVars == <<toZnp, fromZnp, rxpc, rxFrame, srspSem, posted, timeouts, losses>>

\* A step that touches neither the line nor the semaphore, ends no wait and grants
\* nothing keeps the invariant.
LEMMA QuietAnswer ==
    ASSUME IInv, AnswerInv, UNCHANGED answerVars,
           \A t \in App : pc[t] = "wait" => pc'[t] = "wait" /\ req'[t] = req[t],
           \A t \in App : pc'[t] = "clear" /\ status'[t] = "success" =>
                            pc[t] = "clear" /\ status[t] = "success" /\ req'[t] = req[t]
    PROVE  AnswerInv'
  <1>1. \A f : Awaited(f) => Awaited(f)'
    BY DEF Awaited, Synchronous
  <1>2. ASSUME Prompt PROVE AnswerOnItsWay'
    <2>1. AnswerOnItsWay
      BY <1>2 DEF AnswerInv
    <2> QED
      BY <1>1, <2>1 DEF AnswerOnItsWay, answerVars, Asked, Coming
  <1>3. ASSUME Prompt PROVE SuccessIsOwn'
    BY <1>3 DEF AnswerInv, SuccessIsOwn, Answered, answerVars
  <1> QED
    BY <1>2, <1>3 DEF AnswerInv, Prompt, answerVars

\* Where a thread is inside rpcSendFrame but not in its wait, nothing is on its way.
LEMMA NobodyWaits ==
    ASSUME IInv, AnswerOnItsWay, NEW t \in App, pc[t] \in SendPlaces \ {"wait"}
    PROVE  Asked = {} /\ Coming = {} /\ rxpc # "post" /\ srspSem = 0
  <1>1. \A u \in App : pc[u] = "wait" => u = t
    BY SenderUnique DEF IInv, Senders, SendPlaces
  <1>2. \A f : ~Awaited(f)
    BY <1>1 DEF Awaited
  <1>3. srspSem \in Nat
    BY DEF IInv, TypeOK
  <1> QED
    BY <1>2, <1>3 DEF AnswerOnItsWay

\* Nobody waits for an answer at first.
LEMMA InitAnswer == Init => AnswerInv
  BY DEF Init, AnswerInv, AnswerOnItsWay, SuccessIsOwn, Asked, Coming

\* While no wait has timed out and no frame was lost, every step keeps the answer on its way.
LEMMA AnswerKept == IInv /\ AnswerInv /\ [Next]_vars => AnswerInv'
  <1> SUFFICES ASSUME IInv, AnswerInv, [Next]_vars PROVE AnswerInv'
    OBVIOUS
  <1>a. /\ pc \in [App -> AppPlaces] /\ req \in [App -> Request \cup {NoReq}]
        /\ status \in [App -> Statuses] /\ srspSem \in Nat /\ timeouts \in Nat /\ losses \in Nat
        /\ toZnp \in Seq(Request) /\ fromZnp \in Seq(Frame)
    BY BoundsNatural DEF IInv, TypeOK
  <1>1. ASSUME NEW t \in App, Call(t) \/ NestedCall(t) PROVE AnswerInv'
    <2>1. PICK r : req' = [req EXCEPT ![t] = r]
      BY <1>1 DEF Call, NestedCall, NewRequest
    <2>2. UNCHANGED answerVars
      BY <1>1 DEF Call, NestedCall, NewRequest, answerVars, semVars, rxVars, wireVars
    <2>3. pc[t] \in {"idle", "callback"} /\ pc' = [pc EXCEPT ![t] = "acquire"]
      BY <1>1 DEF Call, NestedCall, Goto
    <2>4. \A u \in App : u # t => req'[u] = req[u] /\ status'[u] = status[u]
      BY <1>1, <1>a, <2>1 DEF Call, NestedCall, NewRequest
    <2> QED
      BY <1>a, <2>2, <2>3, <2>4, QuietAnswer
  <1>2. ASSUME NEW t \in App, Acquire(t) \/ SetExpected(t) \/ ClearExpected(t) \/ Release(t)
        PROVE  AnswerInv'
    <2>1. UNCHANGED <<answerVars, req, status>>
      BY <1>2 DEF Acquire, SetExpected, ClearExpected, Release, answerVars, rxVars, wireVars,
                  boundVars
    <2>2. pc[t] # "wait" /\ \E to \in {"expect", "write", "release", "fetch", "return"} :
                                pc' = [pc EXCEPT ![t] = to]
      BY <1>2 DEF Acquire, SetExpected, ClearExpected, Release, Goto
    <2> QED
      BY <1>a, <2>1, <2>2, QuietAnswer
  <1>3. ASSUME NEW t \in App, Poll(t) \/ Get(t) \/ Fetch(t) \/ FetchTimeout(t) \/ Take(t)
                              \/ Dispatch(t) \/ CallbackReturns(t)
        PROVE  AnswerInv'
    <2>1. UNCHANGED <<answerVars, req, status>>
      BY <1>3 DEF Poll, Get, Fetch, FetchTimeout, Take, Dispatch, CallbackReturns, answerVars,
                  semVars, rxVars, wireVars, boundVars
    <2>2. pc[t] \in {"idle", "fetch", "get", "take", "dispatch", "callback"}
          /\ \E to \in {"fetch", "get", "take", "return", "dispatch", "callback"} :
                pc' = [pc EXCEPT ![t] = to]
      BY <1>3 DEF Poll, Get, Fetch, FetchTimeout, Take, Dispatch, CallbackReturns, Goto
    <2> QED
      BY <1>a, <2>1, <2>2, QuietAnswer
  <1>4. ASSUME NEW t \in App, ReturnToApp(t) \/ ReturnToCallback(t) PROVE AnswerInv'
    <2>1. UNCHANGED answerVars
      BY <1>4 DEF ReturnToApp, ReturnToCallback, answerVars, semVars, rxVars, wireVars, boundVars
    <2>2. /\ pc[t] = "return" /\ \E to \in {"idle", "callback"} : pc' = [pc EXCEPT ![t] = to]
          /\ \A u \in App : u # t => req'[u] = req[u] /\ status'[u] = status[u]
      BY <1>4, <1>a DEF ReturnToApp, ReturnToCallback, Goto
    <2> QED
      BY <1>a, <2>1, <2>2, QuietAnswer
  <1>5. ASSUME NEW t \in App, Write(t) PROVE AnswerInv'
    <2> SUFFICES ASSUME Prompt PROVE AnswerOnItsWay' /\ SuccessIsOwn'
      BY <1>5 DEF Write, AnswerInv, Prompt, boundVars
    <2>1. /\ pc[t] = "write" /\ toZnp' = Append(toZnp, req[t])
          /\ pc' = [pc EXCEPT ![t] = IF Synchronous(t) THEN "wait" ELSE "release"]
          /\ UNCHANGED <<req, fromZnp, rxpc, rxFrame, srspSem, posted>>
          /\ \A u \in App : u # t => status'[u] = status[u]
      BY <1>5, <1>a DEF Write, Goto, semVars, rxVars
    <2>2. Asked = {} /\ Coming = {} /\ rxpc # "post" /\ srspSem = 0
      BY <2>1, NobodyWaits DEF SendPlaces, AnswerInv
    <2>3. req[t] \in Request
      BY <2>1 DEF IInv, SendersHaveRequests, SendPlaces
    <2>4. /\ DOMAIN toZnp' = 1..(Len(toZnp) + 1) /\ DOMAIN toZnp = 1..Len(toZnp) /\ Len(toZnp) \in Nat
          /\ toZnp'[Len(toZnp) + 1] = req[t]
          /\ \A i \in DOMAIN toZnp : toZnp'[i] = toZnp[i]
      BY <1>a, <2>1, <2>3
    <2>5. Asked' = IF Synchronous(t) THEN {Len(toZnp) + 1} ELSE {}
      BY <2>2, <2>4 DEF Asked, Synchronous
    <2>6. ASSUME NEW i \in Asked' PROVE Awaited(toZnp[i])'
      <3>1. Synchronous(t) /\ toZnp'[i] = req[t]
        BY <2>4, <2>5
      <3> QED
        BY <1>a, <2>1, <3>1 DEF Awaited, Synchronous
    <2>7. AnswerOnItsWay'
      BY <2>1, <2>2, <2>5, <2>6 DEF AnswerOnItsWay, Coming
    <2>8. SuccessIsOwn'
      BY <1>a, <2>1 DEF AnswerInv, SuccessIsOwn, Answered
    <2> QED
      BY <2>7, <2>8
  <1>6. ASSUME NEW t \in App, SrspGranted(t) PROVE AnswerInv'
    <2> SUFFICES ASSUME Prompt PROVE AnswerOnItsWay' /\ SuccessIsOwn'
      BY <1>6 DEF SrspGranted, AnswerInv, Prompt, boundVars
    <2>1. /\ pc[t] = "wait" /\ pc' = [pc EXCEPT ![t] = "clear"]
          /\ srspSem > 0 /\ srspSem' = srspSem - 1
          /\ UNCHANGED <<req, toZnp, fromZnp, rxpc, rxFrame, posted>>
          /\ \A u \in App : u # t => status'[u] = status[u]
      BY <1>6, <1>a DEF SrspGranted, Goto, rxVars, wireVars
    <2>2. Asked = {} /\ Coming = {} /\ rxpc # "post" /\ srspSem = 1
          /\ posted # Nothing /\ Awaited(posted)
      BY <2>1 DEF AnswerInv, AnswerOnItsWay
    <2>3. \A u \in App : pc[u] = "wait" => u = t
      BY <2>1, SenderUnique DEF IInv, Senders, SendPlaces
    <2>4. posted.id = req[t].id
      BY <2>2, <2>3 DEF Awaited
    <2>5. AnswerOnItsWay'
      BY <2>1, <2>2 DEF AnswerOnItsWay, Asked, Coming
    <2>6. SuccessIsOwn'
      BY <1>a, <2>1, <2>2, <2>4 DEF AnswerInv, SuccessIsOwn, Answered
    <2> QED
      BY <2>5, <2>6
  <1>7. ASSUME NEW t \in App, SrspTimeout(t) PROVE AnswerInv'
    BY <1>7, <1>a DEF SrspTimeout, AnswerInv, Prompt
  <1>8. CASE RxFrame
    <2> SUFFICES ASSUME Prompt PROVE AnswerOnItsWay' /\ SuccessIsOwn'
      BY <1>8 DEF RxFrame, AnswerInv, Prompt, boundVars
    <2> DEFINE h == Head(fromZnp)
    <2>1. /\ rxpc = "read" /\ fromZnp # <<>> /\ fromZnp' = Tail(fromZnp)
          /\ UNCHANGED <<pc, req, status, expected, srspSem, toZnp, posted>>
          /\ h.type = "SRSP" /\ expected = h.sub => rxpc' = "post" /\ rxFrame' = h
          /\ h.type = "AREQ" => rxpc' = "link"
      BY <1>8 DEF RxFrame, semVars, appVars
    <2>2. AnswerOnItsWay /\ SuccessIsOwn
      BY DEF AnswerInv
    <2>3. /\ DOMAIN fromZnp = 1..Len(fromZnp) /\ Len(fromZnp) \in Nat \ {0} /\ h = fromZnp[1]
          /\ DOMAIN fromZnp' = 1..(Len(fromZnp) - 1)
          /\ \A i \in DOMAIN fromZnp' : fromZnp'[i] = fromZnp[i + 1] /\ i + 1 \in DOMAIN fromZnp
      BY <1>a, <2>1
    <2>4. h.type \in {"SRSP", "AREQ"}
      BY <1>a, <2>1, TailTyped DEF Frame
    <2>5. \A f : Awaited(f)' <=> Awaited(f)
      BY <2>1 DEF Awaited, Synchronous
    <2>6. \A i \in Coming' : i + 1 \in Coming /\ fromZnp'[i] = fromZnp[i + 1] /\ i \in Nat \ {0}
      BY <2>3 DEF Coming
    <2>7. CASE h.type = "AREQ"
      <3>1. rxpc' = "link" /\ Asked' = Asked
        BY <2>1, <2>7 DEF Asked
      <3>2. ASSUME NEW i \in Coming' PROVE Awaited(fromZnp[i])' /\ Asked = {} /\ srspSem = 0
        <4>1. Awaited(fromZnp[i + 1]) /\ Asked = {} /\ srspSem = 0
          BY <2>2, <2>6 DEF AnswerOnItsWay
        <4> QED
          BY <2>1, <2>6, <4>1 DEF Awaited, Synchronous
      <3>3. \A i, j \in Coming' : i = j
        BY <2>2, <2>6 DEF AnswerOnItsWay
      <3>4. \A i \in Asked' : Awaited(toZnp[i])' /\ Coming' = {} /\ srspSem = 0
        BY <2>1, <2>2, <3>1, <3>2 DEF AnswerOnItsWay, Awaited, Synchronous
      <3>5. srspSem > 0 => srspSem = 1 /\ posted # Nothing /\ Awaited(posted)'
        BY <2>1, <2>2 DEF AnswerOnItsWay, Awaited, Synchronous
      <3>6. AnswerOnItsWay'
        BY <2>1, <2>2, <3>1, <3>2, <3>3, <3>4, <3>5 DEF AnswerOnItsWay
      <3> QED
        BY <2>1, <2>2, <3>6 DEF SuccessIsOwn, Answered
    <2>8. CASE h.type = "SRSP"
      <3>1. 1 \in Coming
        BY <2>3, <2>8 DEF Coming
      <3>2. Awaited(h) /\ srspSem = 0 /\ Asked = {}
        BY <2>2, <2>3, <3>1 DEF AnswerOnItsWay
      <3>3. expected = h.sub
        BY <3>2 DEF Awaited, Awaiting, IInv, ExpectedIsCurrent
      <3>4. rxpc' = "post" /\ rxFrame' = h
        BY <2>1, <2>8, <3>3
      <3>5. Coming' = {}
        BY <2>2, <2>6, <3>1 DEF AnswerOnItsWay
      <3>6. Asked' = {}
        BY <2>1, <3>2 DEF Asked
      <3> QED
        BY <2>1, <2>2, <2>5, <3>2, <3>4, <3>5, <3>6 DEF AnswerOnItsWay, SuccessIsOwn, Answered
    <2> QED
      BY <2>4, <2>7, <2>8
  <1>9. CASE RxPost
    <2> SUFFICES ASSUME Prompt PROVE AnswerOnItsWay' /\ SuccessIsOwn'
      BY <1>9 DEF RxPost, AnswerInv, Prompt, boundVars
    <2>1. /\ rxpc = "post" /\ rxpc' = "link" /\ srspSem' = srspSem + 1 /\ posted' = rxFrame
          /\ UNCHANGED <<pc, req, status, toZnp, fromZnp>>
      BY <1>9 DEF RxPost, appVars, wireVars
    <2>2. Awaited(rxFrame) /\ srspSem = 0 /\ Asked = {} /\ Coming = {}
      BY <2>1 DEF AnswerInv, AnswerOnItsWay
    <2>3. rxFrame # Nothing
      BY <2>1, ResultsDistinct, QueueElements DEF IInv, FramesInHand
    <2>4. AnswerOnItsWay'
      BY <2>1, <2>2, <2>3 DEF AnswerOnItsWay, Asked, Coming, Awaited, Synchronous
    <2>5. \A t \in App : pc[t] # "clear"
      BY <2>2, SenderUnique DEF Awaited, IInv, Senders, SendPlaces
    <2>6. SuccessIsOwn'
      BY <2>1, <2>5 DEF SuccessIsOwn
    <2> QED
      BY <2>4, <2>6
  <1>10. ASSUME RxLink \/ RxSignal PROVE AnswerInv'
    <2> SUFFICES ASSUME Prompt PROVE AnswerOnItsWay' /\ SuccessIsOwn'
      BY <1>10 DEF RxLink, RxSignal, AnswerInv, Prompt, boundVars
    <2>1. /\ rxpc # "post" /\ rxpc' # "post"
          /\ UNCHANGED <<pc, req, status, srspSem, posted, toZnp, fromZnp>>
      BY <1>10 DEF RxLink, RxSignal, semVars, appVars, wireVars
    <2> QED
      BY <2>1 DEF AnswerInv, AnswerOnItsWay, SuccessIsOwn, Answered, Asked, Coming, Awaited,
                  Synchronous
  <1>11. CASE ZnpAnswer
    <2> SUFFICES ASSUME Prompt PROVE AnswerOnItsWay' /\ SuccessIsOwn'
      BY <1>11 DEF ZnpAnswer, AnswerInv, Prompt, boundVars
    <2> DEFINE h == Head(toZnp)
               r == [h EXCEPT !.type = "SRSP"]
    <2>1. /\ toZnp # <<>> /\ toZnp' = Tail(toZnp)
          /\ fromZnp' = IF h.type = "SREQ" THEN Append(fromZnp, r) ELSE fromZnp
          /\ UNCHANGED <<pc, req, status, srspSem, rxpc, rxFrame, posted>>
      BY <1>11 DEF ZnpAnswer, semVars, appVars, rxVars
    <2>2. AnswerOnItsWay /\ SuccessIsOwn
      BY DEF AnswerInv
    <2>3. /\ DOMAIN toZnp = 1..Len(toZnp) /\ Len(toZnp) \in Nat \ {0} /\ h = toZnp[1]
          /\ DOMAIN toZnp' = 1..(Len(toZnp) - 1)
          /\ \A i \in DOMAIN toZnp' : toZnp'[i] = toZnp[i + 1] /\ i + 1 \in DOMAIN toZnp
      BY <1>a, <2>1
    <2>4. h \in Request
      BY <1>a, <2>1
    <2>5. r \in Frame /\ r.type = "SRSP" /\ r.id = h.id /\ r.sub = h.sub
      BY <2>4 DEF Request, Frame
    <2>6. /\ \A f : Awaited(f)' <=> Awaited(f)
          /\ Awaited(r) <=> Awaited(h)
      BY <2>1, <2>5 DEF Awaited, Synchronous
    <2>7. \A i \in Asked' : i + 1 \in Asked /\ toZnp'[i] = toZnp[i + 1] /\ i \in Nat \ {0}
      BY <2>3 DEF Asked
    <2>8. SuccessIsOwn'
      BY <2>1, <2>2 DEF SuccessIsOwn, Answered
    <2>9. CASE h.type # "SREQ"
      <3>1. Coming' = Coming /\ fromZnp' = fromZnp
        BY <2>1, <2>9 DEF Coming
      <3>2. ASSUME NEW i \in Asked'
            PROVE  Awaited(toZnp[i])' /\ Coming = {} /\ rxpc # "post" /\ srspSem = 0
        <4>1. Awaited(toZnp[i + 1]) /\ Coming = {} /\ rxpc # "post" /\ srspSem = 0
          BY <2>2, <2>7 DEF AnswerOnItsWay
        <4> QED
          BY <2>1, <2>7, <4>1 DEF Awaited, Synchronous
      <3>3. \A i, j \in Asked' : i = j
        BY <2>2, <2>7 DEF AnswerOnItsWay
      <3>4. /\ \A i \in Coming : Awaited(fromZnp[i])'
            /\ rxpc = "post" => Awaited(rxFrame)'
            /\ srspSem > 0 => Awaited(posted)'
        BY <2>1, <2>2, <3>1 DEF AnswerOnItsWay, Awaited, Synchronous
      <3>5. AnswerOnItsWay'
        BY <2>1, <2>2, <3>1, <3>2, <3>3, <3>4 DEF AnswerOnItsWay
      <3> QED
        BY <2>8, <3>5
    <2>10. CASE h.type = "SREQ"
      <3>1. 1 \in Asked
        BY <2>3, <2>10 DEF Asked
      <3>2. Awaited(h) /\ Coming = {} /\ rxpc # "post" /\ srspSem = 0
        BY <2>2, <2>3, <3>1 DEF AnswerOnItsWay
      <3>3. Asked' = {}
        BY <2>2, <2>7, <3>1 DEF AnswerOnItsWay
      <3>4. /\ DOMAIN fromZnp' = 1..(Len(fromZnp) + 1) /\ DOMAIN fromZnp = 1..Len(fromZnp)
            /\ Len(fromZnp) \in Nat /\ fromZnp'[Len(fromZnp) + 1] = r
            /\ \A i \in DOMAIN fromZnp : fromZnp'[i] = fromZnp[i]
        BY <1>a, <2>1, <2>5, <2>10
      <3>5. Coming' = {Len(fromZnp) + 1}
        <4>1. \A i \in DOMAIN fromZnp : fromZnp'[i].type # "SRSP"
          BY <3>2, <3>4 DEF Coming
        <4>2. fromZnp'[Len(fromZnp) + 1].type = "SRSP"
          BY <2>5, <3>4
        <4>3. DOMAIN fromZnp' = DOMAIN fromZnp \cup {Len(fromZnp) + 1}
          BY <3>4
        <4> QED
          BY <4>1, <4>2, <4>3 DEF Coming
      <3>6. ASSUME NEW i \in Coming' PROVE Awaited(fromZnp[i])'
        <4>1. fromZnp'[i] = r
          BY <3>4, <3>5
        <4>2. fromZnp'[i].id = h.id /\ fromZnp'[i].sub = h.sub
          BY <2>5, <4>1
        <4> QED
          BY <2>1, <3>2, <4>2 DEF Awaited, Synchronous
      <3>7. AnswerOnItsWay'
        BY <2>1, <3>2, <3>3, <3>5, <3>6 DEF AnswerOnItsWay
      <3> QED
        BY <2>8, <3>7
    <2> QED
      BY <2>9, <2>10
  <1>12. CASE ZnpIndication
    <2> SUFFICES ASSUME Prompt PROVE AnswerOnItsWay' /\ SuccessIsOwn'
      BY <1>12 DEF ZnpIndication, AnswerInv, Prompt
    <2>1. PICK s \in Sub : fromZnp' = Append(fromZnp, [type |-> "AREQ", sub |-> s, id |-> areqs + 1])
      BY <1>12 DEF ZnpIndication
    <2> DEFINE m == [type |-> "AREQ", sub |-> s, id |-> areqs + 1]
    <2>2. UNCHANGED <<pc, req, status, srspSem, toZnp, rxpc, rxFrame, posted>>
      BY <1>12 DEF ZnpIndication, semVars, appVars, rxVars
    <2>3. /\ DOMAIN fromZnp' = 1..(Len(fromZnp) + 1) /\ DOMAIN fromZnp = 1..Len(fromZnp)
          /\ Len(fromZnp) \in Nat /\ fromZnp'[Len(fromZnp) + 1].type = "AREQ"
          /\ \A i \in DOMAIN fromZnp : fromZnp'[i] = fromZnp[i]
      BY <1>a, <2>1
    <2>4. Coming' = Coming /\ \A i \in Coming : fromZnp'[i] = fromZnp[i]
      BY <2>3 DEF Coming
    <2> QED
      BY <2>2, <2>4 DEF AnswerInv, AnswerOnItsWay, SuccessIsOwn, Answered, Asked, Awaited,
                        Synchronous
  <1>13. CASE LineLoses
    BY <1>13, <1>a DEF LineLoses, AnswerInv, Prompt
  <1>14. CASE UNCHANGED vars
    <2>1. UNCHANGED <<answerVars, pc, req, status>>
      BY <1>14 DEF vars, answerVars, semVars, appVars, rxVars, wireVars, boundVars
    <2> QED
      BY <2>1, QuietAnswer
  <1> QED
    BY <1>1, <1>2, <1>3, <1>4, <1>5, <1>6, <1>7, <1>8, <1>9, <1>10, <1>11, <1>12, <1>13, <1>14
       DEF Next, AppNext, RxNext, ZnpNext

\* The accounting of answers holds throughout.
LEMMA RpcAnswerInvariant == Spec => []AnswerInv
  BY InitAnswer, AnswerKept, RpcInvariant, PTL DEF Spec

\* Until a wait times out or a frame is lost, srspSem is binary and its unit is the
\* answer to the request of the thread that waits.
THEOREM RpcNoStaleSrsp == Spec => [](Prompt => NoStaleSrsp)
  <1>1. IInv /\ AnswerInv => (Prompt => NoStaleSrsp)
    BY DEF IInv, TypeOK, AnswerInv, AnswerOnItsWay, NoStaleSrsp, SrspSemBinary, Awaited, Awaiting, Answered
  <1> QED
    BY <1>1, RpcAnswerInvariant, RpcInvariant, PTL

\* Until then a synchronous request that succeeds has been answered itself, ...
THEOREM RpcSuccessIsOwn == Spec => [](Prompt => SuccessIsOwn)
  <1>1. AnswerInv => (Prompt => SuccessIsOwn)
    BY DEF AnswerInv
  <1> QED
    BY <1>1, RpcAnswerInvariant, PTL

\* ... and rpcProcess never meets an SRSP it does not expect.
THEOREM RpcNothingDiscarded == Spec => [](Prompt => NothingDiscarded)
  <1>1. ASSUME IInv, AnswerInv, Prompt, fromZnp # <<>>, Head(fromZnp).type = "SRSP"
        PROVE  expected = Head(fromZnp).sub
    <2>1. 1 \in Coming /\ Head(fromZnp) = fromZnp[1]
      BY <1>1 DEF IInv, TypeOK, Coming
    <2> QED
      BY <1>1, <2>1 DEF AnswerInv, AnswerOnItsWay, Awaited, Awaiting, IInv, ExpectedIsCurrent
  <1>2. IInv /\ AnswerInv => (Prompt => NothingDiscarded)
    BY <1>1 DEF NothingDiscarded
  <1> QED
    BY <1>2, RpcAnswerInvariant, RpcInvariant, PTL
=============================================================================

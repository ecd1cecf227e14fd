-------------------------- MODULE StressTestProofs --------------------------
(***************************************************************************)
(* Proofs about StressTest, for any number of nodes, slots and sequence    *)
(* numbers and without the bounds of the model checking run.               *)
(***************************************************************************)
EXTENDS StressTest, TLAPS, NaturalsInduction, WellFoundedInduction

USE DEF Slot, Thread, Startup

----------------------------------------------------------------------------
\* The searches of the callbacks, which go up from slot 0, find the first slot there is.
LEMMA FirstIsLeast ==
    ASSUME NEW S, S \subseteq Slot, S # {}
    PROVE  First(S) \in S /\ \A j \in S : First(S) <= j
<1>1. S \subseteq Nat
  BY SlotsPositive
<1>2. PICK i \in S : \A j \in S : ~(<<j, i>> \in OpToRel(<, Nat))
  BY <1>1, WFMin, NatLessThanWellFounded, Zenon
<1>3. \A j \in S : ~(j < i)
  BY <1>1, <1>2, Zenon DEF OpToRel
<1>4. \A j \in S : i <= j
  BY <1>1, <1>3
<1> QED
  BY <1>4 DEF First

----------------------------------------------------------------------------
\* Type correctness.

\* Steps that fetch a message or ask for one keep the types.
LEMMA FetchType ==
    ASSUME QueueTypeOK, NEW t \in Thread, Fetch(t) \/ TimesOut \/ Request
    PROVE  QueueTypeOK'
<1>1. ASSUME NEW u \in Thread, Take(u)
      PROVE  /\ queue' \in Seq(Indication)
             /\ handling' \in [Thread -> Indication \union {Nothing}]
             /\ step' \in [Thread -> {"enter", "tx", "rx", "addr"}]
             /\ found' \in [Thread -> Slot]
  <2>1. Head(queue) \in Indication /\ queue' \in Seq(Indication)
    BY <1>1 DEF Take, QueueTypeOK
  <2> QED
    BY <1>1, <2>1 DEF Take, QueueTypeOK
<1>2. CASE Fetch(t)
  BY <1>1, <1>2 DEF Fetch, NoCallback, callbackVars, QueueTypeOK
<1>3. CASE TimesOut
  BY <1>3 DEF TimesOut, NoCallback, callbackVars, QueueTypeOK
<1>4. CASE Request
  BY <1>1, <1>4 DEF Request, NoCallback, callbackVars, QueueTypeOK
<1> QED
  BY <1>2, <1>3, <1>4

\* So do the steps of the start, ...
LEMMA StartType ==
    ASSUME TypeOK, Start
    PROVE  TypeOK'
<1> USE DEF TypeOK
<1>1. QueueTypeOK'
  <2>1. CASE Started
    BY <2>1 DEF Started, NoCallback, callbackVars, QueueTypeOK
  <2>2. CASE Check
    BY <2>2, FetchType DEF Check, NoCallback, callbackVars, QueueTypeOK
  <2>3. CASE Flush \/ Flushed \/ SetNVStartup \/ SysResetReq \/ FlushRsp \/ WriteConfig
             \/ RegisterAf \/ ZdoInit \/ Starting \/ StartingEnds
             \/ GetExtAddr \/ WriteDirectCb
    <3>1. Fetch("app") \/ TimesOut \/ Request
      BY <2>3 DEF Flush, Flushed, SetNVStartup, SysResetReq, FlushRsp, WriteConfig,
         SetNVDevType, SetNVPanID, SetNVChanList, Configure, RegisterAf, ZdoInit,
         Starting, StartingEnds, GetExtAddr, WriteDirectCb
    <3> QED
      BY <3>1, FetchType
  <2>4. CASE InitDone
    BY <2>4 DEF InitDone, NoCallback, callbackVars, QueueTypeOK
  <2> QED
    BY <2>1, <2>2, <2>3, <2>4 DEF Start
<1>2. AppTypeOK' /\ pc' \notin {"compare", "resetTx", "resetRx", "advance", "send"}
  <2>1. CASE Flush \/ SetNVStartup \/ SysResetReq \/ FlushRsp \/ WriteConfig
    BY <2>1 DEF Flush, SetNVStartup, SysResetReq, FlushRsp, WriteConfig, SetNVDevType,
       SetNVPanID, SetNVChanList, Configure, AppAt, OnlyStarts, SameAttempt, netVars, AppTypeOK
  <2>2. CASE RegisterAf \/ ZdoInit \/ Starting \/ StartingEnds \/ Started \/ Check
             \/ GetExtAddr \/ WriteDirectCb
    <3>1. UNCHANGED <<idx, nvFailed, initDone, devState, resetting, early, indicated>>
      BY <2>2 DEF RegisterAf, ZdoInit, Starting, StartingEnds, Started, Check, GetExtAddr,
         WriteDirectCb, OnlyStarts, SameAttempt, netVars
    <3>2. gaveUp' \in BOOLEAN
      BY <2>2 DEF RegisterAf, ZdoInit, Starting, StartingEnds, Started, Check, GetExtAddr,
         WriteDirectCb, SameAttempt, AppTypeOK
    <3>3. pc' \in {"init", "starting", "check", "started", "up", "flush", "direct", "ready"}
      BY <2>2 DEF RegisterAf, ZdoInit, Starting, StartingEnds, Started, Check, GetExtAddr,
         WriteDirectCb
    <3>4. /\ idx' \in Slot /\ nvFailed' \in BOOLEAN /\ initDone' \in BOOLEAN
          /\ devState' \in {DEV_HOLD} \union States
          /\ resetting' \in BOOLEAN /\ early' \subseteq States /\ indicated' \subseteq States
      BY <3>1 DEF AppTypeOK
    <3>5. pc' \in Startup \union
                     {"look", "compare", "resetTx", "resetRx", "advance", "send", "wait"}
      BY <3>3
    <3>6. AppTypeOK'
      BY <3>2, <3>4, <3>5 DEF AppTypeOK
    <3> QED
      BY <3>3, <3>6
  <2>3. CASE Flushed
    BY <2>3 DEF Flushed, OnlyStarts, AppTypeOK
  <2>4. CASE InitDone
    <3>1. /\ pc' = "look" /\ idx' = 1 /\ 1 \in Slot /\ initDone' = TRUE
          /\ early' = {} /\ indicated' = {} /\ gaveUp' = FALSE
          /\ UNCHANGED <<nvFailed, devState, resetting>>
      BY <2>4, SlotsPositive DEF InitDone
    <3>2. nvFailed' \in BOOLEAN /\ devState' \in {DEV_HOLD} \union States /\ resetting' \in BOOLEAN
      BY <3>1 DEF AppTypeOK
    <3> QED
      BY <3>1, <3>2 DEF AppTypeOK
  <2> QED
    BY <2>1, <2>2, <2>3, <2>4 DEF Start
<1>3. UNCHANGED <<nodeVars, znpVars>>
  BY DEF Start, Flush, Flushed, SetNVStartup, SysResetReq, FlushRsp, WriteConfig,
     SetNVDevType, SetNVPanID, SetNVChanList, Configure, RegisterAf, ZdoInit,
     Starting, StartingEnds, Started, Check, GetExtAddr, WriteDirectCb, InitDone, OnlyStarts
<1> QED
  BY <1>1, <1>2, <1>3 DEF nodeVars, znpVars, NodesTypeOK, AirTypeOK, VisitsNode

\* What is put on the air and what is taken from it are packets.
LEMMA BagType ==
    ASSUME NEW B, BagToSet(B) \subseteq Packet, NEW p \in Packet
    PROVE  /\ BagToSet(B (+) SetToBag({p})) \subseteq Packet
           /\ BagToSet(B (-) SetToBag({p})) \subseteq Packet
BY DEF BagToSet, SetToBag, (+), (-)

\* ... those of a test, ...
LEMMA TestType ==
    ASSUME TypeOK, Test
    PROVE  TypeOK'
<1> USE DEF TypeOK
<1>1. QueueTypeOK'
  <2>1. CASE Look \/ Compare \/ ResetTx \/ ResetRx \/ Advance
    BY <2>1 DEF Look, Compare, ResetTx, ResetRx, Advance, OnlyTests, NoCallback, callbackVars,
                QueueTypeOK
  <2>2. CASE Send
    BY <2>2 DEF Send, NoCallback, callbackVars, QueueTypeOK
  <2>3. CASE Wait
    BY <2>3, FetchType DEF Wait
  <2> QED
    BY <2>1, <2>2, <2>3 DEF Test
<1>2. (idx % Slots) + 1 \in Slot
  BY SlotsPositive DEF AppTypeOK
<1>3. AppTypeOK'
  BY <1>2 DEF Test, Look, Compare, ResetTx, ResetRx, Advance, Send, Wait, AppAt, OnlyTests,
              netVars, AppTypeOK
<1>4. NodesTypeOK'
  <2>1. CASE Look \/ Send \/ Wait
    BY <2>1 DEF Look, Send, Wait, OnlyTests, nodeVars, NodesTypeOK
  <2>2. CASE Compare
    BY <2>2 DEF Compare, OnlyTests, NodesTypeOK, AppTypeOK
  <2>3. CASE ResetTx \/ ResetRx
    <3>1. 0 \in SeqNum
      BY SeqNumsWrap DEF SeqNum
    <3> QED
      BY <2>3, <3>1 DEF ResetTx, ResetRx, OnlyTests, NodesTypeOK, AppTypeOK
  <2>4. CASE Advance
    <3>1. (testNodes[idx].txSeqNum + 1) % SeqNums \in SeqNum
      BY SeqNumsWrap DEF SeqNum, NodesTypeOK, AppTypeOK
    <3> QED
      BY <2>4, <3>1 DEF Advance, OnlyTests, NodesTypeOK, AppTypeOK
  <2> QED
    BY <2>1, <2>2, <2>3, <2>4 DEF Test
<1>5. AirTypeOK'
  <2>1. CASE Send
    <3>1. [kind |-> "packet", node |-> testNodes[idx].nodeAddr,
           seq |-> testNodes[idx].txSeqNum] \in Packet
      BY <2>1 DEF Send, AppAt, VisitsNode, NodesTypeOK, AppTypeOK, Packet
    <3> QED
      BY <2>1, <3>1, BagType DEF Send, AirTypeOK
  <2>2. CASE Look \/ Compare \/ ResetTx \/ ResetRx \/ Advance \/ Wait
    BY <2>2 DEF Look, Compare, ResetTx, ResetRx, Advance, Wait, znpVars, AirTypeOK
  <2> QED
    BY <2>1, <2>2 DEF Test
<1>6. VisitsNode'
  <2>1. CASE Look
    BY <2>1 DEF Look, AppAt, VisitsNode
  <2>2. CASE Compare \/ ResetTx \/ ResetRx \/ Advance
    BY <2>2, ZenonT(60) DEF Compare, ResetTx, ResetRx, Advance, AppAt, VisitsNode, NodesTypeOK, AppTypeOK
  <2>3. CASE Send \/ Wait
    BY <2>3 DEF Send, Wait, VisitsNode
  <2> QED
    BY <2>1, <2>2, <2>3 DEF Test
<1> QED
  BY <1>1, <1>3, <1>4, <1>5, <1>6

\* ... those of a callback, ...
LEMMA CallbackType ==
    ASSUME TypeOK, NEW t \in Thread, Callback(t)
    PROVE  TypeOK'
<1> USE DEF TypeOK
<1>1. AirTypeOK'
  BY DEF Callback, StateChangeCb, ResetIndCb, IncomingMsgCb, FindSlot, StoreTx, StoreRx,
         StoreAddr, Store, OnlyCallback, znpVars, AirTypeOK
<1>2. ASSUME Return(t)
      PROVE  /\ handling' \in [Thread -> Indication \union {Nothing}]
             /\ step' \in [Thread -> {"enter", "tx", "rx", "addr"}]
             /\ found' \in [Thread -> Slot]
  BY <1>2 DEF Return, QueueTypeOK
<1>3. CASE StateChangeCb(t)
  <2>1. handling[t].state \in States
    BY <1>3 DEF StateChangeCb, QueueTypeOK, Indication, ResetInd, Nothing
  <2> QED
    BY <1>1, <1>2, <1>3, <2>1, ZenonT(60) DEF StateChangeCb, OnlyCallback, appVars, netVars, nodeVars, AppTypeOK,
       NodesTypeOK, QueueTypeOK, VisitsNode
<1>4. CASE IncomingMsgCb(t)
  <2>1. handling[t].seq \in SeqNum
    BY <1>4 DEF IncomingMsgCb, QueueTypeOK, Indication, ResetInd, Nothing
  <2> DEFINE own == {i \in Slot : testNodes[i].nodeAddr = handling[t].node}
  <2>2. CASE own = {}
    BY <1>1, <1>2, <1>4, <2>2, ZenonT(60) DEF IncomingMsgCb, OnlyCallback, appVars, netVars, AppTypeOK,
       NodesTypeOK, QueueTypeOK, VisitsNode
  <2>3. CASE own # {}
    <3>1. First(own) \in Slot
      BY <2>3, FirstIsLeast
    <3> DEFINE i == First(own)
    <3> HIDE DEF i
    <3>2. /\ testNodes' = [testNodes EXCEPT ![i].rxSeqNum = handling[t].seq]
          /\ heard' = [heard EXCEPT ![i] = TRUE]
      BY <1>4, <2>3 DEF IncomingMsgCb, i
    <3>3. i \in Slot
      BY <3>1 DEF i
    <3>4. NodesTypeOK'
      BY <1>4, <2>1, <3>2, <3>3, SMTT(60) DEF IncomingMsgCb, NodesTypeOK
    <3>5. VisitsNode'
      BY <1>4, <3>2, <3>3 DEF IncomingMsgCb, OnlyCallback, appVars, netVars, AppTypeOK, NodesTypeOK,
         VisitsNode
    <3> QED
      BY <1>1, <1>2, <1>4, <3>4, <3>5 DEF IncomingMsgCb, OnlyCallback, appVars, netVars, AppTypeOK,
         QueueTypeOK
  <2> QED
    BY <2>2, <2>3
<1>5. CASE FindSlot(t)
  <2> DEFINE empty == {i \in Slot : testNodes[i].nodeAddr = NoNode}
  <2>1. CASE empty = {}
    BY <1>1, <1>2, <1>5, <2>1, SMTT(60) DEF FindSlot, OnlyCallback, appVars, netVars, nodeVars, AppTypeOK,
       NodesTypeOK, QueueTypeOK, VisitsNode
  <2>2. CASE empty # {}
    <3>1. First(empty) \in Slot
      BY <2>2, FirstIsLeast
    <3>2. QueueTypeOK'
      BY <1>5, <2>2, <3>1 DEF FindSlot, OnlyCallback, QueueTypeOK
    <3> QED
      BY <1>1, <1>5, <3>2 DEF FindSlot, OnlyCallback, appVars, netVars, nodeVars, AppTypeOK,
         NodesTypeOK, VisitsNode
  <2> QED
    BY <2>1, <2>2
<1>6. CASE StoreTx(t) \/ StoreRx(t) \/ StoreAddr(t)
  <2>1. found[t] \in Slot
    BY DEF QueueTypeOK
  <2>2. 0 \in SeqNum
    BY SeqNumsWrap DEF SeqNum
  <2>3. handling[t].kind = "annce" => handling[t].node \in Node
    BY DEF QueueTypeOK, Indication, ResetInd, Nothing
  <2>4. QueueTypeOK'
    BY <1>2, <1>6 DEF StoreTx, StoreRx, StoreAddr, Store, OnlyCallback, QueueTypeOK
  <2>5. NodesTypeOK' /\ VisitsNode'
    <3>1. CASE StoreTx(t)
      BY <2>1, <2>2, <3>1, SMTT(60) DEF StoreTx, Store, OnlyCallback, appVars, netVars, AppTypeOK, NodesTypeOK,
         VisitsNode
    <3>2. CASE StoreRx(t)
      BY <2>1, <2>2, <3>2, SMTT(60) DEF StoreRx, Store, OnlyCallback, appVars, netVars, AppTypeOK, NodesTypeOK,
         VisitsNode
    <3>3. CASE StoreAddr(t)
      BY <2>1, <2>3, <3>3, NoNodeIsNone, SMTT(60) DEF StoreAddr, Store, OnlyCallback, appVars, netVars, AppTypeOK,
         NodesTypeOK, VisitsNode
    <3> QED
      BY <1>6, <3>1, <3>2, <3>3
  <2> QED
    BY <1>1, <1>6, <2>4, <2>5 DEF StoreTx, StoreRx, StoreAddr, Store, OnlyCallback, appVars, netVars,
       AppTypeOK
<1>7. CASE ResetIndCb(t)
  BY <1>1, <1>2, <1>7 DEF ResetIndCb, OnlyCallback, appVars, netVars, nodeVars, AppTypeOK,
     NodesTypeOK, QueueTypeOK, VisitsNode
<1> QED
  BY <1>3, <1>4, <1>5, <1>6, <1>7 DEF Callback

\* ... and those of the ZNP.
LEMMA ZnpType ==
    ASSUME TypeOK, Znp
    PROVE  TypeOK'
<1> USE DEF TypeOK
<1>1. AppTypeOK' /\ NodesTypeOK' /\ VisitsNode'
  <2>1. UNCHANGED <<pc, idx, nvFailed, initDone, devState, gaveUp, nodeVars>>
    BY DEF Znp, ZnpResets, IndicateState, Announce, EchoBack, Deliver, OnlyZnp, appVars
  <2>2. resetting' \in BOOLEAN /\ early' \subseteq States /\ indicated' \subseteq States
    BY DEF Znp, ZnpResets, IndicateState, Announce, EchoBack, Deliver, netVars, AppTypeOK
  <2> QED
    BY <2>1, <2>2 DEF nodeVars, AppTypeOK, NodesTypeOK, VisitsNode
<1>2. ASSUME NEW m \in Indication, queue' = Append(queue, m)
      PROVE  queue' \in Seq(Indication)
  BY <1>2 DEF QueueTypeOK
<1>3. srsp' \in Nat /\ UNCHANGED callbackVars
  BY DEF Znp, ZnpResets, IndicateState, Announce, EchoBack, Deliver, OnlyZnp, QueueTypeOK
<1>4. CASE IndicateState
  <2>1. \A s \in States : StateChange(s) \in Indication
    BY DEF StateChange, Indication
  <2> QED
    BY <1>1, <1>2, <1>3, <1>4, <2>1 DEF IndicateState, callbackVars, QueueTypeOK, AirTypeOK
<1>5. CASE Announce
  <2>1. \A n \in Node : Annce(n) \in Indication
    BY DEF Annce, Indication
  <2> QED
    BY <1>1, <1>2, <1>3, <1>5, <2>1 DEF Announce, callbackVars, QueueTypeOK, AirTypeOK
<1>6. CASE EchoBack
  <2>1. PICK p \in BagToSet(air) :
              air' = (air (-) SetToBag({p}))
                         (+) SetToBag({[kind |-> "echo", node |-> p.node, seq |-> p.seq]})
    BY <1>6 DEF EchoBack
  <2>2. p \in Packet /\ [kind |-> "echo", node |-> p.node, seq |-> p.seq] \in Packet
    BY DEF AirTypeOK, Packet
  <2>3. BagToSet(air (-) SetToBag({p})) \subseteq Packet
    BY <2>2, BagType DEF AirTypeOK
  <2>4. BagToSet(air') \subseteq Packet
    BY <2>1, <2>2, <2>3, BagType
  <2> QED
    BY <1>1, <1>3, <1>6, <2>4 DEF EchoBack, callbackVars, QueueTypeOK, AirTypeOK
<1>7. CASE Deliver
  <2>1. PICK p \in BagToSet(air) : /\ p.kind = "echo"
                                   /\ air' = air (-) SetToBag({p})
                                   /\ queue' = Append(queue, Echo(p.node, p.seq))
    BY <1>7 DEF Deliver
  <2>2. p \in Packet /\ Echo(p.node, p.seq) \in Indication
    BY DEF AirTypeOK, Packet, Echo, Indication
  <2>3. BagToSet(air') \subseteq Packet
    BY <2>1, <2>2, BagType DEF AirTypeOK
  <2> QED
    BY <1>1, <1>2, <1>3, <1>7, <2>1, <2>2, <2>3 DEF Deliver, callbackVars, QueueTypeOK,
       AirTypeOK
<1>8. CASE ZnpResets
  <2>1. ResetInd \in Indication
    BY DEF Indication
  <2> QED
    BY <1>1, <1>2, <1>3, <1>8, <2>1 DEF ZnpResets, znpVars, callbackVars, QueueTypeOK, AirTypeOK
<1> QED
  BY <1>4, <1>5, <1>6, <1>7, <1>8 DEF Znp

\* The program's variables have the values of their C types, test packets go to nodes that
\* are listed, and the callbacks store into slots of testNodes (stressTest.c 258-281).
THEOREM TypeCorrect == Spec => []TypeOK
<1>1. Init => TypeOK
  <2>1. ASSUME Init PROVE TypeOK
    <3>1. 0 \in SeqNum /\ 1 \in Slot
      BY SlotsPositive, SeqNumsWrap DEF SeqNum
    <3>2. BagToSet(EmptyBag) \subseteq Packet
      BY DEF BagToSet, EmptyBag, SetToBag
    <3>3. AppTypeOK /\ VisitsNode
      BY <2>1, <3>1 DEF Init, AppTypeOK, VisitsNode
    <3>4. NodesTypeOK
      BY <2>1, <3>1 DEF Init, NodesTypeOK
    <3>5. QueueTypeOK
      BY <2>1, <3>1 DEF Init, QueueTypeOK
    <3>6. AirTypeOK
      BY <2>1, <3>2 DEF Init, AirTypeOK
    <3> QED
      BY <3>3, <3>4, <3>5, <3>6 DEF TypeOK
  <2> QED
    BY <2>1
<1>2. TypeOK /\ [Next]_vars => TypeOK'
  <2> SUFFICES ASSUME TypeOK, [Next]_vars PROVE TypeOK'
    OBVIOUS
  <2>1. CASE MsgWait
    <3>1. QueueTypeOK'
      BY <2>1, FetchType DEF MsgWait, TypeOK
    <3> QED
      BY <2>1, <3>1 DEF MsgWait, appVars, nodeVars, znpVars, netVars, TypeOK, AppTypeOK, NodesTypeOK,
         AirTypeOK, VisitsNode
  <2>2. CASE UNCHANGED vars
    BY <2>2 DEF vars, appVars, nodeVars, callbackVars, znpVars, netVars, TypeOK, AppTypeOK, NodesTypeOK,
       QueueTypeOK, AirTypeOK, VisitsNode
  <2> QED
    BY <2>1, <2>2, StartType, TestType, CallbackType, ZnpType DEF Next
<1> QED
  BY <1>1, <1>2, PTL DEF Spec

----------------------------------------------------------------------------
\* When the network is up.

\* What the ZNP has said in this attempt.
Said == early \union indicated

\* A state is on its way to devState, or there, only if it was said in this attempt, which
\* began with an empty queue and no callback running.
FromSaid ==
    /\ devState \in {DEV_HOLD} \union Said
    /\ \A k \in 1..Len(queue) : queue[k].kind = "state" => queue[k].state \in Said
    /\ \A t \in Thread : handling[t].kind = "state" => handling[t].state \in Said

\* What startNetwork has seen, and returns for, was said.
SeenWasSaid ==
    /\ pc = "check" /\ ~gaveUp => DEV_ZB_COORD \in Said
    /\ UpMeansStarted

\* While the network is being started the other thread is kept out by initDone.
StartInv ==
    /\ pc \in Startup => ~initDone
    /\ ~initDone => pc \in Startup /\ Idle("msg") /\ FromSaid /\ SeenWasSaid

\* A message that is fetched comes from the queue.
LEMMA FetchSaid ==
    ASSUME QueueTypeOK, FromSaid, UNCHANGED <<devState, early, indicated>>,
           Fetch("app") \/ TimesOut \/ Request \/ NoCallback
    PROVE  FromSaid' /\ handling'["msg"] = handling["msg"]
<1> USE DEF FromSaid, Said
<1>1. CASE Take("app")
  <2>1. /\ queue # <<>> /\ queue' = Tail(queue)
        /\ handling' = [handling EXCEPT !["app"] = queue[1]]
    BY <1>1 DEF Take
  <2>2. queue \in Seq(Indication)
    BY DEF QueueTypeOK
  <2>3. Len(queue) # 0 /\ Len(queue) \in Nat /\ Len(queue') = Len(queue) - 1
    BY <2>1, <2>2
  <2>4. \A k \in 1..Len(queue') : queue'[k] = queue[k + 1] /\ k + 1 \in 1..Len(queue)
    BY <2>1, <2>2, <2>3
  <2>5. 1 \in 1..Len(queue)
    BY <2>3
  <2>6. \A k \in 1..Len(queue') : queue'[k].kind = "state" => queue'[k].state \in Said'
    BY <2>4
  <2>7. handling \in [Thread -> Indication \union {Nothing}]
    BY DEF QueueTypeOK
  <2>8. handling'["app"] = queue[1] /\ handling'["msg"] = handling["msg"]
    BY <2>1, <2>7
  <2>9. \A t \in Thread : handling'[t].kind = "state" => handling'[t].state \in Said'
    BY <2>5, <2>8
  <2> QED
    BY <2>6, <2>8, <2>9
<1>2. CASE NoCallback
  BY <1>2 DEF NoCallback, callbackVars
<1> QED
  BY <1>1, <1>2 DEF Fetch, TimesOut, Request

\* The start of the network.
LEMMA StartSaid ==
    ASSUME TypeOK, StartInv, Start
    PROVE  StartInv'
<1> USE DEF TypeOK, StartInv, AppAt, Idle
<1>1. pc \in Startup /\ ~initDone /\ Idle("msg") /\ FromSaid /\ SeenWasSaid
  BY DEF Start, Flush, Flushed, SetNVStartup, SysResetReq, FlushRsp, WriteConfig, SetNVDevType,
     SetNVPanID, SetNVChanList, Configure, RegisterAf, ZdoInit, Starting, StartingEnds,
     Started, Check, GetExtAddr, WriteDirectCb, InitDone
<1>2. CASE InitDone
  BY <1>2 DEF InitDone
<1>3. CASE Flushed
  <2>1. /\ pc' = "clear" /\ ~initDone' /\ devState' = DEV_HOLD
        /\ queue = <<>> /\ queue' = queue /\ handling' = handling
    BY <1>1, <1>3 DEF Flushed, TimesOut, NoCallback, callbackVars, OnlyStarts
  <2>2. handling["app"].kind = "none" /\ handling["msg"].kind = "none"
    BY <1>1, <1>3 DEF Flushed
  <2>3. FromSaid'
    BY <2>1, <2>2 DEF FromSaid
  <2> QED
    BY <2>1, <2>2, <2>3 DEF SeenWasSaid, UpMeansStarted
<1>4. CASE ~InitDone /\ ~Flushed
  <2>1. /\ UNCHANGED <<devState, initDone>> /\ Said' = Said
        /\ UNCHANGED <<early, indicated>>
        /\ Fetch("app") \/ TimesOut \/ Request \/ NoCallback
        /\ pc' \in Startup
    BY <1>1, <1>4 DEF Start, Flush, SetNVStartup, SysResetReq, FlushRsp, WriteConfig,
       SetNVDevType, SetNVPanID, SetNVChanList, Configure, RegisterAf, ZdoInit, Starting,
       StartingEnds, Started, Check, GetExtAddr, WriteDirectCb, OnlyStarts, SameAttempt,
       netVars, Said
  <2>2. FromSaid' /\ handling'["msg"] = handling["msg"]
    BY <1>1, <2>1, FetchSaid
  <2>3. SeenWasSaid'
    <3> USE DEF SeenWasSaid
    <3>1. CASE Flush \/ SetNVStartup \/ SysResetReq \/ FlushRsp \/ WriteConfig
      <4>1. pc' # "check" /\ (pc' = "up" => nvFailed')
        BY <3>1 DEF Flush, SetNVStartup, SysResetReq, FlushRsp, WriteConfig, SetNVDevType,
           SetNVPanID, SetNVChanList, Configure, AppAt, SameAttempt
      <4> QED
        BY <4>1 DEF UpMeansStarted
    <3>2. CASE RegisterAf \/ ZdoInit \/ Starting \/ GetExtAddr \/ WriteDirectCb
      <4>1. pc' # "up" /\ (pc' = "check" => gaveUp')
        BY <3>2 DEF RegisterAf, ZdoInit, Starting, GetExtAddr, WriteDirectCb
      <4> QED
        BY <4>1 DEF UpMeansStarted
    <3>3. CASE StartingEnds \/ Started
      <4>1. pc' # "up"
        BY <3>3 DEF StartingEnds, Started
      <4>2. pc' = "check" /\ ~gaveUp' => devState = DEV_ZB_COORD
        BY <3>3 DEF StartingEnds, Started
      <4>3. devState = DEV_ZB_COORD => DEV_ZB_COORD \in Said
        BY <1>1 DEF FromSaid, DEV_HOLD, DEV_ZB_COORD
      <4> QED
        BY <2>1, <4>1, <4>2, <4>3 DEF UpMeansStarted
    <3>4. CASE Check
      <4>1. CASE pc' # "up"
        BY <3>4, <4>1 DEF Check, UpMeansStarted
      <4>2. CASE pc' = "up"
        <5>1. /\ devState >= DEV_END_DEVICE /\ pc = "check"
              /\ UNCHANGED <<early, indicated, gaveUp>>
          BY <2>1, <3>4, <4>2 DEF Check, SameAttempt
        <5>2. devState \in Said /\ devState \in {DEV_COORD_STARTING, DEV_ZB_COORD}
          BY <1>1, <5>1 DEF FromSaid, AppTypeOK, States, DEV_HOLD, DEV_INIT, DEV_END_DEVICE,
             DEV_COORD_STARTING, DEV_ZB_COORD
        <5> DEFINE enough == {DEV_ZB_COORD} \union
                                 (IF gaveUp THEN {DEV_COORD_STARTING} ELSE {})
        <5>3. \E s \in enough : s \in early \/ s \in indicated
          <6>1. CASE gaveUp
            BY <5>2, <6>1 DEF Said
          <6>2. CASE ~gaveUp
            BY <1>1, <5>1, <6>2 DEF Said
          <6> QED
            BY <6>1, <6>2
        <5>4. indicated' \cap enough' # {} \/ early' \cap enough' # {}
          BY <5>1, <5>3
        <5> QED
          BY <4>2, <5>4 DEF UpMeansStarted
      <4> QED
        BY <4>1, <4>2
    <3> QED
      BY <1>4, <3>1, <3>2, <3>3, <3>4 DEF Start
  <2> QED
    BY <1>1, <2>1, <2>2, <2>3
<1> QED
  BY <1>2, <1>3, <1>4

\* The ZNP.
LEMMA ZnpSaid ==
    ASSUME TypeOK, StartInv, Znp
    PROVE  StartInv'
<1> USE DEF TypeOK, StartInv, Idle
<1>1. /\ UNCHANGED <<pc, nvFailed, initDone, devState, gaveUp, handling>>
  BY DEF Znp, ZnpResets, IndicateState, Announce, EchoBack, Deliver, OnlyZnp, appVars,
     callbackVars
<1>2. Said \subseteq Said'
  BY DEF Znp, ZnpResets, IndicateState, Announce, EchoBack, Deliver, netVars, Said
<1> SUFFICES ASSUME ~initDone
             PROVE  FromSaid' /\ SeenWasSaid'
  BY <1>1
<1>3. \/ queue' = queue
      \/ \E m \in Indication : /\ queue' = Append(queue, m)
                               /\ m.kind = "state" => m.state \in Said'
  <2>1. CASE ZnpResets
    BY <2>1 DEF ZnpResets, Indication, ResetInd
  <2>2. CASE IndicateState
    <3>1. PICK s \in States : /\ queue' = Append(queue, StateChange(s))
                              /\ indicated' = indicated \union {s}
      BY <2>2 DEF IndicateState
    <3>2. StateChange(s) \in Indication /\ StateChange(s).state = s
      BY DEF StateChange, Indication
    <3> QED
      BY <3>1, <3>2 DEF Said
  <2>3. CASE Announce
    BY <2>3 DEF Announce, Annce, Indication
  <2>4. CASE EchoBack
    BY <2>4 DEF EchoBack
  <2>5. CASE Deliver
    <3>1. PICK p \in BagToSet(air) : queue' = Append(queue, Echo(p.node, p.seq))
      BY <2>5 DEF Deliver
    <3>2. Echo(p.node, p.seq) \in Indication /\ Echo(p.node, p.seq).kind = "echo"
      BY DEF AirTypeOK, Packet, Echo, Indication
    <3> QED
      BY <3>1, <3>2
  <2> QED
    BY <2>1, <2>2, <2>3, <2>4, <2>5 DEF Znp
<1>4. \A k \in 1..Len(queue') : queue'[k].kind = "state" => queue'[k].state \in Said'
  <2>1. queue \in Seq(Indication)
    BY DEF QueueTypeOK
  <2>2. \A k \in 1..Len(queue) : queue[k].kind = "state" => queue[k].state \in Said'
    BY <1>2 DEF FromSaid
  <2>3. ASSUME NEW m \in Indication, queue' = Append(queue, m),
               m.kind = "state" => m.state \in Said'
        PROVE  \A k \in 1..Len(queue') : queue'[k].kind = "state" => queue'[k].state \in Said'
    <3>1. /\ Len(queue') = Len(queue) + 1 /\ queue'[Len(queue) + 1] = m
          /\ \A k \in 1..Len(queue) : queue'[k] = queue[k]
      BY <2>1, <2>3
    <3>2. Len(queue) \in Nat
      BY <2>1
    <3> QED
      BY <2>2, <2>3, <3>1, <3>2
  <2> QED
    BY <1>3, <2>2, <2>3
<1>5. FromSaid'
  BY <1>1, <1>2, <1>4 DEF FromSaid
<1>6. SeenWasSaid'
  <2>1. pc = "check" /\ ~gaveUp => DEV_ZB_COORD \in Said'
    BY <1>2 DEF SeenWasSaid
  <2>2. UpMeansStarted'
    <3> DEFINE enough == {DEV_ZB_COORD} \union
                             (IF gaveUp THEN {DEV_COORD_STARTING} ELSE {})
    <3> SUFFICES ASSUME pc = "up", ~nvFailed
                 PROVE  indicated' \cap enough # {} \/ early' \cap enough # {}
      BY <1>1 DEF UpMeansStarted
    <3>1. PICK s \in enough : s \in Said
      BY DEF SeenWasSaid, UpMeansStarted, Said
    <3>2. s \in early' \/ s \in indicated'
      BY <1>2, <3>1 DEF Said
    <3> QED
      BY <3>1, <3>2
  <2> QED
    BY <1>1, <2>1, <2>2 DEF SeenWasSaid
<1> QED
  BY <1>5, <1>6

\* appProcess takes a network to be up only if the ZNP has said in this attempt that it is a
\* coordinator, or is starting as one and startNetwork waited for more in vain, or if a write
\* to its memory failed (stressTest.c 426-541, 620-662): the flush before the attempt leaves
\* neither an indication in the queue nor a callback that could bring a state of before.
THEOREM UpMeansStartedHolds == Spec => []UpMeansStarted
<1>1. Init => StartInv /\ UpMeansStarted
  BY DEF Init, StartInv, Idle, Nothing, FromSaid, SeenWasSaid, UpMeansStarted
<1>2. TypeOK /\ StartInv /\ [Next]_vars => StartInv'
  <2> SUFFICES ASSUME TypeOK, StartInv, [Next]_vars PROVE StartInv'
    OBVIOUS
  <2> USE DEF StartInv, Idle
  <2>1. CASE Test
    <3>1. pc \notin Startup /\ pc' \notin Startup /\ UNCHANGED initDone
      BY <2>1 DEF Test, Look, Compare, ResetTx, ResetRx, Advance, Send, Wait, AppAt, OnlyTests
    <3> QED
      BY <3>1
  <2>2. CASE MsgWait
    BY <2>2 DEF MsgWait, appVars
  <2>3. ASSUME NEW t \in Thread, Callback(t) PROVE StartInv'
    <3>1. UNCHANGED <<pc, nvFailed, initDone, queue, early, indicated, gaveUp>>
      BY <2>3 DEF Callback, StateChangeCb, ResetIndCb, IncomingMsgCb, FindSlot, StoreTx,
         StoreRx, StoreAddr, Store, OnlyCallback, appVars, netVars
    <3>2. handling' = handling \/ handling' = [handling EXCEPT ![t] = Nothing]
      BY <2>3 DEF Callback, StateChangeCb, ResetIndCb, IncomingMsgCb, FindSlot, StoreTx,
         StoreRx, StoreAddr, Store, Return
    <3>3. devState' = devState \/ (handling[t].kind = "state" /\ devState' = handling[t].state)
      BY <2>3 DEF Callback, StateChangeCb, ResetIndCb, IncomingMsgCb, FindSlot, StoreTx,
         StoreRx, StoreAddr, Store
    <3>4. \A u \in Thread : handling'[u] \in {handling[u], Nothing}
      BY <3>2 DEF TypeOK, QueueTypeOK
    <3>5. FromSaid => FromSaid'
      BY <3>1, <3>3, <3>4 DEF FromSaid, Said, Nothing
    <3>6. SeenWasSaid => SeenWasSaid'
      BY <3>1 DEF SeenWasSaid, UpMeansStarted, Said
    <3> QED
      BY <3>1, <3>4, <3>5, <3>6 DEF Nothing
  <2>4. CASE UNCHANGED vars
    <3>1. UNCHANGED <<pc, nvFailed, initDone, devState, queue, handling, early, indicated,
                      gaveUp>>
      BY <2>4 DEF vars, appVars, callbackVars, netVars
    <3> QED
      BY <3>1 DEF FromSaid, SeenWasSaid, UpMeansStarted, Said
  <2> QED
    BY <2>1, <2>2, <2>3, <2>4, StartSaid, ZnpSaid DEF Next
<1>3. TypeOK /\ StartInv => UpMeansStarted
  BY DEF StartInv, SeenWasSaid, UpMeansStarted
<1> QED
  BY <1>1, <1>2, <1>3, TypeCorrect, PTL DEF Spec

----------------------------------------------------------------------------
\* What a pass is counted for.

\* An empty slot has counted nothing, and the slots before one that is filled, or is being
\* filled, are filled.
EmptyClean == \A i \in Slot : testNodes[i].nodeAddr = NoNode => testNodes[i].passCnt = 0

NoGaps == \A i, j \in Slot : i < j /\ testNodes[j].nodeAddr # NoNode
                               => testNodes[i].nodeAddr # NoNode

NoGapsBefore == \A t \in Thread : handling[t].kind = "annce" /\ step[t] # "enter"
                    => \A i \in Slot : i < found[t] => testNodes[i].nodeAddr # NoNode

\* The next visit of slot i will count a pass as things are.
Promised(i) ==
    IF idx = i /\ pc \in {"resetTx", "resetRx"} THEN FALSE
    ELSE IF idx = i /\ pc = "advance"
    THEN (testNodes[i].txSeqNum + 1) % SeqNums = testNodes[i].rxSeqNum
    ELSE testNodes[i].txSeqNum = testNodes[i].rxSeqNum

\* No pass is promised that was not heard of.
Credit == \A i \in Slot : Promised(i) => heard[i]

HalfReset == pc = "resetRx" => testNodes[idx].txSeqNum = 0

\* Of two entries of a node the second is not heard of again after its first visit.
SecondUnheard == \A i, j \in Slot :
    /\ i < j /\ testNodes[i].nodeAddr # NoNode
    /\ testNodes[i].nodeAddr = testNodes[j].nodeAddr
    /\ ~overwritten[i] /\ ~overwritten[j]
    => testNodes[j].passCnt = 0 \/ (testNodes[j].passCnt = 1 /\ ~heard[j])

CountInv == EmptyClean /\ NoGaps /\ NoGapsBefore /\ Credit /\ HalfReset /\ SecondUnheard

\* Steps that leave the nodes alone and are not within a visit of one.
NoNewSearch == \A t \in Thread : handling'[t].kind = "annce" /\ step'[t] # "enter"
                   => handling[t].kind = "annce" /\ step[t] # "enter" /\ found'[t] = found[t]

Visits == {"resetTx", "resetRx", "advance"}

\* A step that leaves the nodes alone and begins no search keeps the count.
LEMMA Quiet ==
    ASSUME CountInv, UNCHANGED nodeVars, NoNewSearch,
           UNCHANGED <<pc, idx>> \/ (pc \notin Visits /\ pc' \notin Visits)
    PROVE  CountInv'
<1> USE DEF CountInv, nodeVars
<1>1. EmptyClean' /\ NoGaps' /\ SecondUnheard'
  BY DEF EmptyClean, NoGaps, SecondUnheard
<1>2. NoGapsBefore'
  BY DEF NoGapsBefore, NoNewSearch
<1>3. Credit'
  BY DEF Credit, Promised, Visits
<1>4. HalfReset'
  BY DEF HalfReset, Visits
<1> QED
  BY <1>1, <1>2, <1>3, <1>4

\* Fetching a message begins no search.
LEMMA FetchSearch ==
    ASSUME QueueTypeOK, NEW t \in Thread, Fetch(t) \/ TimesOut \/ Request \/ NoCallback
    PROVE  NoNewSearch
<1>1. ASSUME NEW u \in Thread, Take(u) PROVE NoNewSearch
  BY <1>1 DEF Take, QueueTypeOK, NoNewSearch
<1> QED
  BY <1>1 DEF Fetch, TimesOut, Request, NoCallback, callbackVars, NoNewSearch

\* A callback that returns begins none either.
LEMMA ReturnSearch ==
    ASSUME QueueTypeOK, NEW t \in Thread, Return(t)
    PROVE  NoNewSearch
BY DEF Return, QueueTypeOK, Nothing, NoNewSearch

\* The statements of a visit.
LEMMA VisitCounts ==
    ASSUME TypeOK, CountInv, Compare \/ ResetTx \/ ResetRx \/ Advance
    PROVE  CountInv'
<1> USE DEF CountInv, TypeOK
<1>1. idx \in Slot /\ idx' = idx /\ UNCHANGED <<overwritten, callbackVars>>
  BY DEF Compare, ResetTx, ResetRx, Advance, OnlyTests, NoCallback, AppTypeOK
<1>2. testNodes[idx].nodeAddr # NoNode
  BY DEF Compare, ResetTx, ResetRx, Advance, AppAt, VisitsNode
<1>3. \A i \in Slot : /\ testNodes'[i].nodeAddr = testNodes[i].nodeAddr
                      /\ i # idx => testNodes'[i] = testNodes[i] /\ heard'[i] = heard[i]
  <2>1. CASE Compare
    <3>1. heard' = [heard EXCEPT ![idx] = FALSE]
      BY <2>1 DEF Compare
    <3>2. \A i \in Slot : i # idx => heard'[i] = heard[i]
      BY <3>1 DEF NodesTypeOK
    <3>3. \A i \in Slot : /\ testNodes'[i].nodeAddr = testNodes[i].nodeAddr
                          /\ i # idx => testNodes'[i] = testNodes[i]
      BY <1>1, <2>1, ZenonT(60) DEF Compare, NodesTypeOK
    <3> QED
      BY <3>2, <3>3
  <2>2. CASE ResetTx
    BY <1>1, <2>2 DEF ResetTx, NodesTypeOK
  <2>3. CASE ResetRx
    BY <1>1, <2>3 DEF ResetRx, NodesTypeOK
  <2>4. CASE Advance
    BY <1>1, <2>4 DEF Advance, NodesTypeOK
  <2> QED
    BY <2>1, <2>2, <2>3, <2>4
<1>4. EmptyClean' /\ NoGaps' /\ NoGapsBefore'
  <2>1. EmptyClean'
    BY <1>1, <1>2, <1>3 DEF EmptyClean
  <2>2. NoGaps'
    BY <1>3 DEF NoGaps
  <2>3. NoGapsBefore'
    BY <1>1, <1>3 DEF callbackVars, NoGapsBefore
  <2> QED
    BY <2>1, <2>2, <2>3
<1>5. /\ testNodes[idx].txSeqNum \in Nat /\ testNodes[idx].rxSeqNum \in Nat
      /\ testNodes[idx].passCnt \in Nat /\ heard[idx] \in BOOLEAN
      /\ testNodes[idx].txSeqNum < SeqNums
  BY <1>1, SeqNumsWrap DEF NodesTypeOK, SeqNum
<1>6. /\ Promised(idx)' => heard'[idx]
      /\ HalfReset'
      /\ \/ testNodes'[idx].passCnt = testNodes[idx].passCnt
            /\ (heard'[idx] => heard[idx])
         \/ testNodes'[idx].passCnt = testNodes[idx].passCnt + 1
            /\ heard[idx] /\ ~heard'[idx]
  <2>1. CASE Compare
    <3>1. pc = "compare" /\ ~heard'[idx]
      BY <1>1, <2>1 DEF Compare, AppAt, NodesTypeOK
    <3>2. CASE testNodes[idx].txSeqNum # testNodes[idx].rxSeqNum
      BY <1>1, <1>5, <2>1, <3>1, <3>2 DEF Compare, Promised, HalfReset
    <3>3. CASE testNodes[idx].txSeqNum = testNodes[idx].rxSeqNum
      <4>1. (testNodes[idx].txSeqNum + 1) % SeqNums # testNodes[idx].rxSeqNum
        BY <1>5, <3>3, SeqNumsWrap
      <4>2. /\ pc' = "advance"
            /\ testNodes'[idx] = [testNodes[idx] EXCEPT !.passCnt = @ + 1]
        BY <1>1, <2>1, <3>3 DEF Compare, NodesTypeOK
      <4>3. heard[idx]
        BY <1>1, <3>1, <3>3 DEF Credit, Promised
      <4>4. /\ testNodes'[idx].passCnt = testNodes[idx].passCnt + 1
            /\ testNodes'[idx].txSeqNum = testNodes[idx].txSeqNum
            /\ testNodes'[idx].rxSeqNum = testNodes[idx].rxSeqNum
        BY <1>1, <4>2 DEF NodesTypeOK
      <4>5. ~Promised(idx)'
        BY <1>1, <4>1, <4>2, <4>4 DEF Promised
      <4> QED
        BY <3>1, <4>2, <4>3, <4>4, <4>5 DEF HalfReset
    <3> QED
      BY <3>2, <3>3
  <2>2. CASE ResetTx
    <3>1. /\ pc = "resetTx" /\ pc' = "resetRx" /\ heard' = heard
          /\ testNodes'[idx] = [testNodes[idx] EXCEPT !.txSeqNum = 0]
      BY <1>1, <2>2 DEF ResetTx, AppAt, NodesTypeOK
    <3>2. testNodes'[idx].txSeqNum = 0 /\ testNodes'[idx].passCnt = testNodes[idx].passCnt
      BY <1>1, <3>1 DEF NodesTypeOK
    <3> QED
      BY <1>1, <3>1, <3>2 DEF Promised, HalfReset
  <2>3. CASE ResetRx
    <3>1. /\ pc = "resetRx" /\ pc' = "advance" /\ heard' = heard
          /\ testNodes'[idx] = [testNodes[idx] EXCEPT !.rxSeqNum = 0]
      BY <1>1, <2>3 DEF ResetRx, AppAt, NodesTypeOK
    <3>2. /\ testNodes'[idx].txSeqNum = 0 /\ testNodes'[idx].rxSeqNum = 0
          /\ testNodes'[idx].passCnt = testNodes[idx].passCnt
      BY <1>1, <3>1 DEF NodesTypeOK, HalfReset
    <3>3. (0 + 1) % SeqNums # 0
      BY SeqNumsWrap
    <3> QED
      BY <1>1, <3>1, <3>2, <3>3 DEF Promised, HalfReset
  <2>4. CASE Advance
    <3>1. /\ pc = "advance" /\ pc' = "send" /\ heard' = heard
          /\ testNodes'[idx] = [testNodes[idx] EXCEPT !.txSeqNum = (@ + 1) % SeqNums]
      BY <1>1, <2>4 DEF Advance, AppAt, NodesTypeOK
    <3>2. /\ testNodes'[idx].txSeqNum = (testNodes[idx].txSeqNum + 1) % SeqNums
          /\ testNodes'[idx].rxSeqNum = testNodes[idx].rxSeqNum
          /\ testNodes'[idx].passCnt = testNodes[idx].passCnt
      BY <1>1, <3>1 DEF NodesTypeOK
    <3>3. Promised(idx)' <=> Promised(idx)
      BY <1>1, <3>1, <3>2 DEF Promised
    <3> QED
      BY <1>1, <3>1, <3>2, <3>3 DEF Credit, HalfReset
  <2> QED
    BY <2>1, <2>2, <2>3, <2>4
<1>7. Credit'
  <2> SUFFICES ASSUME NEW i \in Slot, Promised(i)' PROVE heard'[i]
    BY DEF Credit
  <2>1. CASE i # idx
    <3>1. Promised(i)
      BY <1>1, <1>3, <2>1 DEF Promised
    <3> QED
      BY <1>3, <2>1, <3>1 DEF Credit
  <2>2. CASE i = idx
    BY <1>1, <1>6, <2>2 DEF Promised
  <2> QED
    BY <2>1, <2>2
<1>8. SecondUnheard'
  <2> SUFFICES ASSUME NEW i \in Slot, NEW j \in Slot, i < j,
                      testNodes[i].nodeAddr # NoNode,
                      testNodes[i].nodeAddr = testNodes[j].nodeAddr,
                      ~overwritten[i], ~overwritten[j]
               PROVE  \/ testNodes'[j].passCnt = 0
                      \/ testNodes'[j].passCnt = 1 /\ ~heard'[j]
    BY <1>1, <1>3 DEF SecondUnheard
  <2>1. testNodes[j].passCnt = 0 \/ (testNodes[j].passCnt = 1 /\ ~heard[j])
    BY DEF SecondUnheard
  <2>2. CASE j # idx
    BY <1>3, <2>1, <2>2
  <2>3. CASE j = idx
    BY <1>6, <2>1, <2>3
  <2> QED
    BY <2>2, <2>3
<1> QED
  BY <1>4, <1>6, <1>7, <1>8

\* An echo.
LEMMA EchoCounts ==
    ASSUME TypeOK, CountInv, NEW t \in Thread, IncomingMsgCb(t)
    PROVE  CountInv'
<1> USE DEF CountInv, TypeOK
<1> DEFINE own == {i \in Slot : testNodes[i].nodeAddr = handling[t].node}
           first == First(own)
<1>1. Return(t) /\ UNCHANGED <<appVars, overwritten>> /\ NoNewSearch
  BY ReturnSearch DEF IncomingMsgCb, OnlyCallback
<1>2. CASE own = {}
  BY <1>1, <1>2, Quiet DEF IncomingMsgCb, nodeVars, appVars
<1>3. CASE own # {}
  <2>1. /\ first \in Slot /\ testNodes[first].nodeAddr = handling[t].node
        /\ \A i \in own : first <= i
    BY <1>3, FirstIsLeast
  <2> HIDE DEF first
  <2>2. /\ testNodes' = [testNodes EXCEPT ![first].rxSeqNum = handling[t].seq]
        /\ heard' = [heard EXCEPT ![first] = TRUE]
    BY <1>3 DEF IncomingMsgCb, first
  <2>3. handling[t].node \in Node
    BY DEF IncomingMsgCb, QueueTypeOK, Indication, ResetInd, Nothing
  <2>4. testNodes[first].nodeAddr # NoNode
    BY <2>1, <2>3, NoNodeIsNone
  <2>5. \A i \in Slot :
          /\ testNodes'[i].nodeAddr = testNodes[i].nodeAddr
          /\ testNodes'[i].passCnt = testNodes[i].passCnt
          /\ testNodes'[i].txSeqNum = testNodes[i].txSeqNum
          /\ i # first => testNodes'[i] = testNodes[i]
    BY <2>1, <2>2 DEF NodesTypeOK
  <2>6. /\ heard'[first]
        /\ \A i \in Slot : i # first => heard'[i] = heard[i]
    BY <2>1, <2>2 DEF NodesTypeOK
  <2>7. EmptyClean'
    BY <2>4, <2>5 DEF EmptyClean
  <2>8. NoGaps'
    BY <2>5 DEF NoGaps
  <2>9. NoGapsBefore'
    BY <1>1, <2>5 DEF NoGapsBefore, NoNewSearch
  <2>10. HalfReset'
    BY <1>1, <2>5 DEF HalfReset, appVars, AppTypeOK
  <2>11. SecondUnheard'
    <3> SUFFICES ASSUME NEW i \in Slot, NEW j \in Slot, i < j,
                        testNodes[i].nodeAddr # NoNode,
                        testNodes[i].nodeAddr = testNodes[j].nodeAddr,
                        ~overwritten[i], ~overwritten[j]
                 PROVE  \/ testNodes'[j].passCnt = 0
                        \/ testNodes'[j].passCnt = 1 /\ ~heard'[j]
      BY <1>1, <2>5 DEF SecondUnheard
    <3>1. testNodes[j].passCnt = 0 \/ (testNodes[j].passCnt = 1 /\ ~heard[j])
      BY DEF SecondUnheard
    <3>2. j # first
      <4> SUFFICES ASSUME j = first PROVE FALSE
        OBVIOUS
      <4>1. i \in own
        BY <2>1
      <4> QED
        BY <2>1, <4>1
    <3> QED
      BY <2>5, <2>6, <3>1, <3>2
  <2>12. Credit'
    <3> SUFFICES ASSUME NEW i \in Slot, i # first, Promised(i)' PROVE heard'[i]
      BY <2>6 DEF Credit
    <3>1. Promised(i)
      BY <1>1, <2>5 DEF Promised, appVars
    <3> QED
      BY <2>6, <3>1 DEF Credit
  <2> QED
    BY <2>7, <2>8, <2>9, <2>10, <2>11, <2>12
<1> QED
  BY <1>2, <1>3

\* A store of an announcement.
LEMMA StoreCounts ==
    ASSUME TypeOK, CountInv, NEW t \in Thread,
           StoreTx(t) \/ StoreRx(t) \/ StoreAddr(t)
    PROVE  CountInv'
<1> USE DEF CountInv, TypeOK
<1> DEFINE at == found[t]
<1>1. /\ at \in Slot /\ handling[t].kind = "annce" /\ step[t] # "enter"
      /\ handling[t].node \in Node
      /\ UNCHANGED appVars
  BY DEF StoreTx, StoreRx, StoreAddr, Store, OnlyCallback, QueueTypeOK, Indication, ResetInd,
     Nothing
<1>2. NoNewSearch
  <2>1. CASE Return(t)
    BY <2>1, ReturnSearch
  <2>2. CASE UNCHANGED <<handling, found>> /\ \E next \in {"rx", "addr"} :
                                                step' = [step EXCEPT ![t] = next]
    BY <1>1, <2>2 DEF QueueTypeOK, NoNewSearch
  <2> QED
    BY <2>1, <2>2 DEF StoreTx, StoreRx, StoreAddr, Store
<1>3. /\ overwritten' = [overwritten EXCEPT ![at] = @ \/ testNodes[at].nodeAddr # NoNode]
      /\ heard' = [heard EXCEPT ![at] = TRUE]
  BY DEF StoreTx, StoreRx, StoreAddr, Store
<1>4. \A i \in Slot : i # at => /\ testNodes'[i] = testNodes[i]
                                /\ overwritten'[i] = overwritten[i]
                                /\ heard'[i] = heard[i]
  BY <1>3 DEF StoreTx, StoreRx, StoreAddr, Store, NodesTypeOK
<1>5. /\ testNodes'[at].passCnt = testNodes[at].passCnt
      /\ testNodes'[at].nodeAddr # NoNode \/ testNodes'[at].nodeAddr = testNodes[at].nodeAddr
      /\ testNodes[at].nodeAddr # NoNode => testNodes'[at].nodeAddr # NoNode
      /\ testNodes'[at].txSeqNum = testNodes[at].txSeqNum \/ testNodes'[at].txSeqNum = 0
  <2>1. CASE StoreTx(t)
    BY <1>1, <2>1 DEF StoreTx, Store, NodesTypeOK
  <2>2. CASE StoreRx(t)
    BY <1>1, <2>2 DEF StoreRx, Store, NodesTypeOK
  <2>3. CASE StoreAddr(t)
    BY <1>1, <2>3, NoNodeIsNone DEF StoreAddr, Store, NodesTypeOK
  <2> QED
    BY <2>1, <2>2, <2>3
<1>6. \A i \in Slot : testNodes[i].nodeAddr # NoNode => testNodes'[i].nodeAddr # NoNode
  BY <1>4, <1>5
<1>7. \A i \in Slot : i < at => testNodes[i].nodeAddr # NoNode
  BY <1>1 DEF NoGapsBefore
<1>8. heard'[at] /\ (testNodes[at].nodeAddr # NoNode => overwritten'[at])
  BY <1>1, <1>3 DEF NodesTypeOK
<1>9. EmptyClean'
  BY <1>1, <1>4, <1>5, <1>6 DEF EmptyClean
<1>10. NoGaps'
  BY <1>1, <1>4, <1>6, <1>7 DEF NoGaps
<1>11. NoGapsBefore'
  BY <1>2, <1>6 DEF NoGapsBefore, NoNewSearch
<1>12. HalfReset'
  BY <1>1, <1>4, <1>5 DEF HalfReset, appVars, AppTypeOK
<1>13. SecondUnheard'
  <2> SUFFICES ASSUME NEW i \in Slot, NEW j \in Slot, i < j,
                      testNodes'[i].nodeAddr # NoNode,
                      testNodes'[i].nodeAddr = testNodes'[j].nodeAddr,
                      ~overwritten'[i], ~overwritten'[j]
               PROVE  \/ testNodes'[j].passCnt = 0
                      \/ testNodes'[j].passCnt = 1 /\ ~heard'[j]
    BY DEF SecondUnheard
  <2>1. CASE i # at /\ j # at
    BY <1>4, <2>1 DEF SecondUnheard
  <2>2. CASE i = at
    <3>1. testNodes[at].nodeAddr = NoNode
      BY <1>8, <2>2
    <3>2. testNodes[j].nodeAddr = testNodes'[j].nodeAddr
      BY <1>4, <2>2
    <3> QED
      BY <2>2, <3>1, <3>2 DEF NoGaps
  <2>3. CASE j = at
    <3>1. testNodes[at].nodeAddr = NoNode
      BY <1>8, <2>3
    <3> QED
      BY <1>1, <1>5, <2>3, <3>1 DEF EmptyClean
  <2> QED
    BY <2>1, <2>2, <2>3
<1>14. Credit'
  <2> SUFFICES ASSUME NEW i \in Slot, i # at, Promised(i)' PROVE heard'[i]
    BY <1>8 DEF Credit
  <2>1. Promised(i)
    BY <1>1, <1>4 DEF Promised, appVars
  <2> QED
    BY <1>4, <2>1 DEF Credit
<1> QED
  BY <1>9, <1>10, <1>11, <1>12, <1>13, <1>14

\* Empty slots are clean, the list has no gaps and the passes have their echoes at all times.
LEMMA CountInvHolds == Spec => []CountInv
<1>1. Init => CountInv
  <2> SUFFICES ASSUME Init PROVE CountInv
    OBVIOUS
  <2>1. EmptyClean /\ NoGaps /\ NoGapsBefore /\ HalfReset /\ SecondUnheard
    BY DEF Init, Nothing, EmptyClean, NoGaps, NoGapsBefore, HalfReset, SecondUnheard
  <2>2. Credit
    BY DEF Init, Credit
  <2> QED
    BY <2>1, <2>2 DEF CountInv
<1>2. TypeOK /\ CountInv /\ [Next]_vars => CountInv'
  <2> SUFFICES ASSUME TypeOK, CountInv, [Next]_vars PROVE CountInv'
    OBVIOUS
  <2> USE DEF TypeOK
  <2>1. CASE Start
    <3>1. UNCHANGED nodeVars /\ pc \notin Visits /\ pc' \notin Visits
      <4>1. CASE Flush \/ Flushed \/ SetNVStartup \/ SysResetReq \/ FlushRsp \/ WriteConfig
        BY <4>1 DEF Flush, Flushed, SetNVStartup, SysResetReq, FlushRsp, WriteConfig,
           SetNVDevType, SetNVPanID, SetNVChanList, Configure, AppAt, OnlyStarts, Visits
      <4>2. CASE RegisterAf \/ ZdoInit \/ Starting \/ StartingEnds \/ Started \/ Check
                 \/ GetExtAddr \/ WriteDirectCb \/ InitDone
        BY <4>2 DEF RegisterAf, ZdoInit, Starting, StartingEnds, Started, Check, GetExtAddr,
           WriteDirectCb, InitDone, AppAt, OnlyStarts, Visits
      <4> QED
        BY <2>1, <4>1, <4>2 DEF Start
    <3>2. Fetch("app") \/ TimesOut \/ Request \/ NoCallback
      BY <2>1 DEF Start, Flush, Flushed, SetNVStartup, SysResetReq, FlushRsp, WriteConfig,
         SetNVDevType, SetNVPanID, SetNVChanList, Configure, RegisterAf, ZdoInit,
         Starting, StartingEnds, Started, Check, GetExtAddr, WriteDirectCb, InitDone
    <3> QED
      BY <3>1, <3>2, FetchSearch, Quiet
  <2>2. CASE Look \/ Send \/ Wait
    <3>1. UNCHANGED nodeVars /\ pc \notin Visits /\ pc' \notin Visits
      BY <2>2 DEF Look, Send, Wait, AppAt, OnlyTests, nodeVars, Visits
    <3>2. Fetch("app") \/ TimesOut \/ NoCallback
      BY <2>2 DEF Look, Send, Wait, OnlyTests
    <3> QED
      BY <3>1, <3>2, FetchSearch, Quiet
  <2>3. CASE Compare \/ ResetTx \/ ResetRx \/ Advance
    BY <2>3, VisitCounts
  <2>4. CASE MsgWait
    BY <2>4, FetchSearch, Quiet DEF MsgWait, appVars
  <2>5. ASSUME NEW t \in Thread, StateChangeCb(t) \/ ResetIndCb(t) PROVE CountInv'
    BY <2>5, ReturnSearch, Quiet DEF StateChangeCb, ResetIndCb, OnlyCallback, appVars, nodeVars
  <2>6. ASSUME NEW t \in Thread, FindSlot(t) PROVE CountInv'
    <3> DEFINE empty == {i \in Slot : testNodes[i].nodeAddr = NoNode}
    <3>1. UNCHANGED <<appVars, nodeVars>>
      BY <2>6 DEF FindSlot, OnlyCallback
    <3>2. CASE empty = {}
      BY <2>6, <3>1, <3>2, ReturnSearch, Quiet DEF FindSlot, appVars
    <3>3. CASE empty # {}
      <4> DEFINE first == First(empty)
      <4>1. /\ first \in Slot /\ testNodes[first].nodeAddr = NoNode
            /\ \A i \in empty : first <= i
        BY <3>3, FirstIsLeast
      <4> HIDE DEF first
      <4>2. found' = [found EXCEPT ![t] = first] /\ step' = [step EXCEPT ![t] = "tx"]
            /\ UNCHANGED handling
        BY <2>6, <3>3 DEF FindSlot, first
      <4>3. \A i \in Slot : i < first => testNodes[i].nodeAddr # NoNode
        <5> SUFFICES ASSUME NEW i \in Slot, i < first, testNodes[i].nodeAddr = NoNode
                     PROVE  FALSE
          OBVIOUS
        <5>1. first <= i
          BY <4>1
        <5> QED
          BY <4>1, <5>1
      <4>4. NoGapsBefore'
        BY <3>1, <4>2, <4>3 DEF CountInv, nodeVars, NoGapsBefore, QueueTypeOK
      <4>5. Credit'
        BY <3>1 DEF CountInv, appVars, nodeVars, Credit, Promised
      <4> QED
        BY <3>1, <4>4, <4>5 DEF CountInv, appVars, nodeVars, EmptyClean, NoGaps, HalfReset,
           SecondUnheard
    <3> QED
      BY <3>2, <3>3
  <2>7. ASSUME NEW t \in Thread, Callback(t) PROVE CountInv'
    BY <2>5, <2>6, <2>7, EchoCounts, StoreCounts DEF Callback
  <2>8. CASE Znp
    <3>1. UNCHANGED <<appVars, nodeVars, callbackVars>>
      BY <2>8 DEF Znp, ZnpResets, IndicateState, Announce, EchoBack, Deliver, OnlyZnp
    <3> QED
      BY <3>1, Quiet DEF appVars, callbackVars, NoNewSearch
  <2>9. CASE UNCHANGED vars
    BY <2>9, Quiet DEF vars, appVars, callbackVars, NoNewSearch
  <2> QED
    BY <2>1, <2>2, <2>3, <2>4, <2>7, <2>8, <2>9 DEF Next, Test
<1> QED
  BY <1>1, <1>2, TypeCorrect, PTL DEF Spec

\* No pass is counted that nothing was heard for since the visit before, however the
\* callbacks come between the statements of a visit (stressTest.c 690-716): while nothing is
\* heard, no visit to come is promised a pass.
THEOREM PassesEchoedHolds == Spec => PassesEchoed
<1> DEFINE Passes == \A i \in Slot : testNodes'[i].passCnt # testNodes[i].passCnt => heard[i]
<1>1. TypeOK /\ CountInv /\ [Next]_vars => [Passes]_vars
  <2> SUFFICES ASSUME TypeOK, CountInv, Next, NEW i \in Slot,
                      testNodes'[i].passCnt # testNodes[i].passCnt
               PROVE  heard[i]
    OBVIOUS
  <2> USE DEF TypeOK
  <2>1. ASSUME testNodes' = testNodes PROVE heard[i]
    BY <2>1
  <2>2. ASSUME NEW j, NEW v, \/ testNodes' = [testNodes EXCEPT ![j].txSeqNum = v]
                             \/ testNodes' = [testNodes EXCEPT ![j].rxSeqNum = v]
                             \/ testNodes' = [testNodes EXCEPT ![j].nodeAddr = v]
        PROVE  FALSE
    <3>1. testNodes \in [Slot -> [nodeAddr : Node \union {NoNode}, txSeqNum : SeqNum,
                                  rxSeqNum : SeqNum, passCnt : Nat]]
      BY DEF NodesTypeOK
    <3>2. \/ testNodes'[i] = testNodes[i]
          \/ testNodes'[i] = [testNodes[i] EXCEPT !.txSeqNum = v]
          \/ testNodes'[i] = [testNodes[i] EXCEPT !.rxSeqNum = v]
          \/ testNodes'[i] = [testNodes[i] EXCEPT !.nodeAddr = v]
      BY <2>2, <3>1
    <3> QED
      BY <3>1, <3>2
  <2>3. CASE Compare
    <3>1. idx \in Slot
      BY DEF AppTypeOK
    <3>2. pc = "compare"
      BY <2>3 DEF Compare, AppAt
    <3>3. /\ testNodes[idx].txSeqNum = testNodes[idx].rxSeqNum
          /\ testNodes' = [testNodes EXCEPT ![idx].passCnt = @ + 1]
      BY <2>1, <2>3 DEF Compare
    <3>4. i = idx
      BY <3>1, <3>3 DEF NodesTypeOK
    <3> QED
      BY <3>2, <3>3, <3>4 DEF CountInv, Credit, Promised
  <2>4. CASE ResetTx \/ ResetRx \/ Advance
    BY <2>4, <2>2, Zenon DEF ResetTx, ResetRx, Advance
  <2>5. CASE Start \/ Look \/ Send \/ Wait \/ MsgWait \/ Znp
    <3>1. testNodes' = testNodes
      BY <2>5 DEF Start, Flush, Flushed, SetNVStartup, SysResetReq, FlushRsp, WriteConfig,
         SetNVDevType, SetNVPanID, SetNVChanList, Configure, RegisterAf, ZdoInit, Starting,
         StartingEnds, Started, Check, GetExtAddr, WriteDirectCb, InitDone, OnlyStarts,
         Look, Send, Wait, MsgWait, OnlyTests, Znp, ZnpResets, IndicateState, Announce,
         EchoBack, Deliver, OnlyZnp, nodeVars
    <3> QED
      BY <2>1, <3>1
  <2>6. ASSUME NEW t \in Thread, Callback(t) PROVE heard[i]
    <3>1. CASE StateChangeCb(t) \/ ResetIndCb(t) \/ FindSlot(t)
      BY <2>1, <3>1 DEF StateChangeCb, ResetIndCb, FindSlot, nodeVars
    <3>2. CASE IncomingMsgCb(t)
      <4>1. \/ testNodes' = testNodes
            \/ \E j : testNodes' = [testNodes EXCEPT ![j].rxSeqNum = handling[t].seq]
        BY <3>2 DEF IncomingMsgCb
      <4> QED
        BY <2>1, <2>2, <4>1
    <3>3. CASE StoreTx(t)
      <4>1. testNodes' = [testNodes EXCEPT ![found[t]].txSeqNum = 0]
        BY <3>3 DEF StoreTx, Store
      <4> QED
        BY <2>2, <4>1
    <3>4. CASE StoreRx(t)
      <4>1. testNodes' = [testNodes EXCEPT ![found[t]].rxSeqNum = 0]
        BY <3>4 DEF StoreRx, Store
      <4> QED
        BY <2>2, <4>1
    <3>5. CASE StoreAddr(t)
      <4>1. testNodes' = [testNodes EXCEPT ![found[t]].nodeAddr = handling[t].node]
        BY <3>5 DEF StoreAddr, Store
      <4> QED
        BY <2>2, <4>1
    <3> QED
      BY <2>6, <3>1, <3>2, <3>3, <3>4, <3>5 DEF Callback
  <2> QED
    BY <2>3, <2>4, <2>5, <2>6 DEF Next, Test
<1>2. Spec => [][Passes]_vars
  BY <1>1, TypeCorrect, CountInvHolds, PTL DEF Spec
<1> QED
  BY <1>2 DEF PassesEchoed

\* The second entry of a node that joined twice gets none of its echoes: the slots are
\* filled from the first and searched from the first (stressTest.c 267-278, 310-320).
THEOREM SecondEntryStarvesHolds == Spec => []SecondEntryStarves
<1>1. TypeOK /\ CountInv => SecondEntryStarves
  BY DEF CountInv, SecondUnheard, SecondEntryStarves, TypeOK, NodesTypeOK
<1> QED
  BY <1>1, TypeCorrect, CountInvHolds, PTL
=============================================================================

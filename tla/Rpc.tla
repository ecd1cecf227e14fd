-------------------------------- MODULE Rpc --------------------------------
(***************************************************************************)
(* framework/rpc/rpc.c with the part of framework/mt that drives it: the   *)
(* application threads that send a request and then fetch one message, the *)
(* thread that turns received frames into semaphore posts and queue        *)
(* elements, and the ZNP at the other end of the serial line.              *)
(*                                                                         *)
(* A request is one call of an MT function: rpcSendFrame, then, if that    *)
(* succeeds, rpcWaitMqClientMsg(50), which hands ONE message, whichever it *)
(* is, to mtProcess; a request of a subsystem in StatusSub (ZDO) then      *)
(* takes its result from srspRpcBuff, which the last SRSP processed by any *)
(* thread has filled.  A callback that mtProcess runs may itself issue     *)
(* requests.                                                               *)
(*                                                                         *)
(* Frames are records; the id of an SRSP is that of the request it answers *)
(* and is not on the wire: the code tells SRSPs apart by subsystem alone.  *)
(***************************************************************************)
EXTENDS PrioQueue, SequenceLemmas

CONSTANTS App,         \* application threads
          Getters,     \* those that also call rpcGetMqClientMsg
          Rx,          \* the thread that loops over rpcProcess
          Sub,         \* MT subsystems
          StatusSub,   \* subsystems whose requests return srspRpcBuff[2]
          NoSub,       \* expectedSrspCmdId 0xFF: no request is waiting
          ZeroSub,     \* subsystem 0, which no MT function sends to
          NoReq,
          WarningsPrinted,   \* PRINT_LEVEL >= PRINT_LEVEL_WARNING
          MaxReq,      \* bound: requests issued in a behaviour
          MaxAreq,     \* bound: AREQs the ZNP emits
          MaxTimeout,  \* bound: SRSP waits that time out
          MaxLoss      \* bound: frames the serial line loses

ASSUME ThreadsDistinct == IsFiniteSet(App) /\ Rx \notin App /\ Getters \subseteq App
ASSUME SubsDistinct == NoSub \notin Sub /\ ZeroSub \notin Sub /\ StatusSub \subseteq Sub
ASSUME PrintLevel == WarningsPrinted \in BOOLEAN
ASSUME BoundsNatural == {MaxReq, MaxAreq, MaxTimeout, MaxLoss} \subseteq Nat

Id == 1..(MaxReq + MaxAreq)
Frame == [type : {"SRSP", "AREQ"}, sub : Sub, id : Id]
Request == [type : {"SREQ", "AREQ"}, sub : Sub, id : Id]

\* rpcLlq is a PrioQueue of frames between these threads.
ASSUME QueueUsers == Thread = App \cup {Rx}
ASSUME QueueElements == Message = Frame
ASSUME NoReqDistinct == NoReq \notin Request

VARIABLES
    rpcSem, srspSem,         \* the two semaphores of rpc.c
    expected,                \* expectedSrspCmdId
    srspBuf,                 \* the SRSP in srspRpcBuff
    pc,                      \* where each application thread is
    req,                     \* the request it works on, NoReq while it only fetches
    status,                  \* what rpcSendFrame returned for it
    stack,                   \* the calls suspended while a callback runs
    rxpc, rxFrame,           \* the rpcProcess thread and the frame it holds
    toZnp, fromZnp,          \* the serial line
    requests, areqs, timeouts, losses,   \* how much of the bounds is used
    posted,                  \* history: the frame srspSem was last posted for
    dispatched               \* history: the AREQs handed to mtProcess, in order

semVars == <<rpcSem, srspSem, expected>>
appVars == <<pc, req, status, stack, srspBuf>>
rxVars == <<rxpc, rxFrame, posted>>
wireVars == <<toZnp, fromZnp>>
boundVars == <<requests, areqs, timeouts, losses>>
vars == <<qvars, semVars, appVars, rxVars, wireVars, boundVars, dispatched>>

\* rpcOpen, rpcInitMq
Init == /\ QInit
        /\ rpcSem = 1 /\ srspSem = 0
        /\ expected = ZeroSub       \* a static of C: 0, not 0xFF
        /\ srspBuf = Nothing
        /\ pc = [t \in App |-> "idle"]
        /\ req = [t \in App |-> NoReq]
        /\ status = [t \in App |-> "none"]
        /\ stack = [t \in App |-> <<>>]
        /\ rxpc = "read" /\ rxFrame = Nothing
        /\ toZnp = <<>> /\ fromZnp = <<>>
        /\ requests = 0 /\ areqs = 0 /\ timeouts = 0 /\ losses = 0
        /\ posted = Nothing
        /\ dispatched = <<>>

Goto(t, from, to) == pc[t] = from /\ pc' = [pc EXCEPT ![t] = to]

Synchronous(t) == req[t].type = "SREQ"
-----------------------------------------------------------------------------
(* An MT request function enters rpcSendFrame, from the application or     *)
(* from a callback that runs inside another call.                          *)

NewRequest(t) ==
    /\ requests < MaxReq
    /\ requests' = requests + 1
    /\ \E type \in {"SREQ", "AREQ"}, s \in Sub :
          req' = [req EXCEPT ![t] = [type |-> type, sub |-> s, id |-> requests + 1]]
    /\ status' = [status EXCEPT ![t] = "none"]
    /\ UNCHANGED <<qvars, semVars, srspBuf, rxVars, wireVars,
                   areqs, timeouts, losses, dispatched>>

Call(t) == /\ Goto(t, "idle", "acquire")
           /\ NewRequest(t)
           /\ UNCHANGED stack

NestedCall(t) ==
    /\ Goto(t, "callback", "acquire")
    /\ stack' = [stack EXCEPT ![t] = <<[req |-> req[t], status |-> status[t]]>> \o @]
    /\ NewRequest(t)

-----------------------------------------------------------------------------
(* rpcSendFrame                                                            *)

\* Fault: rpcSem is not waited for.
AcquireAtOnce(t) ==
    /\ Goto(t, "acquire", "expect")
    /\ rpcSem' = IF rpcSem > 0 THEN rpcSem - 1 ELSE 0
    /\ UNCHANGED <<qvars, srspSem, expected, req, status, stack, srspBuf, rxVars,
                   wireVars, boundVars, dispatched>>

Acquire(t) ==
    /\ Goto(t, "acquire", "expect")
    /\ rpcSem > 0
    /\ rpcSem' = rpcSem - 1
    /\ UNCHANGED <<qvars, srspSem, expected, req, status, stack, srspBuf, rxVars,
                   wireVars, boundVars, dispatched>>

\* Fault: the command type is not masked off.
SetExpectedUnmasked(t) ==
    /\ Goto(t, "expect", "write")
    /\ expected' = IF Synchronous(t) THEN <<req[t].type, req[t].sub>> ELSE expected
    /\ UNCHANGED <<qvars, rpcSem, srspSem, req, status, stack, srspBuf, rxVars,
                   wireVars, boundVars, dispatched>>

SetExpected(t) ==
    /\ Goto(t, "expect", "write")
    /\ expected' = IF Synchronous(t) THEN req[t].sub ELSE expected
    /\ UNCHANGED <<qvars, rpcSem, srspSem, req, status, stack, srspBuf, rxVars,
                   wireVars, boundVars, dispatched>>

\* An asynchronous request returns MT_RPC_SUCCESS at once.
Write(t) ==
    /\ Goto(t, "write", IF Synchronous(t) THEN "wait" ELSE "release")
    /\ toZnp' = Append(toZnp, req[t])
    /\ status' = IF Synchronous(t) THEN status ELSE [status EXCEPT ![t] = "success"]
    /\ UNCHANGED <<qvars, semVars, req, stack, srspBuf, rxVars,
                   fromZnp, boundVars, dispatched>>

\* Fault: the wait is granted without the semaphore.
SrspGrantedAtOnce(t) ==
    /\ Goto(t, "wait", "clear")
    /\ status' = [status EXCEPT ![t] = "success"]
    /\ UNCHANGED <<qvars, semVars, req, stack, srspBuf, rxVars,
                   wireVars, boundVars, dispatched>>

SrspGranted(t) ==
    /\ Goto(t, "wait", "clear")
    /\ srspSem > 0
    /\ srspSem' = srspSem - 1
    /\ status' = [status EXCEPT ![t] = "success"]
    /\ UNCHANGED <<qvars, rpcSem, expected, req, stack, srspBuf, rxVars,
                   wireVars, boundVars, dispatched>>

\* The deadline, one to two seconds away, has passed and the semaphore is still zero.
SrspTimeout(t) ==
    /\ Goto(t, "wait", "clear")
    /\ srspSem = 0
    /\ timeouts < MaxTimeout
    /\ timeouts' = timeouts + 1
    /\ status' = [status EXCEPT ![t] = "error"]
    /\ UNCHANGED <<qvars, semVars, req, stack, srspBuf, rxVars,
                   wireVars, requests, areqs, losses, dispatched>>

\* Fault: a request that succeeded leaves its subsystem behind.
ClearExpectedOnError(t) ==
    /\ Goto(t, "clear", "release")
    /\ expected' = IF status[t] = "error" THEN NoSub ELSE expected
    /\ UNCHANGED <<qvars, rpcSem, srspSem, req, status, stack, srspBuf, rxVars,
                   wireVars, boundVars, dispatched>>

ClearExpected(t) ==
    /\ Goto(t, "clear", "release")
    /\ expected' = NoSub
    /\ UNCHANGED <<qvars, rpcSem, srspSem, req, status, stack, srspBuf, rxVars,
                   wireVars, boundVars, dispatched>>

\* Fault: the error path leaves rpcSendFrame without the post.
ReleaseUnlessError(t) ==
    /\ Goto(t, "release", IF status[t] = "success" THEN "fetch" ELSE "return")
    /\ rpcSem' = IF status[t] = "success" THEN rpcSem + 1 ELSE rpcSem
    /\ UNCHANGED <<qvars, srspSem, expected, req, status, stack, srspBuf, rxVars,
                   wireVars, boundVars, dispatched>>

\* On success the MT function goes on to rpcWaitMqClientMsg(50).
Release(t) ==
    /\ Goto(t, "release", IF status[t] = "success" THEN "fetch" ELSE "return")
    /\ rpcSem' = rpcSem + 1
    /\ UNCHANGED <<qvars, srspSem, expected, req, status, stack, srspBuf, rxVars,
                   wireVars, boundVars, dispatched>>

-----------------------------------------------------------------------------
(* rpcWaitMqClientMsg, rpcGetMqClientMsg and mtProcess                     *)

\* appMsgProcess and the applications' wait loops, outside any request.
Poll(t) ==
    /\ Goto(t, "idle", "fetch")
    /\ UNCHANGED <<qvars, semVars, req, status, stack, srspBuf, rxVars,
                   wireVars, boundVars, dispatched>>

\* displayDevices: the same without a deadline.
Get(t) ==
    /\ t \in Getters
    /\ Goto(t, "idle", "get")
    /\ UNCHANGED <<qvars, semVars, req, status, stack, srspBuf, rxVars,
                   wireVars, boundVars, dispatched>>

Fetch(t) ==
    /\ pc[t] \in {"fetch", "get"}
    /\ Token(t)
    /\ pc' = [pc EXCEPT ![t] = "take"]
    /\ UNCHANGED <<semVars, req, status, stack, srspBuf, rxVars,
                   wireVars, boundVars, dispatched>>

\* 50 ms without a message; the caller ignores the -1.
FetchTimeout(t) ==
    /\ Goto(t, "fetch", "return")
    /\ TimedOut(t)
    /\ UNCHANGED <<semVars, req, status, stack, srspBuf, rxVars,
                   wireVars, boundVars, dispatched>>

Take(t) ==
    /\ Goto(t, "take", "dispatch")
    /\ Unlink(t)
    /\ UNCHANGED <<semVars, req, status, stack, srspBuf, rxVars,
                   wireVars, boundVars, dispatched>>

\* mtProcess: processSrsp fills srspRpcBuff; either type may run a callback.
\* (A buffer llq_receive has not filled is never dispatched, see NoEmptyReceive.)
Dispatch(t) ==
    /\ Goto(t, "dispatch", "callback")
    /\ srspBuf' = IF got[t].type = "SRSP" THEN got[t] ELSE srspBuf
    /\ dispatched' = IF got[t].type = "SRSP" THEN dispatched ELSE Append(dispatched, got[t])
    /\ UNCHANGED <<qvars, semVars, req, status, stack, rxVars,
                   wireVars, boundVars>>

CallbackReturns(t) ==
    /\ Goto(t, "callback", "return")
    /\ UNCHANGED <<qvars, semVars, req, status, stack, srspBuf, rxVars,
                   wireVars, boundVars, dispatched>>

\* The MT function returns to the application ...
ReturnToApp(t) ==
    /\ Goto(t, "return", "idle")
    /\ stack[t] = <<>>
    /\ req' = [req EXCEPT ![t] = NoReq]
    /\ status' = [status EXCEPT ![t] = "none"]
    /\ UNCHANGED <<qvars, semVars, stack, srspBuf, rxVars,
                   wireVars, boundVars, dispatched>>

\* ... or to the callback that called it, inside an earlier request.
ReturnToCallback(t) ==
    /\ Goto(t, "return", "callback")
    /\ stack[t] # <<>>
    /\ req' = [req EXCEPT ![t] = Head(stack[t]).req]
    /\ status' = [status EXCEPT ![t] = Head(stack[t]).status]
    /\ stack' = [stack EXCEPT ![t] = Tail(stack[t])]
    /\ UNCHANGED <<qvars, semVars, srspBuf, rxVars,
                   wireVars, boundVars, dispatched>>

AppNext(t) ==
    \/ Call(t) \/ NestedCall(t)
    \/ Acquire(t) \/ SetExpected(t) \/ Write(t)
    \/ SrspGranted(t) \/ SrspTimeout(t) \/ ClearExpected(t) \/ Release(t)
    \/ Poll(t) \/ Get(t) \/ Fetch(t) \/ FetchTimeout(t) \/ Take(t)
    \/ Dispatch(t) \/ CallbackReturns(t) \/ ReturnToApp(t) \/ ReturnToCallback(t)

-----------------------------------------------------------------------------
(* rpcProcess, from a frame whose FCS is right                             *)

\* The warning about an unexpected SRSP has two %s and no string for them: where
\* it is printed, vprintf follows the subsystem number as a pointer, which may
\* end the process.
Discarded == IF WarningsPrinted THEN {"read", "crashed"} ELSE {"read"}

\* The SRSP branch compares the subsystem with expectedSrspCmdId, unlocked.
RxFrame ==
    /\ rxpc = "read"
    /\ fromZnp # <<>>
    /\ LET f == Head(fromZnp) IN
          \/ /\ f.type = "SRSP" /\ expected = f.sub
             /\ rxpc' = "post" /\ rxFrame' = f
          \/ /\ f.type = "SRSP" /\ expected # f.sub
             /\ rxpc' \in Discarded /\ UNCHANGED rxFrame
          \/ /\ f.type = "AREQ"
             /\ rxpc' = "link" /\ rxFrame' = f
    /\ fromZnp' = Tail(fromZnp)
    /\ UNCHANGED <<qvars, semVars, appVars, toZnp, boundVars, posted, dispatched>>

\* sem_post(&srspSem) comes before llq_add.
RxPost ==
    /\ rxpc = "post"
    /\ srspSem' = srspSem + 1
    /\ posted' = rxFrame
    /\ rxpc' = "link"
    /\ UNCHANGED <<qvars, rpcSem, expected, appVars, rxFrame, wireVars, boundVars,
                   dispatched>>

\* Fault: the priorities are the wrong way round.
RxLinkSwapped ==
    /\ rxpc = "link"
    /\ Link(Rx, rxFrame, IF rxFrame.type = "SRSP" THEN 0 ELSE 1)
    /\ rxpc' = "signal"
    /\ UNCHANGED <<semVars, appVars, rxFrame, posted, wireVars, boundVars, dispatched>>

\* llq_add: an SRSP to the head of the queue, an AREQ to the tail.
RxLink ==
    /\ rxpc = "link"
    /\ Link(Rx, rxFrame, IF rxFrame.type = "SRSP" THEN 1 ELSE 0)
    /\ rxpc' = "signal"
    /\ UNCHANGED <<semVars, appVars, rxFrame, posted, wireVars, boundVars, dispatched>>

\* Fault: the element is linked a second time before the post.
RxSignalLinksAgain ==
    /\ rxpc = "signal"
    /\ items' = Append(items, rxFrame)
    /\ count' = count + 1
    /\ qpc' = [qpc EXCEPT ![Rx] = "out"]
    /\ rxpc' = "read" /\ rxFrame' = Nothing
    /\ UNCHANGED <<got, semVars, appVars, posted, wireVars, boundVars, dispatched>>

\* Fault: llq_add does not post the count.
RxSignalForgotten ==
    /\ rxpc = "signal"
    /\ qpc' = [qpc EXCEPT ![Rx] = "out"]
    /\ rxpc' = "read" /\ rxFrame' = Nothing
    /\ UNCHANGED <<items, count, got, semVars, appVars, posted, wireVars, boundVars,
                   dispatched>>

RxSignal ==
    /\ rxpc = "signal"
    /\ Signal(Rx)
    /\ rxpc' = "read" /\ rxFrame' = Nothing
    /\ UNCHANGED <<semVars, appVars, posted, wireVars, boundVars, dispatched>>

RxNext == RxFrame \/ RxPost \/ RxLink \/ RxSignal

-----------------------------------------------------------------------------
(* The ZNP and the serial line, outside this repository                    *)

ZnpAnswer ==
    /\ toZnp # <<>>
    /\ toZnp' = Tail(toZnp)
    /\ fromZnp' = IF Head(toZnp).type = "SREQ"
                  THEN Append(fromZnp, [Head(toZnp) EXCEPT !.type = "SRSP"])
                  ELSE fromZnp
    /\ UNCHANGED <<qvars, semVars, appVars, rxVars, boundVars, dispatched>>

ZnpIndication ==
    /\ areqs < MaxAreq
    /\ areqs' = areqs + 1
    /\ \E s \in Sub : fromZnp' = Append(fromZnp, [type |-> "AREQ", sub |-> s, id |-> areqs + 1])
    /\ UNCHANGED <<qvars, semVars, appVars, rxVars, toZnp,
                   requests, timeouts, losses, dispatched>>

LineLoses ==
    /\ losses < MaxLoss
    /\ losses' = losses + 1
    /\ \/ toZnp # <<>> /\ toZnp' = Tail(toZnp) /\ UNCHANGED fromZnp
       \/ fromZnp # <<>> /\ fromZnp' = Tail(fromZnp) /\ UNCHANGED toZnp
    /\ UNCHANGED <<qvars, semVars, appVars, rxVars, requests, areqs, timeouts, dispatched>>

ZnpNext == ZnpAnswer \/ ZnpIndication \/ LineLoses

-----------------------------------------------------------------------------
Running == rxpc # "crashed"

Next == \/ Running /\ \E t \in App : AppNext(t)
        \/ RxNext
        \/ ZnpNext

Spec == Init /\ [][Next]_vars

(***************************************************************************)
(* Fairness.  The threads are scheduled; a wait with a deadline ends, with *)
(* the semaphore or without it; the ZNP answers what reaches it.  Nothing  *)
(* is assumed about who calls MT functions, only that the applications'    *)
(* message loops come round (appMsgProcess, and appProcess's own loops).   *)
(***************************************************************************)
AppSteps(t) ==
    \/ Acquire(t) \/ SetExpected(t) \/ Write(t)
    \/ SrspGranted(t) \/ SrspTimeout(t) \/ ClearExpected(t) \/ Release(t)
    \/ Poll(t) \/ Fetch(t) \/ FetchTimeout(t) \/ Take(t)
    \/ Dispatch(t) \/ CallbackReturns(t) \/ ReturnToApp(t) \/ ReturnToCallback(t)

Fairness == /\ \A t \in App : WF_vars(Running /\ AppSteps(t))
            /\ WF_vars(RxNext)
            /\ WF_vars(ZnpAnswer)

LiveSpec == Spec /\ Fairness
-----------------------------------------------------------------------------
AppPlaces == {"idle", "acquire", "expect", "write", "wait", "clear", "release",
              "fetch", "get", "take", "dispatch", "callback", "return"}
Statuses == {"none", "success", "error"}
Suspended == [req : Request \cup {NoReq}, status : Statuses]

TypeOK ==
    /\ QTypeOK
    /\ rpcSem \in Nat /\ srspSem \in Nat
    /\ expected \in Sub \cup {NoSub, ZeroSub}
    /\ srspBuf \in Frame \cup {Nothing} /\ posted \in Frame \cup {Nothing}
    /\ pc \in [App -> AppPlaces]
    /\ req \in [App -> Request \cup {NoReq}]
    /\ status \in [App -> Statuses]
    /\ stack \in [App -> Seq(Suspended)]
    /\ rxpc \in {"read", "post", "link", "signal", "crashed"}
    /\ rxFrame \in Frame \cup {Nothing}
    /\ toZnp \in Seq(Request) /\ fromZnp \in Seq(Frame)
    /\ requests \in 0..MaxReq /\ areqs \in 0..MaxAreq
    /\ timeouts \in 0..MaxTimeout /\ losses \in 0..MaxLoss
    /\ dispatched \in Seq(Frame)

\* Between the wait on rpcSem and its post.
SendPlaces == {"expect", "write", "wait", "clear", "release"}
Senders == {t \in App : pc[t] \in SendPlaces}

(***************************************************************************)
(* rpcSem is what rpc.c:82 says it is for: at most one thread is between   *)
(* the wait and the post of rpcSendFrame, callbacks that send from inside  *)
(* another request included.                                               *)
(***************************************************************************)
OneSender == rpcSem + Cardinality(Senders) = 1

Awaiting(t) == pc[t] \in {"write", "wait", "clear"} /\ Synchronous(t)

(***************************************************************************)
(* expectedSrspCmdId names the subsystem of the synchronous request in     *)
(* progress from before its first byte is written until its wait is over,  *)
(* and no subsystem otherwise; so the unlocked comparison in rpcProcess    *)
(* never meets the value of an earlier request.                            *)
(***************************************************************************)
ExpectedIsCurrent ==
    /\ \A t \in App : Awaiting(t) => expected = req[t].sub
    /\ expected \in Sub => \E t \in App : Awaiting(t)

(***************************************************************************)
(* Responses wait in front of all indications, and indications wait in the *)
(* order the ZNP sent them.                                                *)
(***************************************************************************)
QueueSorted ==
    \A i, j \in DOMAIN items :
        i < j => \/ items[i].type = "SRSP"
                 \/ items[j].type = "AREQ" /\ items[i].id < items[j].id

\* The indications on their way to the queue or in it, and those past it.
Waiting == {f \in Range(fromZnp) \cup Range(items)
                     \cup (IF rxpc = "link" THEN {rxFrame} ELSE {}) : f.type = "AREQ"}
Fetched == {f \in Range(dispatched) \cup {got[t] : t \in {u \in App : pc[u] = "dispatch"}} :
               f.type = "AREQ"}

(***************************************************************************)
(* No indication overtakes another on its way through the semaphores, the  *)
(* queue and the unlocked fetch: one that a thread has fetched was sent    *)
(* before all that no thread has.  Callbacks can run out of order only     *)
(* among indications that threads hold at the same time.                   *)
(***************************************************************************)
FetchedInOrder == \A f \in Fetched, g \in Waiting : f.id < g.id

\* The frames between the serial line and mtProcess, rpcProcess's own included.
InHand == {got[t] : t \in {u \in App : pc[u] = "dispatch"}}
             \cup (IF rxpc = "link" THEN {rxFrame} ELSE {})

(***************************************************************************)
(* An indication the line does not lose is in exactly one place, from the  *)
(* ZNP to mtProcess, and reaches mtProcess at most once, whichever threads *)
(* fetch from the queue.                                                   *)
(***************************************************************************)
EachAreqInOnePlace ==
    losses = 0 =>
        \A i \in 1..areqs :
            \E s \in Sub :
               LET f == [type |-> "AREQ", sub |-> s, id |-> i] IN
                  Occurrences(fromZnp, f) + Occurrences(items, f) + Occurrences(dispatched, f)
                     + (IF f \in InHand THEN 1 ELSE 0) = 1

(***************************************************************************)
(* srspSem is the binary semaphore rpc.c:139 calls it.                     *)
(***************************************************************************)
SrspSemBinary == srspSem <= 1

\* The SRSP that srspSem was last posted for answers t's request.
Answered(t) == posted # Nothing /\ posted.id = req[t].id

(***************************************************************************)
(* While every SRSP arrives within its two seconds, srspSem is binary, and *)
(* its unit never outlives the request it was posted for ...               *)
(***************************************************************************)
NoStaleSrsp ==
    /\ SrspSemBinary
    /\ srspSem > 0 => \E t \in App : Awaiting(t) /\ Answered(t)

(***************************************************************************)
(* ... and a synchronous request succeeds by the response to itself.       *)
(***************************************************************************)
SuccessIsOwn ==
    \A t \in App : (pc[t] = "clear" /\ status[t] = "success") => Answered(t)

(***************************************************************************)
(* ... and no SRSP is unexpected, so that rpcProcess never takes the       *)
(* branch that rpc.c:388 says discards the frame.                          *)
(***************************************************************************)
NothingDiscarded ==
    (rxpc = "read" /\ fromZnp # <<>> /\ Head(fromZnp).type = "SRSP")
        => expected = Head(fromZnp).sub

(***************************************************************************)
(* What rpc.c:388 says of an unexpected SRSP: it is discarded, and the     *)
(* host goes on.                                                           *)
(***************************************************************************)
DiscardGoesOn == Running

(***************************************************************************)
(* What mtZdo.c:2804 relies on: the message a successful ZDO request       *)
(* fetches is its own SRSP, and the status it returns is that SRSP's.      *)
(***************************************************************************)
StatusIsOwn ==
    [][ \A t \in App :
          (/\ (ReturnToApp(t) \/ ReturnToCallback(t))
           /\ req[t] # NoReq /\ Synchronous(t) /\ req[t].sub \in StatusSub
           /\ status[t] = "success")
             => srspBuf # Nothing /\ srspBuf.id = req[t].id ]_vars

(***************************************************************************)
(* Every call of an MT function returns, and the calls it is nested in     *)
(* too, back to the application: no lost response, nested request or       *)
(* competing thread leaves a caller blocked.  (Callbacks issue at most     *)
(* MaxReq requests; one that never stops issuing them never returns.)      *)
(***************************************************************************)
CallsReturn == \A t \in App : pc[t] = "acquire" ~> pc[t] = "idle"

(***************************************************************************)
(* What has been linked into the queue is fetched: the post that follows   *)
(* llq_add's critical section wakes somebody.                              *)
(***************************************************************************)
QueueDrains == items # <<>> ~> items = <<>>

-----------------------------------------------------------------------------
(* The inductive invariant of RpcProofs.                                   *)

\* A thread inside rpcSendFrame works on a request.
SendersHaveRequests ==
    \A t \in App : pc[t] \in SendPlaces \cup {"acquire"} => req[t] \in Request

\* Where a thread is in rpc.c tells where it is in queue.c.
PlacesAgree ==
    /\ \A t \in App : qpc[t] = IF pc[t] = "take" THEN "token" ELSE "out"
    /\ qpc[Rx] = IF rxpc = "signal" THEN "linked" ELSE "out"

\* A frame on its way through a thread is a frame.
FramesInHand ==
    /\ \A t \in App : pc[t] = "dispatch" => got[t] \in Frame
    /\ rxpc \in {"post", "link"} => rxFrame \in Frame

IInv == /\ TypeOK /\ SendersHaveRequests /\ PlacesAgree /\ FramesInHand
        /\ QInv /\ OneSender /\ ExpectedIsCurrent
=============================================================================

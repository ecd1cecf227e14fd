--------------------------- MODULE TopologyProofs ---------------------------
(***************************************************************************)
(* What a discovery finds, and that it stays inside of nodeList, for every *)
(* mesh, every length of response and any number of rounds: each part of   *)
(* TopologyInvariant holds at first and is kept by every step.             *)
(***************************************************************************)
EXTENDS TopologyInvariant

-----------------------------------------------------------------------------
(* Where the threads are.                                                  *)

\* At first nobody is inside a callback.
LEMMA InitThreads == Init => ThreadsInv
  BY DEF Init, ThreadsInv, Places, MsgPlaces, Thread

\* Where each thread goes on after a message.
LEMMA AfterReturns ==
    ASSUME ThreadsInv
    PROVE  /\ pc["app"] \in {"fetch", "loop", "get", "confirm"}
                 => After("app", pc["app"]) \in {"callback", "loop", "get", "confirm", "confirmed"}
           /\ pc["app"] \in {"fetch", "loop", "get", "confirm"}
                 => (After("app", pc["app"]) = "callback" => calls["app"] # <<>>)
           /\ pc["app"] = "wait" =>
                 /\ After("app", "fetch") \in {"callback", "loop", "get", "confirm"}
                 /\ After("app", "fetch") = "callback" => calls["app"] # <<>>
           /\ pc["msg"] \in {"fetch", "poll"} => After("msg", pc["msg"]) \in {"callback", "idle"}
           /\ pc["msg"] \in {"fetch", "poll"}
                 => (After("msg", pc["msg"]) = "callback" => calls["msg"] # <<>>)
           /\ pc["msg"] = "wait" => After("msg", "fetch") = "callback" /\ calls["msg"] # <<>>
  BY DEF ThreadsInv, After

\* The thread t is inside of a callback and nothing but its stack and place changes.
Moves(t, place, stack) ==
    pc' = [pc EXCEPT ![t] = place] /\ calls' = [calls EXCEPT ![t] = stack]

\* What has to hold of one thread.
ThreadFits(t, place, stack) ==
    /\ stack \in Seq(Call)
    /\ t = "app" => /\ place \in Places
                    /\ \A j \in DOMAIN stack : stack[j].back # "idle"
                    /\ place \in {"callback", "count"} => stack # <<>>
    /\ t = "msg" => /\ place \in MsgPlaces
                    /\ \A j \in DOMAIN stack : stack[j].back \in {"callback", "idle"}
                    /\ place \in {"callback", "count", "send", "wait", "fetch"} => stack # <<>>
    /\ \A j \in DOMAIN stack : stack[j].back = "callback" => j + 1 \in DOMAIN stack

\* The invariant says so of each thread, ...
LEMMA FitsFollow ==
    ASSUME ThreadsInv, NEW t \in Thread
    PROVE  ThreadFits(t, pc[t], calls[t])
  BY DEF ThreadsInv, ThreadFits, Thread

\* ... and a thread that moves to where it fits keeps it.
LEMMA FitsSuffice ==
    ASSUME ThreadsInv, NEW t \in Thread, NEW place, NEW stack, ThreadFits(t, place, stack),
           Moves(t, place, stack), mesh' = mesh, nodeCount' \in Nat
    PROVE  ThreadsInv'
  <1>1. Call' = Call
    BY DEF Call
  <1> QED
    BY <1>1 DEF ThreadsInv, ThreadFits, Moves, Thread

\* A callback that goes on is a callback.
LEMMA CallGoesOn ==
    ASSUME NEW c \in Call, NEW k \in Nat
    PROVE  /\ [c EXCEPT !.next = 1] \in Call /\ [c EXCEPT !.next = @ + 1] \in Call
           /\ [c EXCEPT !.at = k] \in Call
           /\ [c EXCEPT !.next = 1].back = c.back /\ [c EXCEPT !.next = @ + 1].back = c.back
           /\ [c EXCEPT !.at = k].back = c.back
  BY DEF Call

\* Every step of a thread in a request or a callback leaves it where it may be.
LEMMA StepThreads == ASSUME ThreadsInv, NEW t \in Thread, Step(t) PROVE ThreadsInv'
  <1> DEFINE s == calls[t]
  <1>a. /\ pc \in [Thread -> Places \cup MsgPlaces] /\ calls \in [Thread -> Seq(Call)]
        /\ nodeCount \in Nat /\ s \in Seq(Call) /\ ThreadFits(t, pc[t], s)
        /\ pc \in [Thread -> Places \cup MsgPlaces] /\ pc["app"] \in Places /\ pc["msg"] \in MsgPlaces
    BY FitsFollow DEF ThreadsInv
  <1>b. mesh' = mesh
    BY DEF Step, Send, SrspGranted, SrspTimeout, Fetch, FetchTimeout, BeginEntry, PassOver,
           ListChild, CountRead, CallbackReturns, choice
  <1>1. CASE Send(t)
    <2>1. ThreadFits(t, "wait", s) /\ Moves(t, "wait", s)
      BY <1>1, <1>a DEF Send, Goes, ThreadFits, Moves, Places, MsgPlaces, Thread
    <2> QED
      BY <1>1, <1>a, <1>b, <2>1, FitsSuffice DEF Send, listVars
  <1>2. CASE SrspGranted(t)
    <2>1. ThreadFits(t, "fetch", s) /\ Moves(t, "fetch", s)
      BY <1>2, <1>a DEF SrspGranted, Goes, ThreadFits, Moves, Places, MsgPlaces, Thread
    <2> QED
      BY <1>2, <1>a, <1>b, <2>1, FitsSuffice DEF SrspGranted, listVars
  <1>3. CASE SrspTimeout(t)
    <2>1. ThreadFits(t, After(t, "fetch"), s) /\ Moves(t, After(t, "fetch"), s)
      BY <1>3, <1>a, AfterReturns DEF SrspTimeout, Goes, ThreadFits, Moves, Places, MsgPlaces, Thread
    <2> QED
      BY <1>3, <1>a, <1>b, <2>1, FitsSuffice DEF SrspTimeout, listVars
  <1>4. CASE Fetch(t)
    <2> DEFINE frame == Head(queue)
               back == After(t, pc[t])
               call == [node |-> frame.from, next |-> 0, at |-> nodeCount + 1, back |-> back]
    <2>1. /\ t = "app" => back \in {"callback", "loop", "get", "confirm", "confirmed"}
          /\ t = "msg" => back \in {"callback", "idle"}
          /\ back = "callback" => s # <<>>
      BY <1>4, <1>a, AfterReturns DEF Fetch, Thread, Places, MsgPlaces
    <2>2. CASE Succeeds(frame) /\ Begins(t, frame, back)
      <3>1. call \in Call
        BY <1>a, <2>1, <2>2 DEF Succeeds, Call, Returns, Thread
      <3>2. \A j \in DOMAIN s : s[j].back = "callback" => j + 1 \in DOMAIN s
        BY <1>a DEF ThreadFits
      <3>3. \A j \in DOMAIN (<<call>> \o s) :
               (<<call>> \o s)[j].back = "callback" => j + 1 \in DOMAIN (<<call>> \o s)
        <4> SUFFICES ASSUME NEW j \in DOMAIN (<<call>> \o s), (<<call>> \o s)[j].back = "callback"
                     PROVE  j + 1 \in DOMAIN (<<call>> \o s)
          OBVIOUS
        <4>1. <<call>> \o s \in Seq(Call) /\ Len(<<call>> \o s) = Len(s) + 1
          BY <1>a, <3>1, Pushed
        <4>2. CASE j = 1
          <5>1. s # <<>>
            BY <1>a, <3>1, <4>2, <2>1, Pushed
          <5> QED
            BY <1>a, <4>1, <4>2, <5>1
        <4>3. CASE j # 1
          <5>1. j - 1 \in DOMAIN s /\ (<<call>> \o s)[j] = s[j - 1]
            <6>1. j - 1 \in DOMAIN s
              BY <1>a, <3>1, <4>3, Pushed
            <6>2. (<<call>> \o s)[(j - 1) + 1] = s[j - 1]
              BY <1>a, <3>1, <6>1, Pushed, SMTT(60)
            <6> QED
              BY <6>1, <6>2, <4>1
          <5>2. (j - 1) + 1 \in DOMAIN s
            BY <3>2, <5>1
          <5> QED
            BY <1>a, <4>1, <5>2
        <4> QED
          BY <4>2, <4>3
      <3>4. \A j \in DOMAIN (<<call>> \o s) :
               (<<call>> \o s)[j] = call \/ \E i \in DOMAIN s : (<<call>> \o s)[j] = s[i]
        <4> SUFFICES ASSUME NEW j \in DOMAIN (<<call>> \o s), j # 1
                     PROVE  \E i \in DOMAIN s : (<<call>> \o s)[j] = s[i]
          BY <1>a, <3>1, Pushed
        <4>1. j - 1 \in DOMAIN s
          BY <1>a, <3>1, Pushed
        <4>2. (<<call>> \o s)[(j - 1) + 1] = s[j - 1]
          BY <1>a, <3>1, <4>1, Pushed
        <4>3. (j - 1) + 1 = j
          BY <4>1, <1>a
        <4> QED
          BY <4>1, <4>2, <4>3
      <3>5. <<call>> \o s \in Seq(Call) /\ <<call>> \o s # <<>>
        BY <1>a, <3>1, Pushed
      <3>6. ThreadFits(t, "callback", <<call>> \o s)
        <4> HIDE DEF call, s
        <4>1. call.back = back
          BY DEF call
        <4>2. \A j \in DOMAIN s : /\ t = "app" => s[j].back # "idle"
                                  /\ t = "msg" => s[j].back \in {"callback", "idle"}
          BY <1>a DEF ThreadFits
        <4> QED
          BY <2>1, <3>3, <3>4, <3>5, <4>1, <4>2 DEF ThreadFits, Places, MsgPlaces
      <3>7. Moves(t, "callback", <<call>> \o s)
        BY <2>2 DEF Begins, Goes, Moves
      <3> QED
        BY <1>4, <1>a, <1>b, <3>6, <3>7, FitsSuffice DEF Fetch, listVars
    <2>3. CASE Goes(t, back) /\ UNCHANGED calls
      <3>1. ThreadFits(t, back, s) /\ Moves(t, back, s)
        BY <2>1, <2>3, <1>a DEF Goes, ThreadFits, Moves, Places, MsgPlaces, Thread
      <3> QED
        BY <1>4, <1>a, <1>b, <3>1, FitsSuffice DEF Fetch, listVars
    <2> QED
      BY <1>4, <2>2, <2>3 DEF Fetch, Handle
  <1>5. CASE FetchTimeout(t)
    <2>1. ThreadFits(t, After(t, pc[t]), s) /\ Moves(t, After(t, pc[t]), s)
      BY <1>5, <1>a, AfterReturns DEF FetchTimeout, Goes, ThreadFits, Moves, Places, MsgPlaces, Thread
    <2> QED
      BY <1>5, <1>a, <1>b, <2>1, FitsSuffice DEF FetchTimeout, listVars
  <1>6. ASSUME NEW x \in Call, s # <<>>, x.back = s[1].back, NEW place,
               place = pc[t] \/ place \in {"count", "send"}
        PROVE  ThreadFits(t, place, [s EXCEPT ![1] = x])
    <2>1. /\ [s EXCEPT ![1] = x] \in Seq(Call) /\ DOMAIN [s EXCEPT ![1] = x] = DOMAIN s
          /\ [s EXCEPT ![1] = x] # <<>> /\ [s EXCEPT ![1] = x][1] = x
          /\ \A j \in DOMAIN s : j # 1 => [s EXCEPT ![1] = x][j] = s[j]
      BY <1>a, <1>6, Replaced
    <2>2. \A j \in DOMAIN s : [s EXCEPT ![1] = x][j].back = s[j].back
      BY <1>6, <2>1
    <2> HIDE DEF s
    <2> QED
      BY <1>a, <1>6, <2>1, <2>2 DEF ThreadFits, Places, MsgPlaces
  <1>c. ASSUME s # <<>> PROVE s[1] \in Call
    BY <1>a, <1>c, Popped
  <1>7. CASE BeginEntry(t)
    <2> DEFINE x == [s[1] EXCEPT !.next = 1]
    <2>a. s # <<>>
      BY <1>7, <1>a DEF BeginEntry, ThreadFits, Thread
    <2>1. s # <<>> /\ x \in Call /\ x.back = s[1].back
      <3>1. s[1] \in Call /\ nodeCount + 1 \in Nat
        BY <1>a, <1>c, <2>a
      <3> QED
        BY <2>a, <3>1, CallGoesOn
    <2>2. Moves(t, pc[t], [s EXCEPT ![1] = x])
      BY <1>7, <1>a DEF BeginEntry, Moves
    <2>3. nodeCount' \in Nat
      BY <1>7, <1>a DEF BeginEntry
    <2> QED
      BY <1>6, <1>a, <1>b, <2>1, <2>2, <2>3, FitsSuffice
  <1>8. CASE PassOver(t)
    <2> DEFINE x == [s[1] EXCEPT !.next = @ + 1]
    <2>a. s # <<>>
      BY <1>8, <1>a DEF PassOver, AtNeighbour, ThreadFits, Thread
    <2>1. s # <<>> /\ x \in Call /\ x.back = s[1].back
      <3>1. s[1] \in Call /\ nodeCount + 1 \in Nat
        BY <1>a, <1>c, <2>a
      <3> QED
        BY <2>a, <3>1, CallGoesOn
    <2>2. Moves(t, pc[t], [s EXCEPT ![1] = x])
      BY <1>8, <1>a DEF PassOver, AtNeighbour, Moves
    <2> QED
      BY <1>6, <1>8, <1>a, <1>b, <2>1, <2>2, FitsSuffice DEF PassOver, listVars
  <1>9. CASE ListChild(t)
    <2> DEFINE x == [s[1] EXCEPT !.next = @ + 1]
    <2>a. s # <<>>
      BY <1>9, <1>a DEF ListChild, AtNeighbour, ThreadFits, Thread
    <2>1. s # <<>> /\ x \in Call /\ x.back = s[1].back
      <3>1. s[1] \in Call /\ nodeCount + 1 \in Nat
        BY <1>a, <1>c, <2>a
      <3> QED
        BY <2>a, <3>1, CallGoesOn
    <2>2. \/ Moves(t, pc[t], [s EXCEPT ![1] = x])
          \/ Moves(t, "send", [s EXCEPT ![1] = x])
      BY <1>9, <1>a DEF ListChild, AtNeighbour, AskIfRouter, Ask, Goes, Moves
    <2>3. nodeCount' \in Nat
      BY <1>9, <1>a DEF ListChild
    <2> QED
      BY <1>6, <1>a, <1>b, <2>1, <2>2, <2>3, FitsSuffice
  <1>10. CASE CountRead(t)
    <2> DEFINE x == [s[1] EXCEPT !.at = nodeCount + 1]
    <2>a. s # <<>>
      BY <1>10, <1>a DEF CountRead, ThreadFits, Thread
    <2>1. s # <<>> /\ x \in Call /\ x.back = s[1].back
      <3>1. s[1] \in Call /\ nodeCount + 1 \in Nat
        BY <1>a, <1>c, <2>a
      <3> QED
        BY <2>a, <3>1, CallGoesOn
    <2>2. Moves(t, "count", [s EXCEPT ![1] = x])
      BY <1>10, <1>a DEF CountRead, Goes, Moves
    <2> QED
      BY <1>6, <1>10, <1>a, <1>b, <2>1, <2>2, FitsSuffice DEF CountRead, listVars
  <1>11. CASE CallbackReturns(t)
    <2> DEFINE place == s[1].back
    <2>1. s # <<>> /\ s[1] \in Call /\ s[1].at \in Nat
      BY <1>11, <1>a, <1>c DEF CallbackReturns, ThreadFits, Call, Thread
    <2>2. /\ Tail(s) \in Seq(Call) /\ 1 \in DOMAIN s /\ DOMAIN s = 1..Len(s)
          /\ DOMAIN Tail(s) = 1..(Len(s) - 1) /\ Len(s) \in Nat /\ Len(Tail(s)) = Len(s) - 1
          /\ \A j \in DOMAIN Tail(s) : Tail(s)[j] = s[j + 1] /\ j + 1 \in DOMAIN s
      BY <1>a, <2>1, Popped
    <2>3. /\ \A j \in DOMAIN s : s[j].back = "callback" => j + 1 \in DOMAIN s
          /\ t = "app" => \A j \in DOMAIN s : s[j].back # "idle"
          /\ t = "msg" => \A j \in DOMAIN s : s[j].back \in {"callback", "idle"}
      BY <1>a DEF ThreadFits
    <2>4. place \in Returns /\ (place = "callback" => Tail(s) # <<>>)
      <3>1. place = "callback" => 1 + 1 \in DOMAIN s
        BY <2>2, <2>3
      <3>2. place = "callback" => Tail(s) # <<>>
        <4> SUFFICES ASSUME place = "callback" PROVE Tail(s) # <<>>
          OBVIOUS
        <4>1. 1 + 1 \in DOMAIN s
          BY <3>1
        <4> HIDE DEF s
        <4>2. Len(Tail(s)) # 0
          BY <2>2, <4>1
        <4>3. Len(<<>>) = 0
          OBVIOUS
        <4> QED
          BY <4>2, <4>3
      <3> HIDE DEF s
      <3> QED
        BY <2>1, <3>2 DEF Call
    <2>5. \A j \in DOMAIN Tail(s) : Tail(s)[j].back = "callback" => j + 1 \in DOMAIN Tail(s)
      BY <2>2, <2>3
    <2>6. ThreadFits(t, place, Tail(s))
      <3> HIDE DEF s
      <3> QED
        BY <2>2, <2>3, <2>4, <2>5 DEF ThreadFits, Places, MsgPlaces, Returns
    <2>7. Moves(t, place, Tail(s))
      BY <1>11 DEF CallbackReturns, Goes, Moves
    <2>8. nodeCount' \in Nat
      BY <1>11, <1>a, <2>1 DEF CallbackReturns
    <2> QED
      BY <1>a, <1>b, <2>6, <2>7, <2>8, FitsSuffice
  <1> QED
    BY <1>1, <1>2, <1>3, <1>4, <1>5, <1>7, <1>8, <1>9, <1>10, <1>11 DEF Step

\* The steps between discoveries and of the other threads keep the stacks.
LEMMA ThreadsKept == ThreadsInv /\ [Next]_vars => ThreadsInv'
  <1> HAVE ThreadsInv /\ [Next]_vars
  <1>1. CASE Change \/ SendData \/ Discover \/ LoopEnd \/ ShowNext \/ ShowEnds \/ DataSent \/ MsgWait
    <2>1. mesh' = mesh /\ calls' = calls /\ nodeCount' \in Nat
      BY <1>1 DEF Change, SendData, Discover, LoopEnd, ShowNext, ShowEnds, DataSent, MsgWait,
                  ThreadsInv, choice, listVars
    <2>2. \/ /\ pc["app"] \notin {"callback", "count"}
             /\ \E place \in Places \ {"callback", "count"} : pc' = [pc EXCEPT !["app"] = place]
          \/ pc' = [pc EXCEPT !["msg"] = "poll"]
          \/ pc' = pc
      BY <1>1, ZenonT(60) DEF Change, SendData, Discover, LoopEnd, ShowNext, ShowEnds, DataSent, MsgWait,
                  Goes, Ask, AskEndpoints, Places
    <2>3. Call' = Call
      BY <2>1 DEF Call
    <2> QED
      BY <2>1, <2>2, <2>3 DEF ThreadsInv, MsgPlaces, Thread
  <1>2. CASE UNCHANGED <<choice, listVars, threadVars>>
    BY <1>2 DEF ThreadsInv, Call, choice, listVars, threadVars
  <1>3. CASE RxStep \/ NodeAnswers \/ NodeSilent \/ UNCHANGED vars
    BY <1>2, <1>3 DEF RxStep, RxPost, RxLinkSrsp, RxLinkAreq, NodeAnswers, NodeSilent,
                      OnlyRx, OnlyNetwork, vars
  <1>4. ASSUME NEW t \in Thread, Step(t) PROVE ThreadsInv'
    BY <1>4, StepThreads
  <1> QED
    BY <1>1, <1>3, <1>4 DEF Next, AppStep, MsgStep, Thread

-----------------------------------------------------------------------------
(* What initDone achieves.                                                 *)

\* Only a wait that began while initDone was set takes a message after it is cleared.
LEMMA TakenKept == ThreadsInv /\ TakenInv /\ [Next]_vars => TakenInv'
  <1> HAVE ThreadsInv /\ TakenInv /\ [Next]_vars
  <1>a. pc \in [Thread -> Places \cup MsgPlaces] /\ pc["app"] # "poll"
    BY DEF ThreadsInv, Places
  <1>1. CASE UNCHANGED <<polled, initDone, pc>>
    BY <1>1 DEF TakenInv
  <1>2. CASE Change \/ SendData
    BY <1>2 DEF Change, SendData, TakenInv
  <1>3. CASE ShowEnds \/ DataSent \/ MsgWait
    BY <1>3 DEF ShowEnds, DataSent, MsgWait, TakenInv, historyVars, appVars
  <1>4. ASSUME UNCHANGED <<polled, initDone>>, NEW t \in Thread, NEW place, place # "poll",
               pc' = [pc EXCEPT ![t] = place]
        PROVE  TakenInv'
    BY <1>a, <1>4 DEF TakenInv, Thread
  <1>5. CASE Discover \/ LoopEnd \/ ShowNext
    <2>1. UNCHANGED <<polled, initDone>>
      BY <1>5 DEF Discover, LoopEnd, ShowNext, historyVars
    <2>2. pc' = pc \/ \E place \in Places : pc' = [pc EXCEPT !["app"] = place]
      BY <1>5 DEF Discover, LoopEnd, ShowNext, Ask, AskEndpoints, Goes, Places
    <2> QED
      BY <1>1, <1>4, <2>1, <2>2 DEF Places, Thread
  <1>6. CASE RxStep \/ NodeAnswers \/ NodeSilent \/ UNCHANGED vars
    BY <1>1, <1>6 DEF RxStep, RxPost, RxLinkSrsp, RxLinkAreq, NodeAnswers, NodeSilent, OnlyRx,
                      OnlyNetwork, vars, appVars, threadVars, historyVars
  <1>7. ASSUME NEW t \in Thread, Step(t) PROVE TakenInv'
    <2>1. CASE Fetch(t)
      <3>1. \E place : place # "poll" /\ pc' = [pc EXCEPT ![t] = place]
        <4>1. After(t, pc[t]) # "poll"
          BY DEF After
        <4> QED
          BY <2>1, <4>1 DEF Fetch, Handle, Begins, Goes
      <3>2. polled' = IF pc[t] = "poll" /\ ~initDone THEN polled + 1 ELSE polled
        BY <2>1 DEF Fetch
      <3>3. initDone' = initDone
        BY <2>1 DEF Fetch, appVars
      <3>4. pc[t] = "poll" => t = "msg"
        BY <1>a DEF Thread
      <3> QED
        BY <1>a, <3>1, <3>2, <3>3, <3>4 DEF TakenInv, Thread
    <2>2. CASE Send(t) \/ SrspGranted(t) \/ SrspTimeout(t) \/ FetchTimeout(t) \/ CountRead(t)
      <3>1. UNCHANGED <<polled, initDone>>
        BY <2>2 DEF Send, SrspGranted, SrspTimeout, FetchTimeout, CountRead, historyVars, appVars
      <3>2. \E place : place # "poll" /\ pc' = [pc EXCEPT ![t] = place]
        <4>1. After(t, pc[t]) # "poll" /\ After(t, "fetch") # "poll"
          BY DEF After
        <4> QED
          BY <2>2, <4>1 DEF Send, SrspGranted, SrspTimeout, FetchTimeout, CountRead, Goes
      <3> QED
        BY <1>4, <3>1, <3>2
    <2>3. CASE BeginEntry(t) \/ PassOver(t) \/ ListChild(t)
      <3>1. UNCHANGED <<polled, initDone>>
        BY <2>3 DEF BeginEntry, PassOver, ListChild, historyVars, appVars
      <3>2. pc' = pc \/ pc' = [pc EXCEPT ![t] = "send"]
        BY <2>3 DEF BeginEntry, PassOver, ListChild, AskIfRouter, Ask, Goes
      <3> QED
        BY <1>1, <1>4, <3>1, <3>2
    <2>4. CASE CallbackReturns(t)
      <3>1. UNCHANGED <<polled, initDone>> /\ pc' = [pc EXCEPT ![t] = calls[t][1].back]
        BY <2>4 DEF CallbackReturns, historyVars, appVars, Goes
      <3>2. calls[t][1].back # "poll"
        <4>1. calls[t] \in Seq(Call) /\ calls[t] # <<>>
          BY <2>4 DEF CallbackReturns, ThreadsInv, Thread
        <4>2. calls[t][1] \in Call
          BY <4>1, Popped
        <4> QED
          BY <4>2 DEF Call, Returns
      <3> QED
        BY <1>4, <3>1, <3>2
    <2> QED
      BY <1>7, <2>1, <2>2, <2>3, <2>4 DEF Step
  <1> QED
    BY <1>2, <1>3, <1>5, <1>6, <1>7 DEF Next, AppStep, MsgStep, Thread

\* Every thread is where it may be, and knows where it returns to.
THEOREM TopologyThreads == Spec => []ThreadsInv
  BY InitThreads, ThreadsKept, PTL DEF Spec

\* Of the messages that come while initDone is cleared, appMsgProcess takes at most the
\* one for which it had begun to wait before.
THEOREM TopologyOneTaken == Spec => []OneTaken
  <1>1. Init => TakenInv
    BY DEF Init, TakenInv
  <1>2. TakenInv => OneTaken
    BY DEF TakenInv, OneTaken
  <1> QED
    BY <1>1, <1>2, TakenKept, TopologyThreads, PTL DEF Spec

-----------------------------------------------------------------------------
(* What is read of a response.                                             *)

\* A response is a sequence of neighbours.
LEMMA PageIsSequence ==
    ASSUME NEW m \in Meshes, NEW n \in Routers(m)
    PROVE  Page(m, n) \in Seq(Neighbours(m, n))
  <1>1. m[n].table \in Seq(Neighbours(m, n)) /\ PageSize \in Nat
    BY TablesOfNeighbours, BoundsNatural DEF Neighbours
  <1> DEFINE k == IF Len(m[n].table) < PageSize THEN Len(m[n].table) ELSE PageSize
  <1>2. k \in Nat /\ k <= Len(m[n].table)
    BY <1>1
  <1> QED
    BY <1>1, <1>2 DEF Page

\* The accepted neighbours are collected one by one.
LEMMA AmongComputed ==
    ASSUME NEW p, NEW m \in Meshes, NEW n \in Routers(m)
    PROVE  /\ ListedAmong(p, m, n)[0] = <<>>
           /\ \A k \in 1..Len(Page(m, n)) :
                 ListedAmong(p, m, n)[k] =
                     IF Accepts(p, Page(m, n)[k].relation)
                     THEN Append(ListedAmong(p, m, n)[k - 1], Page(m, n)[k])
                     ELSE ListedAmong(p, m, n)[k - 1]
           /\ \A k \in 0..Len(Page(m, n)) : ListedAmong(p, m, n)[k] \in Seq(Neighbours(m, n))
  <1> DEFINE table == Page(m, n)
             S == Seq(Neighbours(m, n))
             Round(f) == [i \in 0..Len(table) |-> IF i = 0 THEN <<>>
                                                  ELSE IF Accepts(p, table[i].relation)
                                                       THEN Append(f[i - 1], table[i])
                                                       ELSE f[i - 1]]
             G == [v \in S |-> [i \in 1..Len(table) |->
                      IF Accepts(p, table[i].relation) THEN Append(v, table[i]) ELSE v]]
             among == ListedAmong(p, m, n)
  <1>1. table \in S /\ Len(table) \in Nat /\ <<>> \in S
        /\ \A i \in 0..Len(table) : i # 0 => i \in 1..Len(table) /\ i - 1 \in 0..Len(table)
    BY PageIsSequence
  <1>2. \A v \in S : \A i \in 1..Len(table) :
           /\ G[v][i] = IF Accepts(p, table[i].relation) THEN Append(v, table[i]) ELSE v
           /\ G[v][i] \in S
    BY <1>1
  <1> HIDE DEF G
  <1>3. PICK f \in [0..Len(table) -> S] :
           f[0] = <<>> /\ \A i \in 1..Len(table) : f[i] = G[f[i - 1]][i]
    <2>1. StepsIn(G, Len(table), S)
      BY <1>2 DEF StepsIn
    <2>2. Computable(<<>>, G, Len(table), S)
      BY <1>1, <2>1, RecursionExists
    <2> QED
      BY <2>2 DEF Computable
  <1>4. f = Round(f)
    BY <1>1, <1>2, <1>3
  <1>5. among = CHOOSE g : g = Round(g)
    BY DEF ListedAmong
  <1> HIDE DEF among
  <1>6. among = Round(among)
    BY <1>4, <1>5, ZenonT(60)
  <1>a. among[0] = <<>>
    BY <1>1, <1>6
  <1>7. ASSUME NEW i \in 1..Len(table)
        PROVE  among[i] = IF Accepts(p, table[i].relation) THEN Append(among[i - 1], table[i])
                          ELSE among[i - 1]
    <2>1. i \in 0..Len(table) /\ i # 0
      BY <1>1
    <2> QED
      BY <1>6, <2>1
  <1>8. \A k \in 0..Len(table) : among[k] = f[k]
    <2>1. Lockstep(among, f, Len(table))
      <3>1. ASSUME NEW i \in 1..Len(table), among[i - 1] = f[i - 1] PROVE among[i] = f[i]
        <4>1. f[i - 1] \in S
          BY <1>1, <1>3
        <4> QED
          BY <1>2, <1>3, <1>7, <3>1, <4>1
      <3> QED
        BY <1>3, <1>a, <3>1 DEF Lockstep
    <2> QED
      BY <1>1, <2>1, SameComputed
  <1> QED
    BY <1>3, <1>a, <1>7, <1>8 DEF among

\* An entry begins without children, ...
LEMMA EntryBegins ==
    ASSUME NEW p, NEW m \in Meshes, NEW n \in Routers(m)
    PROVE  EntryOf(p, m, n, 0) = [addr |-> n,
                            type |-> IF n = Coordinator THEN "coordinator" ELSE "router",
                            children |-> <<>>]
  <1>1. ListedAmong(p, m, n)[0] = <<>>
    BY AmongComputed
  <1>2. [i \in DOMAIN ListedAmong(p, m, n)[0] |->
            [addr |-> ListedAmong(p, m, n)[0][i].addr,
             type |-> ListedAmong(p, m, n)[0][i].type]] = <<>>
    BY <1>1
  <1> QED
    BY <1>2 DEF EntryOf

\* (At neighbour k it gets a child or stays as it is.)
Grows(p, m, n, k) ==
    LET x == Page(m, n)[k] IN
       /\ Accepts(p, x.relation) =>
             [EntryOf(p, m, n, k - 1) EXCEPT !.children = Append(@, [addr |-> x.addr, type |-> x.type])]
                = EntryOf(p, m, n, k)
       /\ ~Accepts(p, x.relation) => EntryOf(p, m, n, k) = EntryOf(p, m, n, k - 1)

\* ... gets one for each neighbour that is accepted, ...
LEMMA EntryGrows ==
    ASSUME NEW p, NEW m \in Meshes, NEW n \in Routers(m), NEW k \in 1..Len(Page(m, n))
    PROVE  Grows(p, m, n, k)
  <1> DEFINE x == Page(m, n)[k]
             old == ListedAmong(p, m, n)[k - 1]
             new == ListedAmong(p, m, n)[k]
             Kids(s) == [i \in DOMAIN s |-> [addr |-> s[i].addr, type |-> s[i].type]]
  <1>1. Page(m, n) \in Seq(Neighbours(m, n))
    BY PageIsSequence
  <1>2. k - 1 \in 0..Len(Page(m, n)) /\ old \in Seq(Neighbours(m, n))
        /\ x \in Neighbours(m, n)
    <2>1. k - 1 \in 0..Len(Page(m, n)) /\ k \in DOMAIN Page(m, n)
      BY <1>1
    <2>2. old \in Seq(Neighbours(m, n))
      BY <2>1, AmongComputed
    <2>3. x \in Neighbours(m, n)
      BY <1>1, <2>1
    <2> QED
      BY <2>1, <2>2, <2>3
  <1>3. new = IF Accepts(p, x.relation) THEN Append(old, x) ELSE old
    BY AmongComputed
  <1>4. EntryOf(p, m, n, k) = [addr |-> n, type |-> IF n = Coordinator THEN "coordinator" ELSE "router",
                         children |-> Kids(new)]
        /\ EntryOf(p, m, n, k - 1) = [addr |-> n,
                                type |-> IF n = Coordinator THEN "coordinator" ELSE "router",
                                children |-> Kids(old)]
    BY DEF EntryOf
  <1> HIDE DEF x, old, new
  <1>5. Kids(Append(old, x)) = Append(Kids(old), [addr |-> x.addr, type |-> x.type])
    <2> DEFINE y == [addr |-> x.addr, type |-> x.type]
               C == {[addr |-> z.addr, type |-> z.type] : z \in Neighbours(m, n)}
    <2>1. Kids(old) \in Seq(C) /\ y \in C /\ Len(Kids(old)) = Len(old)
      BY <1>2
    <2>2. DOMAIN Append(Kids(old), y) = 1..(Len(old) + 1)
          /\ DOMAIN Append(old, x) = 1..(Len(old) + 1) /\ Len(old) \in Nat
      BY <1>2, <2>1
    <2>3. \A i \in 1..(Len(old) + 1) : Append(Kids(old), y)[i] = Kids(Append(old, x))[i]
      BY <1>2, <2>1, <2>2
    <2>4. Append(Kids(old), y) = [i \in 1..(Len(old) + 1) |-> Append(Kids(old), y)[i]]
      BY <2>1, <2>2
    <2>5. Kids(Append(old, x)) = [i \in 1..(Len(old) + 1) |-> Kids(Append(old, x))[i]]
      BY <2>2
    <2> QED
      BY <2>3, <2>4, <2>5, SMTT(60)
  <1> HIDE DEF Kids
  <1>6. ASSUME Accepts(p, x.relation)
        PROVE  [EntryOf(p, m, n, k - 1) EXCEPT !.children = Append(@, [addr |-> x.addr, type |-> x.type])]
                  = EntryOf(p, m, n, k)
    <2>1. new = Append(old, x)
      BY <1>3, <1>6
    <2>2. Kids(new) = Append(Kids(old), [addr |-> x.addr, type |-> x.type])
      BY <1>5, <2>1
    <2> DEFINE kids == Kids(old)
               more == Kids(new)
               E == EntryOf(p, m, n, k - 1)
    <2>3. more = Append(kids, [addr |-> x.addr, type |-> x.type])
      BY <2>2
    <2>4. E = [addr |-> n, type |-> IF n = Coordinator THEN "coordinator" ELSE "router",
               children |-> kids]
          /\ EntryOf(p, m, n, k) = [addr |-> n,
                              type |-> IF n = Coordinator THEN "coordinator" ELSE "router",
                              children |-> more]
      BY <1>4
    <2> HIDE DEF kids, more, E
    <2>5. E.children = kids /\ [E EXCEPT !.children = more] = EntryOf(p, m, n, k)
      BY <2>4
    <2> QED
      BY <2>3, <2>5 DEF E
  <1>7. ~Accepts(p, x.relation) => EntryOf(p, m, n, k) = EntryOf(p, m, n, k - 1)
    BY <1>3, <1>4
  <1> QED
    BY <1>6, <1>7 DEF x, Grows

\* ... and after the last is what EntriesOwn expects.
LEMMA EntryEnds ==
    ASSUME NEW n PROVE EntryOf(program, mesh, n, Len(Page(mesh, n))) = Plain(n)
  BY DEF EntryOf, Plain, Listed

-----------------------------------------------------------------------------
(* The list of nwkTopology, for program p and mesh m.                      *)

\* A callback begins.
LEMMA PushKeeps ==
    ASSUME NEW p, NEW m \in Meshes, NEW stack, NEW h, NEW count, NEW list,
           NEW place \in {"fetch", "loop"}, Shape(m, place, stack),
           Entries(p, m, stack, h, count, list), NEW n \in Routers(m),
           NEW c, c = [node |-> n, next |-> 0, at |-> count + 1,
                       back |-> IF stack = <<>> THEN "loop" ELSE "callback"]
    PROVE  /\ Shape(m, "callback", <<c>> \o stack)
           /\ Entries(p, m, <<c>> \o stack, Append(h, n), count, list)
  <1> DEFINE new == <<c>> \o stack
             h2 == Append(h, n)
  <1>1. stack \in Seq(CallsOf(m)) /\ h \in Seq(Routers(m)) /\ count \in Nat
    BY DEF Shape, Entries
  <1>2. c \in CallsOf(m)
    BY <1>1 DEF CallsOf, Returns
  <1>3. /\ new \in Seq(CallsOf(m)) /\ new # <<>> /\ new[1] = c /\ Len(new) = Len(stack) + 1
        /\ \A j \in DOMAIN stack : new[j + 1] = stack[j]
        /\ \A j \in DOMAIN new : j = 1 \/ j - 1 \in DOMAIN stack
    BY <1>1, <1>2, Pushed
  <1>4. \A j \in DOMAIN stack : stack[j].next # 0
    BY DEF Shape
  <1>5. Fresh(stack) = 0
    BY <1>1, <1>4 DEF Fresh
  <1>6. Fresh(new) = 1
    BY <1>3 DEF Fresh
  <1>7. Len(h) = count /\ h2 \in Seq(Routers(m)) /\ Len(h2) = count + 1
        /\ h2[count + 1] = n /\ \A i \in DOMAIN h : i \in DOMAIN h2 /\ h2[i] = h[i]
    BY <1>1, <1>5 DEF Entries
  <1>8. DOMAIN stack = 1..Len(stack) /\ DOMAIN new = 1..(Len(stack) + 1) /\ Len(stack) \in Nat
        /\ DOMAIN h = 1..count /\ DOMAIN h2 = 1..(count + 1)
    BY <1>1, <1>3, <1>7
  <1> HIDE DEF new, h2
  <1>9. ASSUME NEW j \in DOMAIN new, j # 1
        PROVE  j - 1 \in DOMAIN stack /\ new[j] = stack[j - 1] /\ (j - 1) + 1 = j
    <2>1. j - 1 \in DOMAIN stack /\ (j - 1) + 1 = j
      BY <1>3, <1>8, <1>9
    <2>2. new[(j - 1) + 1] = stack[j - 1]
      BY <1>3, <2>1
    <2> QED
      BY <2>1, <2>2
  <1>10. Shape(m, "callback", new)
    <2>1. \A j \in DOMAIN new : new[j].back = IF j = Len(new) THEN "loop" ELSE "callback"
      <3> TAKE j \in DOMAIN new
      <3>1. CASE j = 1
        <4>1. stack = <<>> <=> Len(stack) = 0
          BY <1>1
        <4>2. j = Len(new) <=> Len(stack) = 0
          BY <1>3, <1>8, <3>1
        <4> QED
          BY <1>3, <3>1, <4>1, <4>2
      <3>2. CASE j # 1
        <4>1. stack[j - 1].back = IF j - 1 = Len(stack) THEN "loop" ELSE "callback"
          BY <1>9, <3>2 DEF Shape
        <4> QED
          BY <1>3, <1>8, <1>9, <3>2, <4>1
      <3> QED
        BY <3>1, <3>2
    <2>2. \A j \in DOMAIN new : new[j].next = 0 => j = 1
      BY <1>4, <1>9
    <2>3. \A j \in DOMAIN new : new[j].next <= Len(Page(m, new[j].node)) + 1
      <3> TAKE j \in DOMAIN new
      <3>1. CASE j = 1
        <4>1. Len(Page(m, n)) \in Nat
          BY PageIsSequence
        <4> QED
          BY <1>3, <3>1, <4>1
      <3>2. CASE j # 1
        BY <1>9, <3>2 DEF Shape
      <3> QED
        BY <3>1, <3>2
    <2> QED
      BY <1>3, <2>1, <2>2, <2>3 DEF Shape
  <1>11. Entries(p, m, new, h2, count, list)
    <2>1. \A j \in DOMAIN new : new[j].at \in DOMAIN h2 /\ h2[new[j].at] = new[j].node
      <3> TAKE j \in DOMAIN new
      <3>1. CASE j = 1
        BY <1>3, <1>7, <1>8, <3>1
      <3>2. CASE j # 1
        BY <1>7, <1>9, <3>2 DEF Entries
      <3> QED
        BY <3>1, <3>2
    <2>2. \A j \in DOMAIN new : new[j].next = 0 => new[j].at = Len(h2)
      BY <1>3, <1>4, <1>7, <1>9
    <2>3. \A i, j \in DOMAIN new : new[i].at = new[j].at => i = j
      <3>1. \A j \in DOMAIN stack : stack[j].at # count + 1
        BY <1>8 DEF Entries
      <3>2. \A j \in DOMAIN new : j # 1 => new[j].at # new[1].at
        BY <1>3, <1>9, <3>1
      <3>3. \A i, j \in DOMAIN new : i # 1 /\ j # 1 /\ new[i].at = new[j].at => i = j
        <4> TAKE i, j \in DOMAIN new
        <4> SUFFICES ASSUME i # 1, j # 1, new[i].at = new[j].at PROVE i = j
          OBVIOUS
        <4>1. i - 1 = j - 1
          BY <1>9 DEF Entries
        <4> QED
          BY <1>8, <4>1
      <3> QED
        BY <3>2, <3>3
    <2>4. \A j \in DOMAIN new : new[j].next # 0 =>
             list[new[j].at] = EntryOf(p, m, new[j].node, new[j].next - 1)
      BY <1>3, <1>9 DEF Entries
    <2>5. ASSUME NEW i \in 1..count, \A j \in DOMAIN new : new[j].at # i
          PROVE  list[i] = EntryOf(p, m, h2[i], Len(Page(m, h2[i])))
      <3>1. \A j \in DOMAIN stack : stack[j].at # i
        <4> TAKE j \in DOMAIN stack
        <4>1. j + 1 \in DOMAIN new /\ new[j + 1] = stack[j]
          BY <1>3, <1>8
        <4> QED
          BY <2>5, <4>1
      <3>2. h2[i] = h[i]
        BY <1>7, <1>8
      <3> QED
        BY <3>1, <3>2 DEF Entries
    <2>6. count <= Capacity /\ DOMAIN list = 1..Capacity
      BY DEF Entries
    <2> QED
      BY <1>1, <1>6, <1>7, <2>1, <2>2, <2>3, <2>4, <2>5, <2>6 DEF Entries
  <1> QED
    BY <1>10, <1>11 DEF new, h2

\* The topmost callback comes to neighbour k.
GoesOn(stack, new, k) == new = [stack EXCEPT ![1].next = k]

\* The topmost callback goes on, which changes nothing of the others.
LEMMA OthersStay ==
    ASSUME NEW m \in Meshes, NEW place, NEW stack, Shape(m, place, stack), stack # <<>>,
           NEW k \in Nat, NEW new, GoesOn(stack, new, k)
    PROVE  /\ new \in Seq(CallsOf(m)) /\ new # <<>> /\ Len(new) = Len(stack)
           /\ DOMAIN new = DOMAIN stack /\ 1 \in DOMAIN stack
           /\ \A j \in DOMAIN stack : /\ new[j].at = stack[j].at /\ new[j].node = stack[j].node
                                      /\ new[j].back = stack[j].back
                                      /\ new[j].next = IF j = 1 THEN k ELSE stack[j].next
           /\ stack[1].node \in Routers(m) /\ stack[1].next \in Nat
  <1> DEFINE x == [stack[1] EXCEPT !.next = k]
  <1>1. stack \in Seq(CallsOf(m))
    BY DEF Shape
  <1>6. new = [stack EXCEPT ![1] = x]
    BY DEF GoesOn
  <1>2. stack[1] \in CallsOf(m) /\ 1 \in DOMAIN stack
    BY <1>1, Popped
  <1>3. x \in CallsOf(m) /\ x.next = k /\ x.at = stack[1].at /\ x.node = stack[1].node
        /\ x.back = stack[1].back /\ stack[1].node \in Routers(m) /\ stack[1].next \in Nat
    BY <1>2 DEF CallsOf
  <1> HIDE DEF x
  <1>4. new \in Seq(CallsOf(m)) /\ new # <<>> /\ Len(new) = Len(stack) /\ DOMAIN new = DOMAIN stack
        /\ new[1] = x /\ \A j \in DOMAIN stack : j # 1 => new[j] = stack[j]
    BY <1>1, <1>3, <1>6, Replaced
  <1>5. \A j \in DOMAIN stack : /\ new[j].at = stack[j].at /\ new[j].node = stack[j].node
                                /\ new[j].back = stack[j].back
                                /\ new[j].next = IF j = 1 THEN k ELSE stack[j].next
    BY <1>3, <1>4
  <1> QED
    BY <1>2, <1>3, <1>4, <1>5

\* A list that differs from another in one entry.
OneEntry(list, after, at, entry) ==
    /\ DOMAIN after = DOMAIN list /\ after[at] = entry
    /\ \A i \in DOMAIN list : i # at => after[i] = list[i]

\* A callback begins its entry.
LEMMA BeginKeeps ==
    ASSUME NEW p, NEW m \in Meshes, NEW stack, NEW h, NEW count, NEW list,
           Shape(m, "callback", stack), Entries(p, m, stack, h, count, list),
           stack[1].next = 0, stack[1].at <= Capacity,
           NEW new, GoesOn(stack, new, 1),
           NEW after, OneEntry(list, after, stack[1].at, EntryOf(p, m, stack[1].node, 0))
    PROVE  Shape(m, "callback", new) /\ Entries(p, m, new, h, count + 1, after)
  <1> DEFINE at == stack[1].at
  <1>a. stack # <<>> /\ 1 \in Nat
    BY DEF Shape
  <1>1. /\ new \in Seq(CallsOf(m)) /\ new # <<>> /\ Len(new) = Len(stack)
        /\ DOMAIN new = DOMAIN stack /\ 1 \in DOMAIN stack
        /\ \A j \in DOMAIN stack : /\ new[j].at = stack[j].at /\ new[j].node = stack[j].node
                                   /\ new[j].back = stack[j].back
                                   /\ new[j].next = IF j = 1 THEN 1 ELSE stack[j].next
        /\ stack[1].node \in Routers(m)
    BY <1>a, OthersStay
  <1>2. Fresh(stack) = 1 /\ Fresh(new) = 0
    BY <1>1 DEF Fresh
  <1>3. h \in Seq(Routers(m)) /\ count \in Nat /\ Len(h) = count + 1 /\ at = count + 1
        /\ DOMAIN list = 1..Capacity /\ at \in DOMAIN list /\ DOMAIN h = 1..(count + 1)
    BY <1>1, <1>2 DEF Entries
  <1>4. after[at] = EntryOf(p, m, stack[1].node, 0) /\ DOMAIN after = 1..Capacity
        /\ \A i \in 1..Capacity : i # at => after[i] = list[i]
    BY <1>3 DEF OneEntry
  <1>5. Shape(m, "callback", new)
    <2>1. Len(Page(m, stack[1].node)) \in Nat
      BY <1>1, PageIsSequence
    <2> QED
      BY <1>1, <2>1, SMTT(60) DEF Shape
  <1>6. \A j \in DOMAIN new : new[j].next # 0 =>
           after[new[j].at] = EntryOf(p, m, new[j].node, new[j].next - 1)
    <2> TAKE j \in DOMAIN new
    <2>1. CASE j = 1
      BY <1>1, <1>4, <2>1
    <2>2. CASE j # 1
      <3>1. stack[j].next # 0 /\ stack[j].at # at
        BY <1>1, <2>2 DEF Shape, Entries
      <3>2. stack[j].at \in 1..count
        BY <1>1, <1>3, <3>1 DEF Entries
      <3>3. after[stack[j].at] = list[stack[j].at]
        BY <1>3, <1>4, <3>1, <3>2, BoundsNatural
      <3> QED
        BY <1>1, <2>2, <3>1, <3>3 DEF Entries
    <2> QED
      BY <2>1, <2>2
  <1>7. ASSUME NEW i \in 1..(count + 1), \A j \in DOMAIN new : new[j].at # i
        PROVE  after[i] = EntryOf(p, m, h[i], Len(Page(m, h[i])))
    <2>1. \A j \in DOMAIN stack : stack[j].at # i
      BY <1>1, <1>7
    <2>2. i # at
      BY <1>1, <2>1
    <2>3. i \in 1..count /\ i \in 1..Capacity
      BY <1>3, <2>2, BoundsNatural
    <2> QED
      BY <1>4, <2>1, <2>2, <2>3 DEF Entries
  <1>8. Entries(p, m, new, h, count + 1, after)
    <2>1. \A j \in DOMAIN new : new[j].at \in DOMAIN h /\ h[new[j].at] = new[j].node
      BY <1>1 DEF Entries
    <2>2. \A i, j \in DOMAIN new : new[i].at = new[j].at => i = j
      BY <1>1 DEF Entries
    <2>3. \A j \in DOMAIN new : new[j].next # 0
      BY <1>1 DEF Shape
    <2>4. count + 1 \in Nat /\ count + 1 <= Capacity
      BY <1>3
    <2> QED
      BY <1>2, <1>3, <1>4, <1>6, <1>7, <2>1, <2>2, <2>3, <2>4 DEF Entries
  <1> QED
    BY <1>5, <1>8

\* A callback passes a neighbour.
LEMMA PassKeeps ==
    ASSUME NEW p, NEW m \in Meshes, NEW stack, NEW h, NEW count, NEW list,
           Shape(m, "callback", stack), Entries(p, m, stack, h, count, list),
           NEW k \in 1..Len(Page(m, stack[1].node)), k = stack[1].next,
           NEW new, GoesOn(stack, new, k + 1),
           NEW after, OneEntry(list, after, stack[1].at, EntryOf(p, m, stack[1].node, k)),
           NEW place \in {"callback", "send"}
    PROVE  Shape(m, place, new) /\ Entries(p, m, new, h, count, after)
  <1> DEFINE at == stack[1].at
             n == stack[1].node
  <1>a. stack # <<>> /\ k \in Nat /\ k + 1 \in Nat /\ k # 0
    BY DEF Shape
  <1>1. /\ new \in Seq(CallsOf(m)) /\ new # <<>> /\ Len(new) = Len(stack)
        /\ DOMAIN new = DOMAIN stack /\ 1 \in DOMAIN stack
        /\ \A j \in DOMAIN stack : /\ new[j].at = stack[j].at /\ new[j].node = stack[j].node
                                   /\ new[j].back = stack[j].back
                                   /\ new[j].next = IF j = 1 THEN k + 1 ELSE stack[j].next
        /\ n \in Routers(m)
    BY <1>a, OthersStay
  <1>2. k \in 1..Len(Page(m, n)) /\ Len(Page(m, n)) \in Nat
    BY <1>1, PageIsSequence
  <1>3. Fresh(stack) = 0 /\ Fresh(new) = 0
    <2>1. stack[1].next # 0 /\ new[1].next # 0
      BY <1>a, <1>1
    <2> QED
      BY <2>1 DEF Fresh
  <1>4. h \in Seq(Routers(m)) /\ count \in Nat /\ Len(h) = count /\ DOMAIN h = 1..count
        /\ count <= Capacity /\ DOMAIN list = 1..Capacity /\ at \in 1..count /\ at \in DOMAIN list
    <2>1. /\ h \in Seq(Routers(m)) /\ count \in Nat /\ Len(h) = count
          /\ count <= Capacity /\ DOMAIN list = 1..Capacity
      BY <1>3 DEF Entries
    <2>2. DOMAIN h = 1..count
      BY <2>1
    <2>3. at \in DOMAIN h
      BY <1>1 DEF Entries
    <2> QED
      BY <2>1, <2>2, <2>3, BoundsNatural
  <1>6. after[at] = EntryOf(p, m, n, k) /\ DOMAIN after = 1..Capacity
        /\ \A i \in 1..Capacity : i # at => after[i] = list[i]
    BY <1>4 DEF OneEntry
  <1>7. Shape(m, place, new)
    <2>1. \A j \in DOMAIN new : /\ new[j].next # 0
                                /\ new[j].next <= Len(Page(m, new[j].node)) + 1
      BY <1>a, <1>1, <1>2, SMTT(60) DEF Shape
    <2>2. \A j \in DOMAIN new : new[j].back = IF j = Len(new) THEN "loop" ELSE "callback"
      BY <1>1 DEF Shape
    <2> QED
      BY <1>1, <2>1, <2>2 DEF Shape
  <1>8. \A j \in DOMAIN new : new[j].next # 0 =>
           after[new[j].at] = EntryOf(p, m, new[j].node, new[j].next - 1)
    <2> TAKE j \in DOMAIN new
    <2>1. CASE j = 1
      <3>1. new[j].next - 1 = k
        BY <1>1, <1>2, <2>1, SMTT(60)
      <3> QED
        BY <1>1, <1>6, <2>1, <3>1
    <2>2. CASE j # 1
      <3>1. stack[j].next # 0 /\ stack[j].at # at
        BY <1>1, <2>2 DEF Shape, Entries
      <3>2. stack[j].at \in 1..count
        BY <1>1, <1>4 DEF Entries
      <3>3. stack[j].at \in 1..Capacity
        BY <1>4, <3>2, BoundsNatural, SMTT(60)
      <3>4. after[stack[j].at] = list[stack[j].at]
        BY <1>6, <3>1, <3>3
      <3> QED
        BY <1>1, <2>2, <3>1, <3>4 DEF Entries
    <2> QED
      BY <2>1, <2>2
  <1>9. ASSUME NEW i \in 1..count, \A j \in DOMAIN new : new[j].at # i
        PROVE  after[i] = EntryOf(p, m, h[i], Len(Page(m, h[i])))
    <2>1. \A j \in DOMAIN stack : stack[j].at # i
      BY <1>1, <1>9
    <2>2. i # at /\ i \in 1..Capacity
      BY <1>1, <1>4, <2>1, BoundsNatural, SMTT(60)
    <2> QED
      BY <1>6, <2>1, <2>2 DEF Entries
  <1>10. \A j \in DOMAIN new : new[j].next # 0
    BY <1>a, <1>1, SMTT(60) DEF Shape
  <1>11. \A j \in DOMAIN new : new[j].at \in DOMAIN h /\ h[new[j].at] = new[j].node
    BY <1>1, ZenonT(60) DEF Entries
  <1>12. \A i, j \in DOMAIN new : new[i].at = new[j].at => i = j
    BY <1>1 DEF Entries
  <1>13. Entries(p, m, new, h, count, after)
    BY <1>3, <1>4, <1>6, <1>8, <1>9, <1>10, <1>11, <1>12 DEF Entries
  <1> QED
    BY <1>7, <1>13

\* A callback returns with its entry complete.
LEMMA PopKeeps ==
    ASSUME NEW p, NEW m \in Meshes, NEW stack, NEW h, NEW count, NEW list,
           Shape(m, "callback", stack), Entries(p, m, stack, h, count, list),
           stack[1].next > Len(Page(m, stack[1].node))
    PROVE  Shape(m, stack[1].back, Tail(stack)) /\ Entries(p, m, Tail(stack), h, count, list)
  <1> DEFINE rest == Tail(stack)
             n == stack[1].node
  <1>1. stack \in Seq(CallsOf(m)) /\ stack # <<>>
    BY DEF Shape
  <1>2. /\ rest \in Seq(CallsOf(m)) /\ Len(rest) = Len(stack) - 1 /\ Len(stack) \in Nat \ {0}
        /\ stack[1] \in CallsOf(m) /\ DOMAIN stack = 1..Len(stack) /\ 1 \in DOMAIN stack
        /\ DOMAIN rest = 1..(Len(stack) - 1)
        /\ \A j \in DOMAIN rest : rest[j] = stack[j + 1] /\ j + 1 \in DOMAIN stack
    BY <1>1, Popped
  <1>3. n \in Routers(m) /\ stack[1].next \in Nat /\ Len(Page(m, n)) \in Nat
    <2>1. n \in Routers(m) /\ stack[1].next \in Nat
      BY <1>2 DEF CallsOf
    <2> QED
      BY <2>1, PageIsSequence
  <1>4. stack[1].next = Len(Page(m, n)) + 1
    BY <1>2, <1>3 DEF Shape
  <1>5. \A j \in DOMAIN stack : stack[j].next # 0
    BY <1>3, <1>4 DEF Shape
  <1>6. stack[1].back = IF rest = <<>> THEN "loop" ELSE "callback"
    <2>1. rest = <<>> <=> Len(rest) = 0
      BY <1>2, EmptyLength
    <2>2. stack[1].back = IF 1 = Len(stack) THEN "loop" ELSE "callback"
      BY <1>2 DEF Shape
    <2> HIDE DEF rest
    <2> QED
      BY <1>2, <2>1, <2>2
  <1> HIDE DEF rest
  <1>7. Shape(m, stack[1].back, rest)
    <2>1. \A j \in DOMAIN rest : rest[j].back = IF j = Len(rest) THEN "loop" ELSE "callback"
      BY <1>2 DEF Shape
    <2>2. \A j \in DOMAIN rest : /\ rest[j].next # 0
                                 /\ rest[j].next <= Len(Page(m, rest[j].node)) + 1
      BY <1>2, <1>5 DEF Shape
    <2> QED
      BY <1>2, <1>6, <2>1, <2>2 DEF Shape
  <1>8. Fresh(stack) = 0 /\ Fresh(rest) = 0
    <2>1. rest # <<>> => 1 \in DOMAIN rest
      BY <1>2
    <2> QED
      BY <1>2, <1>5, <2>1 DEF Fresh
  <1>9. \A i, j \in DOMAIN rest : rest[i].at = rest[j].at => i = j
    <2> TAKE i, j \in DOMAIN rest
    <2> SUFFICES ASSUME rest[i].at = rest[j].at PROVE i = j
      OBVIOUS
    <2>1. i + 1 = j + 1
      BY <1>2, SMTT(60) DEF Entries
    <2> QED
      BY <1>2, <2>1
  <1>10. ASSUME NEW i \in 1..count, \A j \in DOMAIN rest : rest[j].at # i
         PROVE  list[i] = EntryOf(p, m, h[i], Len(Page(m, h[i])))
    <2>1. CASE stack[1].at = i
      <3>1. list[i] = EntryOf(p, m, n, stack[1].next - 1) /\ h[i] = n
        BY <1>2, <1>5, <2>1 DEF Entries
      <3>2. stack[1].next - 1 = Len(Page(m, n))
        BY <1>3, <1>4
      <3> QED
        BY <3>1, <3>2
    <2>2. CASE stack[1].at # i
      <3>1. \A j \in DOMAIN stack : stack[j].at # i
        <4> TAKE j \in DOMAIN stack
        <4>1. CASE j = 1
          BY <2>2, <4>1
        <4>2. CASE j # 1
          <5>1. j - 1 \in DOMAIN rest /\ (j - 1) + 1 = j
            BY <1>2, <4>2
          <5>2. rest[j - 1] = stack[j]
            BY <1>2, <5>1
          <5> QED
            BY <1>10, <5>1, <5>2
        <4> QED
          BY <4>1, <4>2
      <3> QED
        BY <3>1 DEF Entries
    <2> QED
      BY <2>1, <2>2
  <1>11. Entries(p, m, rest, h, count, list)
    BY <1>2, <1>5, <1>8, <1>9, <1>10, SMTT(60) DEF Entries
  <1> QED
    BY <1>7, <1>11 DEF rest

\* Nothing is listed and nobody is asked.
LEMMA EmptyEntries ==
    ASSUME NEW p, NEW m, NEW list, DOMAIN list = 1..Capacity
    PROVE  Entries(p, m, <<>>, <<>>, 0, list)
  <1>1. Fresh(<<>>) = 0
    BY DEF Fresh
  <1> QED
    BY <1>1, BoundsNatural DEF Entries

\* A thread inside of the same callbacks is elsewhere.
LEMMA ShapeMoves ==
    ASSUME NEW m, NEW place, NEW stack, Shape(m, place, stack),
           NEW there \in {"console", "display", "send", "wait", "fetch", "loop", "callback"},
           there \in {"console", "display", "loop"} => stack = <<>>,
           there = "callback" => stack # <<>>, place # "callback"
    PROVE  Shape(m, there, stack)
  BY DEF Shape

\* At first nothing is listed.
LEMMA InitNwk == Init => NwkInv
  <1> HAVE Init
  <1>1. Chosen /\ NwkAlone
    BY DEF Init, Chosen, NwkAlone, Thread
  <1>2. Shape(mesh, "console", <<>>)
    BY DEF Shape
  <1>3. Entries(program, mesh, <<>>, <<>>, 0, nodeList)
    BY EmptyEntries DEF Init
  <1> QED
    BY <1>1, <1>2, <1>3 DEF Init, NwkInv, NwkEntries, Thread

\* The program and the mesh are chosen once.
LEMMA ChoiceKept == [Next]_vars => choice' = choice
  BY SMTT(60) DEF Next, AppStep, MsgStep, Step, Send, SrspGranted, SrspTimeout, Fetch, FetchTimeout,
         BeginEntry, PassOver, ListChild, CountRead, CallbackReturns, Change, SendData, Discover,
         LoopEnd, ShowNext, ShowEnds, DataSent, MsgWait, RxStep, RxPost, RxLinkSrsp, RxLinkAreq,
         NodeAnswers, NodeSilent, OnlyRx, OnlyNetwork, vars, choice

\* The second thread of nwkTopology does nothing.
LEMMA NoSecond == NwkInv /\ Nwk => ~MsgStep
  <1> HAVE NwkInv /\ Nwk
  <1>1. pc["msg"] = "idle" /\ program # "dataSendRcv"
    BY DEF NwkInv, NwkAlone, Nwk
  <1>2. ~Send("msg") /\ ~SrspGranted("msg") /\ ~SrspTimeout("msg") /\ ~Fetch("msg")
        /\ ~FetchTimeout("msg")
    BY <1>1 DEF Send, SrspGranted, SrspTimeout, Fetch, FetchTimeout
  <1>3. ~BeginEntry("msg") /\ ~PassOver("msg") /\ ~ListChild("msg") /\ ~CountRead("msg")
        /\ ~CallbackReturns("msg") /\ ~MsgWait
    BY <1>1 DEF BeginEntry, PassOver, ListChild, AtNeighbour, CountRead, CallbackReturns, MsgWait
  <1> QED
    BY <1>2, <1>3 DEF MsgStep, Step

\* The steps of nwkTopology, and what they leave alone.
NwkStep == \/ Send("app") \/ SrspGranted("app") \/ SrspTimeout("app") \/ Fetch("app")
           \/ FetchTimeout("app") \/ BeginEntry("app") \/ PassOver("app") \/ ListChild("app")
           \/ CallbackReturns("app") \/ Change \/ Discover \/ LoopEnd
           \/ RxStep \/ NodeAnswers \/ NodeSilent \/ UNCHANGED vars

\* Of the steps of dataSendRcv nwkTopology has none.
LEMMA NwkSteps == NwkInv /\ Nwk /\ [Next]_vars => NwkStep
  <1> HAVE NwkInv /\ Nwk /\ [Next]_vars
  <1>1. ~CountRead("app") /\ ~SendData /\ ~ShowNext /\ ~ShowEnds /\ ~DataSent
    BY DEF NwkInv, NwkEntries, Nwk, Shape, CountRead, SendData, ShowNext, ShowEnds, DataSent
  <1> QED
    BY <1>1, NoSecond DEF Next, AppStep, Step, NwkStep

\* The second thread stays idle.
LEMMA NwkAloneKept == ThreadsInv /\ NwkInv /\ [Next]_vars => Chosen' /\ NwkAlone'
  <1> HAVE ThreadsInv /\ NwkInv /\ [Next]_vars
  <1>1. program' = program /\ mesh' = mesh
    BY ChoiceKept DEF choice
  <1>2. ASSUME Nwk PROVE NwkAlone'
    <2>1. NwkStep
      BY <1>2, NwkSteps
    <2>a. pc \in [Thread -> Places \cup MsgPlaces] /\ calls \in [Thread -> Seq(Call)]
      BY DEF ThreadsInv
    <2>2. pc'["msg"] = "idle" /\ calls'["msg"] = <<>>
      <3>a. pc["msg"] = "idle" /\ calls["msg"] = <<>>
        BY <1>2 DEF NwkInv, NwkAlone
      <3>1. CASE UNCHANGED <<pc, calls>>
        BY <3>a, <3>1
      <3>2. CASE /\ pc' = pc \/ \E place : pc' = [pc EXCEPT !["app"] = place]
                 /\ calls' = calls \/ \E stack : calls' = [calls EXCEPT !["app"] = stack]
        BY <2>a, <3>a, <3>2 DEF Thread
      <3>3. CASE \/ Send("app") \/ SrspGranted("app") \/ SrspTimeout("app") \/ FetchTimeout("app")
                 \/ Change \/ Discover \/ LoopEnd
        BY <3>2, <3>3 DEF Send, SrspGranted, SrspTimeout, FetchTimeout, Change, Discover, LoopEnd,
                          Ask, Goes
      <3>4. CASE Fetch("app")
        BY <3>2, <3>4 DEF Fetch, Handle, Begins, Goes
      <3>5. CASE \/ BeginEntry("app") \/ PassOver("app") \/ ListChild("app")
                 \/ CallbackReturns("app")
        <4>1. calls' = calls \/ \E stack : calls' = [calls EXCEPT !["app"] = stack]
          BY <3>5 DEF BeginEntry, PassOver, ListChild, AtNeighbour, CallbackReturns
        <4>2. pc' = pc \/ \E place : pc' = [pc EXCEPT !["app"] = place]
          BY <3>5 DEF BeginEntry, PassOver, ListChild, AskIfRouter, Ask, CallbackReturns, Goes
        <4> QED
          BY <3>2, <4>1, <4>2
      <3>6. CASE RxStep \/ NodeAnswers \/ NodeSilent \/ UNCHANGED vars
        BY <3>1, <3>6 DEF RxStep, RxPost, RxLinkSrsp, RxLinkAreq, OnlyRx, NodeAnswers,
                          NodeSilent, OnlyNetwork, vars, threadVars
      <3> QED
        BY <2>1, <3>3, <3>4, <3>5, <3>6 DEF NwkStep
    <2>3. phase' = "discover"
      BY <1>2, <2>1
         DEF NwkInv, NwkAlone, Nwk, NwkStep, Send, SrspGranted, SrspTimeout, Fetch,
             FetchTimeout, BeginEntry, PassOver, ListChild, CallbackReturns, Change, Discover,
             LoopEnd, RxStep, RxPost, RxLinkSrsp, RxLinkAreq, OnlyRx, NodeAnswers, NodeSilent,
             OnlyNetwork, vars, appVars
    <2>4. alone'
      BY <1>2, <2>1
         DEF NwkInv, NwkAlone, NwkStep, Send, SrspGranted, SrspTimeout, Fetch,
             FetchTimeout, BeginEntry, PassOver, ListChild, CallbackReturns, Change, Discover,
             LoopEnd, RxStep, RxPost, RxLinkSrsp, RxLinkAreq, OnlyRx, NodeAnswers, NodeSilent,
             OnlyNetwork, vars, historyVars
    <2> QED
      BY <2>2, <2>3, <2>4 DEF NwkAlone
  <1> QED
    BY <1>1, <1>2 DEF NwkInv, Chosen, NwkAlone, Nwk

\* The topmost callback is at an entry inside of the list, which it has filled so far.
LEMMA TopEntry ==
    ASSUME NEW p, NEW m \in Meshes, NEW s, NEW h, NEW count, NEW list,
           Shape(m, "callback", s), Entries(p, m, s, h, count, list)
    PROVE  /\ s[1] \in CallsOf(m) /\ s[1].at \in Nat \ {0} /\ s # <<>>
           /\ s[1].at <= Capacity => s[1].at \in DOMAIN list
           /\ s[1].next # 0 => /\ s[1].at \in DOMAIN list
                              /\ list[s[1].at] = EntryOf(p, m, s[1].node, s[1].next - 1)
  <1> DEFINE c == s[1]
  <1>1. 1 \in DOMAIN s /\ c \in CallsOf(m) /\ s # <<>>
    BY Popped DEF Shape
  <1>2. c.at \in DOMAIN h /\ h \in Seq(Routers(m)) /\ DOMAIN list = 1..Capacity
    BY <1>1 DEF Entries
  <1>3. c.at \in Nat \ {0}
    BY <1>2
  <1>4. c.at <= Capacity => c.at \in DOMAIN list
    <2> HIDE DEF c
    <2> QED
      BY <1>2, <1>3, BoundsNatural
  <1>5. ASSUME c.next # 0
        PROVE  c.at \in DOMAIN list /\ list[c.at] = EntryOf(p, m, c.node, c.next - 1)
    <2>1. Fresh(s) = 0
      BY <1>5 DEF Fresh
    <2>2. Len(h) = count /\ count <= Capacity /\ count \in Nat
      BY <2>1 DEF Entries
    <2>3. c.at <= Capacity
      <3> HIDE DEF c
      <3> QED
        BY <1>2, <2>2, BoundsNatural
    <2>4. list[c.at] = EntryOf(p, m, c.node, c.next - 1)
      BY <1>1, <1>5 DEF Entries
    <2> QED
      BY <1>4, <2>3, <2>4
  <1> QED
    BY <1>1, <1>3, <1>4, <1>5

\* What a callback does to its entry when it goes past a neighbour.
LEMMA ChildListed ==
    ASSUME mesh \in Meshes, NEW n \in Routers(mesh), NEW k \in 1..Len(Page(mesh, n)),
           calls["app"][1].node = n, calls["app"][1].next = k, NEW at \in DOMAIN nodeList,
           Slot("app") = at, nodeList[at] = EntryOf(program, mesh, n, k - 1),
           PassOver("app") \/ ListChild("app")
    PROVE  OneEntry(nodeList, nodeList', at, EntryOf(program, mesh, n, k))
  <1> DEFINE x == Page(mesh, n)[k]
             F == EntryOf(program, mesh, n, k)
  <1>1. Grows(program, mesh, n, k)
    BY EntryGrows
  <1>2. CASE PassOver("app")
    <2>1. ~Accepts(program, x.relation) /\ nodeList' = nodeList
      BY <1>2 DEF PassOver, Neighbour, listVars
    <2> QED
      BY <1>1, <2>1, SMTT(60) DEF OneEntry, Grows
  <1>3. CASE ListChild("app")
    <2> DEFINE y == [addr |-> x.addr, type |-> x.type]
    <2>1. /\ Accepts(program, x.relation)
          /\ nodeList' = [nodeList EXCEPT ![at].children = Append(@, y)]
      BY <1>3, ZenonT(60) DEF ListChild, Neighbour
    <2>2. F = [nodeList[at] EXCEPT !.children = Append(nodeList[at].children, y)]
      BY <1>1, <2>1, ZenonT(60) DEF Grows
    <2>3. nodeList' = [nodeList EXCEPT ![at] =
                          [nodeList[at] EXCEPT !.children = Append(nodeList[at].children, y)]]
      BY <2>1, ZenonT(60)
    <2> HIDE DEF F, y
    <2>4. nodeList' = [nodeList EXCEPT ![at] = F]
      BY <2>2, <2>3, SMTT(60)
    <2>5. OneEntry(nodeList, nodeList', at, F)
      BY <2>4 DEF OneEntry
    <2> QED
      BY <2>5 DEF F
  <1> QED
    BY <1>2, <1>3

\* A step that moves the thread of nwkTopology keeps the list if the new place, the new
\* callbacks and the new list fit together.
LEMMA NwkEntriesFrom ==
    ASSUME ThreadsInv, choice' = choice, NEW place, NEW stack, place # "display",
           Moves("app", place, stack), Shape(mesh, place, stack),
           Entries(program, mesh, stack, handled', nodeCount', nodeList')
    PROVE  NwkEntries'
  <1>1. pc'["app"] = place /\ calls'["app"] = stack
    BY DEF ThreadsInv, Moves, Thread
  <1>2. mesh' = mesh /\ program' = program
    BY DEF choice
  <1> QED
    BY <1>1, <1>2 DEF NwkEntries

\* Every step keeps the list of nwkTopology in step with its callbacks.
LEMMA NwkEntriesKept == ThreadsInv /\ NwkInv /\ [Next]_vars => NwkEntries'
  <1> HAVE ThreadsInv /\ NwkInv /\ [Next]_vars
  <1> DEFINE s == calls["app"]
             c == s[1]
             n == c.node
  <1>a. choice' = choice
    BY ChoiceKept
  <1>b. CASE ~Nwk
    BY <1>a, <1>b DEF NwkEntries, Nwk, choice
  <1> SUFFICES ASSUME Nwk PROVE NwkEntries'
    BY <1>b
  <1>1. /\ mesh \in Meshes /\ Shape(mesh, pc["app"], s) /\ phase = "discover"
        /\ Entries(program, mesh, s, handled, nodeCount, nodeList)
        /\ pc["app"] = "display" => handled = <<>> /\ nodeCount = 0
    BY DEF NwkInv, NwkEntries, NwkAlone, Chosen
  <1>2. /\ pc["app"] \in {"console", "display", "loop"} => s = <<>>
        /\ pc["app"] = "callback" => s # <<>>
        /\ DOMAIN nodeList = 1..Capacity /\ nodeCount \in Nat
    BY <1>1 DEF Shape, Entries
  <1>3. pc \in [Thread -> Places \cup MsgPlaces] /\ calls \in [Thread -> Seq(Call)]
    BY DEF ThreadsInv
  <1>4. calls = [calls EXCEPT !["app"] = s] /\ pc = [pc EXCEPT !["app"] = pc["app"]]
    BY <1>3
  <1>5. ASSUME UNCHANGED <<handled, nodeCount, nodeList, calls>>, pc["app"] # "callback",
               NEW there \in {"console", "send", "wait", "fetch", "loop", "callback"},
               pc' = [pc EXCEPT !["app"] = there],
               there \in {"console", "loop"} => s = <<>>, there = "callback" => s # <<>>
        PROVE  NwkEntries'
    <2>1. Shape(mesh, there, s)
      BY <1>1, <1>5, ShapeMoves
    <2>2. Moves("app", there, s)
      BY <1>4, <1>5 DEF Moves
    <2>3. Entries(program, mesh, s, handled', nodeCount', nodeList')
      BY <1>1, <1>5
    <2> QED
      BY <1>a, <1>5, <2>1, <2>2, <2>3, NwkEntriesFrom
  <1>6. CASE UNCHANGED <<handled, nodeCount, nodeList, calls, pc>>
    BY <1>a, <1>1, <1>6 DEF NwkEntries, choice
  <1>7. CASE RxStep \/ NodeAnswers \/ NodeSilent \/ UNCHANGED vars
    BY <1>6, <1>7 DEF RxStep, RxPost, RxLinkSrsp, RxLinkAreq, OnlyRx, NodeAnswers, NodeSilent,
                      OnlyNetwork, vars, listVars, threadVars, historyVars
  <1>8. CASE Change
    <2>1. /\ pc' = [pc EXCEPT !["app"] = "display"] /\ calls' = calls /\ handled' = <<>>
          /\ nodeCount' = 0 /\ nodeList' = nodeList /\ pc["app"] = "console"
      BY <1>8 DEF Change, Goes
    <2>2. pc'["app"] = "display" /\ calls'["app"] = s
      BY <1>3, <2>1 DEF Thread
    <2>3. Shape(mesh, "display", s) /\ s = <<>>
      BY <1>1, <1>2, <2>1, ShapeMoves
    <2>4. Entries(program, mesh, <<>>, <<>>, 0, nodeList)
      BY <1>2, EmptyEntries
    <2> HIDE DEF s
    <2> QED
      BY <1>a, <2>1, <2>2, <2>3, <2>4 DEF NwkEntries, choice
  <1>9. CASE Discover
    <2>1. /\ pc' = [pc EXCEPT !["app"] = "send"] /\ nodeCount' = 0
          /\ UNCHANGED <<calls, handled, nodeList>> /\ pc["app"] = "display"
      BY <1>9 DEF Discover, Ask, Goes, historyVars
    <2> QED
      BY <1>1, <1>5, <2>1
  <1>10. CASE LoopEnd
    <2>1. /\ pc' = [pc EXCEPT !["app"] = "console"] /\ pc["app"] = "loop"
          /\ UNCHANGED <<handled, nodeCount, nodeList, calls>>
      BY <1>10 DEF LoopEnd, Nwk, Goes, listVars, historyVars
    <2> QED
      BY <1>2, <1>5, <2>1
  <1>11. CASE Send("app")
    <2>1. /\ pc' = [pc EXCEPT !["app"] = "wait"] /\ pc["app"] = "send"
          /\ UNCHANGED <<handled, nodeCount, nodeList, calls>>
      BY <1>11 DEF Send, Goes, listVars, historyVars
    <2> QED
      BY <1>5, <2>1
  <1>12. CASE SrspGranted("app")
    <2>1. /\ pc' = [pc EXCEPT !["app"] = "fetch"] /\ pc["app"] = "wait"
          /\ UNCHANGED <<handled, nodeCount, nodeList, calls>>
      BY <1>12 DEF SrspGranted, Goes, listVars, historyVars
    <2> QED
      BY <1>5, <2>1
  <1>13. /\ After("app", "fetch") = IF s = <<>> THEN "loop" ELSE "callback"
         /\ After("app", "loop") = "loop"
    BY <1>1 DEF After
  <1>14. CASE SrspTimeout("app")
    <2>1. /\ pc' = [pc EXCEPT !["app"] = After("app", "fetch")] /\ pc["app"] = "wait"
          /\ UNCHANGED <<handled, nodeCount, nodeList, calls>>
      BY <1>14 DEF SrspTimeout, Goes, listVars, historyVars
    <2> QED
      BY <1>5, <1>13, <2>1
  <1>15. pc["app"] \notin {"get", "confirm", "poll"}
    BY <1>1 DEF Shape
  <1>16. CASE FetchTimeout("app")
    <2>1. /\ pc' = [pc EXCEPT !["app"] = After("app", "fetch")] /\ pc["app"] = "fetch"
          /\ UNCHANGED <<handled, nodeCount, nodeList, calls>>
      BY <1>15, <1>16 DEF FetchTimeout, Goes, listVars, historyVars
    <2> QED
      BY <1>5, <1>13, <2>1
  <1>17. CASE Fetch("app")
    <2> DEFINE frame == Head(queue)
               back == IF s = <<>> THEN "loop" ELSE "callback"
               new == [node |-> frame.from, next |-> 0, at |-> nodeCount + 1, back |-> back]
    <2>1. /\ pc["app"] \in {"fetch", "loop"} /\ After("app", pc["app"]) = back
          /\ UNCHANGED <<nodeCount, nodeList>> /\ Handle("app", frame, back)
      BY <1>2, <1>13, <1>15, <1>17 DEF Fetch, listVars
    <2>2. CASE Succeeds(frame) /\ Begins("app", frame, back)
      <3>1. frame.from \in Routers(mesh)
        BY <2>2 DEF Succeeds
      <3>2. /\ Shape(mesh, "callback", <<new>> \o s)
            /\ Entries(program, mesh, <<new>> \o s, Append(handled, frame.from), nodeCount, nodeList)
        <4> HIDE DEF s, frame
        <4> QED
          BY <1>1, <2>1, <3>1, PushKeeps
      <3>3. Moves("app", "callback", <<new>> \o s) /\ handled' = Append(handled, frame.from)
        BY <2>2 DEF Begins, Goes, Moves
      <3> QED
        BY <1>a, <2>1, <3>2, <3>3, NwkEntriesFrom
    <2>3. CASE Goes("app", back) /\ UNCHANGED <<calls, handled>>
      <3>1. pc' = [pc EXCEPT !["app"] = back]
        BY <2>3 DEF Goes
      <3> QED
        BY <1>5, <2>1, <2>3, <3>1
    <2> QED
      BY <2>1, <2>2, <2>3 DEF Handle
  <1>18. ASSUME pc["app"] = "callback"
         PROVE  n \in Routers(mesh) /\ c.next \in Nat /\ c.at \in Nat /\ c.back \in Returns
    <2>1. s \in Seq(CallsOf(mesh)) /\ s # <<>>
      BY <1>1, <1>18 DEF Shape
    <2>2. c \in CallsOf(mesh)
      BY <2>1, Popped
    <2> QED
      BY <2>2 DEF CallsOf
  <1>19. CASE BeginEntry("app")
    <2> DEFINE new == [s EXCEPT ![1].next = 1]
    <2>1. /\ pc["app"] = "callback" /\ c.next = 0 /\ c.at <= Capacity
          /\ nodeList' = [nodeList EXCEPT ![c.at] =
                             [addr |-> n,
                              type |-> IF n = Coordinator THEN "coordinator" ELSE "router",
                              children |-> <<>>]]
          /\ nodeCount' = nodeCount + 1 /\ pc' = pc /\ handled' = handled
          /\ calls' = [calls EXCEPT !["app"] = new]
      BY <1>19 DEF BeginEntry, Slot, Nwk, historyVars
    <2>2. GoesOn(s, new, 1) /\ Moves("app", "callback", new)
      BY <1>4, <2>1 DEF GoesOn, Moves
    <2>3. OneEntry(nodeList, nodeList', c.at, EntryOf(program, mesh, n, 0))
      <3>1. c.at \in DOMAIN nodeList
        BY <1>1, <2>1, TopEntry
      <3>2. EntryOf(program, mesh, n, 0) = [addr |-> n,
                              type |-> IF n = Coordinator THEN "coordinator" ELSE "router",
                              children |-> <<>>]
        BY <1>1, <1>18, <2>1, EntryBegins
      <3> HIDE DEF c
      <3> QED
        BY <2>1, <3>1, <3>2 DEF OneEntry
    <2>4. Shape(mesh, "callback", s)
      BY <1>1, <2>1
    <2>5. /\ Shape(mesh, "callback", new)
          /\ Entries(program, mesh, new, handled, nodeCount + 1, nodeList')
      <3> HIDE DEF s, new
      <3> QED
        BY <1>1, <2>1, <2>2, <2>3, <2>4, BeginKeeps
    <2> QED
      BY <1>a, <2>1, <2>2, <2>5, NwkEntriesFrom
  <1>20. CASE PassOver("app") \/ ListChild("app")
    <2> DEFINE new == [s EXCEPT ![1].next = @ + 1]
    <2>1. /\ pc["app"] = "callback" /\ c.next \in DOMAIN Page(mesh, n)
          /\ calls' = [calls EXCEPT !["app"] = new]
          /\ UNCHANGED <<handled, nodeCount>>
      BY <1>20 DEF PassOver, ListChild, AtNeighbour, listVars, historyVars
    <2>2. c.next \in 1..Len(Page(mesh, n))
      <3>1. Page(mesh, n) \in Seq(Neighbours(mesh, n))
        BY <1>1, <1>18, <2>1, PageIsSequence
      <3> QED
        BY <2>1, <3>1
    <2>3. GoesOn(s, new, c.next + 1)
      BY DEF GoesOn
    <2>4. \E place \in {"callback", "send"} : Moves("app", place, new)
      BY <1>4, <1>20, <2>1 DEF PassOver, ListChild, AskIfRouter, Ask, Goes, Moves
    <2>5. c.at \in DOMAIN nodeList /\ nodeList[c.at] = EntryOf(program, mesh, n, c.next - 1)
      <3>1. c.next # 0
        BY <2>2
      <3> QED
        BY <1>1, <2>1, <3>1, TopEntry
    <2>6. OneEntry(nodeList, nodeList', c.at, EntryOf(program, mesh, n, c.next))
      <3>1. Slot("app") = c.at
        BY DEF Slot, Nwk
      <3> QED
        BY <1>1, <1>18, <1>20, <2>1, <2>2, <2>5, <3>1, ChildListed
    <2>7. PICK place \in {"callback", "send"} : Moves("app", place, new)
      BY <2>4
    <2>8. Shape(mesh, "callback", s)
      BY <1>1, <2>1
    <2>9. Shape(mesh, place, new) /\ Entries(program, mesh, new, handled, nodeCount, nodeList')
      <3> HIDE DEF s, new
      <3> QED
        BY <1>1, <2>2, <2>3, <2>6, <2>8, PassKeeps
    <2> QED
      BY <1>a, <2>1, <2>7, <2>9, NwkEntriesFrom
  <1>21. CASE CallbackReturns("app")
    <2>1. /\ pc["app"] = "callback" /\ c.next > Len(Page(mesh, n))
          /\ UNCHANGED <<nodeCount, nodeList, handled>> /\ Moves("app", c.back, Tail(s))
      <3>1. pc["app"] # "count"
        BY <1>1 DEF Shape
      <3> QED
        BY <1>21, <3>1 DEF CallbackReturns, Goes, Moves, historyVars
    <2>2. Shape(mesh, "callback", s)
      BY <1>1, <2>1
    <2>3. Shape(mesh, c.back, Tail(s)) /\ Entries(program, mesh, Tail(s), handled, nodeCount, nodeList)
      <3> HIDE DEF s
      <3> QED
        BY <1>1, <2>1, <2>2, PopKeeps
    <2>4. c.back # "display"
      BY <2>1, <1>18 DEF Returns
    <2> QED
      BY <1>a, <2>1, <2>3, <2>4, NwkEntriesFrom
  <1> QED
    <2>1. NwkStep
      BY NwkSteps
    <2> QED
      BY <2>1, <1>7, <1>8, <1>9, <1>10, <1>11, <1>12, <1>14, <1>16, <1>17, <1>19, <1>20, <1>21
         DEF NwkStep

\* With no callback at work, Entries is what EntriesOwn says.
LEMMA EntriesListed ==
    ASSUME Entries(program, mesh, <<>>, handled, nodeCount, nodeList)
    PROVE  /\ nodeCount = Len(handled)
           /\ \A i \in 1..nodeCount : nodeList[i] = Plain(handled[i])
  <1>1. Fresh(<<>>) = 0
    BY DEF Fresh
  <1>2. nodeCount = Len(handled)
    BY <1>1 DEF Entries
  <1>3. ASSUME NEW i \in 1..nodeCount PROVE nodeList[i] = Plain(handled[i])
    <2>1. nodeList[i] = EntryOf(program, mesh, handled[i], Len(Page(mesh, handled[i])))
      BY DEF Entries
    <2> QED
      BY <2>1, EntryEnds
  <1> QED
    BY <1>2, <1>3

-----------------------------------------------------------------------------
(* nwkTopology asks every router once.                                     *)

\* A bag that has one copy of x more.
OneMore(bag, after, x) ==
    \A y : Copies(after, y) = Copies(bag, y) + (IF y = x THEN 1 ELSE 0)

\* A question is added, ...
LEMMA CopiesAdd ==
    ASSUME NEW Q, NEW bag, BagOf(Q, bag), NEW x \in Q
    PROVE  BagOf(Q, bag (+) SetToBag({x})) /\ OneMore(bag, bag (+) SetToBag({x}), x)
  BY DEF BagOf, OneMore, Copies, (+), SetToBag

\* ... or answered.
LEMMA CopiesTaken ==
    ASSUME NEW Q, NEW bag, BagOf(Q, bag), NEW x \in BagToSet(bag)
    PROVE  /\ BagOf(Q, bag (-) SetToBag({x})) /\ x \in Q
           /\ OneMore(bag (-) SetToBag({x}), bag, x)
  BY DEF BagOf, OneMore, Copies, (-), SetToBag, BagToSet

\* Where a token can be, each part is a number.
LEMMA PartsNat ==
    ASSUME NEW m, NEW place, NEW ask, NEW bag, NEW l, NEW q, Kinds(m, place, ask, bag, l, q),
           NEW R, NEW h \in Seq(R), NEW r
    PROVE  /\ About(place, ask, r) \in {0, 1} /\ Copies(bag, Lqi(r)) \in Nat
           /\ Occurrences(l, Answer(r)) \in Nat /\ Occurrences(q, Answer(r)) \in Nat
           /\ Occurrences(h, r) \in Nat
  <1>1. About(place, ask, r) \in {0, 1} /\ Copies(bag, Lqi(r)) \in Nat
    BY DEF Kinds, BagOf, About, Copies
  <1>2. l \in Seq(Frames(m)) /\ q \in Seq(Frames(m))
    BY DEF Kinds
  <1>3. Occurrences(l, Answer(r)) \in Nat /\ Occurrences(q, Answer(r)) \in Nat
        /\ Occurrences(h, r) \in Nat
    BY <1>2, OccurrencesNat
  <1> QED
    BY <1>1, <1>3

\* Requests and answers of different routers differ.
LEMMA Different ==
    /\ \A r1, r2 : (Lqi(r1) = Lqi(r2) <=> r1 = r2) /\ (Answer(r1) = Answer(r2) <=> r1 = r2)
    /\ \A r : Answer(r) # Srsp /\ Answer(r).kind = "lqi" /\ Answer(r).from = r /\ Srsp.kind = "srsp"
    /\ \A r : Lqi(r).kind = "lqi" /\ Lqi(r).to = r
  BY DEF Lqi, Answer, Srsp

\* The callbacks that have a response and a neighbour behind them.
LEMMA BeyondGoesOn ==
    ASSUME NEW m \in Meshes, NEW place, NEW stack, Shape(m, place, stack), stack # <<>>,
           \A i, j \in DOMAIN stack : stack[i].at = stack[j].at => i = j,
           NEW next \in Nat, NEW new, GoesOn(stack, new, next), NEW i, NEW k
    PROVE  /\ Beyond(new, i, k) <=> IF i = stack[1].at THEN k < next ELSE Beyond(stack, i, k)
           /\ i = stack[1].at => (Beyond(stack, i, k) <=> k < stack[1].next)
  <1>1. /\ DOMAIN new = DOMAIN stack /\ 1 \in DOMAIN stack
        /\ \A j \in DOMAIN stack : /\ new[j].at = stack[j].at
                                   /\ new[j].next = IF j = 1 THEN next ELSE stack[j].next
    BY OthersStay
  <1> QED
    BY <1>1 DEF Beyond

\* A response that has just come has no neighbour behind it.
LEMMA PassedPush ==
    ASSUME NEW p, NEW m \in Meshes, NEW stack, NEW h, NEW n \in Routers(m),
           stack \in Seq(CallsOf(m)), h \in Seq(Routers(m)),
           NEW c \in CallsOf(m), c.node = n, c.next = 0, c.at = Len(h) + 1, NEW r
    PROVE  Passed(p, m, <<c>> \o stack, Append(h, n), r) <=> Passed(p, m, stack, h, r)
  <1> DEFINE new == <<c>> \o stack
             h2 == Append(h, n)
  <1>1. /\ new[1] = c /\ 1 \in DOMAIN new
        /\ \A j \in DOMAIN stack : new[j + 1] = stack[j] /\ j + 1 \in DOMAIN new
        /\ \A j \in DOMAIN new : j = 1 \/ (j - 1 \in DOMAIN stack /\ (j - 1) + 1 = j)
    <2>1. /\ new[1] = c /\ new \in Seq(CallsOf(m)) /\ Len(new) = Len(stack) + 1
          /\ \A j \in DOMAIN stack : new[j + 1] = stack[j]
      BY Pushed
    <2>2. DOMAIN new = 1..(Len(stack) + 1) /\ DOMAIN stack = 1..Len(stack) /\ Len(stack) \in Nat
      BY <2>1
    <2> HIDE DEF new
    <2> QED
      BY <2>1, <2>2
  <1>2. /\ h2 \in Seq(Routers(m)) /\ h2[Len(h) + 1] = n /\ Len(h) + 1 \in DOMAIN h2
        /\ \A i \in DOMAIN h : i \in DOMAIN h2 /\ h2[i] = h[i] /\ i # Len(h) + 1
        /\ \A i \in DOMAIN h2 : i = Len(h) + 1 \/ i \in DOMAIN h
    OBVIOUS
  <1>3. \A k \in DOMAIN Page(m, n) : ~(k < 0)
    <2>1. Page(m, n) \in Seq(Neighbours(m, n))
      BY PageIsSequence
    <2> QED
      BY <2>1
  <1> HIDE DEF new, h2
  <1>4. \A j \in DOMAIN new : j = 1 \/ new[j] = stack[j - 1]
    <2> TAKE j \in DOMAIN new
    <2> SUFFICES ASSUME j # 1 PROVE new[j] = stack[j - 1]
      OBVIOUS
    <2>1. new[(j - 1) + 1] = stack[j - 1]
      BY <1>1
    <2> QED
      BY <1>1, <2>1
  <1>5. \A k : Beyond(new, Len(h) + 1, k) => k < 0
    BY <1>1 DEF Beyond
  <1>6. \A k : \A i \in DOMAIN h : Beyond(new, i, k) <=> Beyond(stack, i, k)
    <2> TAKE k
    <2> TAKE i \in DOMAIN h
    <2>1. Beyond(new, i, k) => Beyond(stack, i, k)
      <3> SUFFICES ASSUME Beyond(new, i, k), NEW j \in DOMAIN stack, stack[j].at = i
                   PROVE  k < stack[j].next
        BY DEF Beyond
      <3>1. new[j + 1] = stack[j] /\ j + 1 \in DOMAIN new
        BY <1>1
      <3> QED
        BY <3>1 DEF Beyond
    <2>2. Beyond(stack, i, k) => Beyond(new, i, k)
      BY <1>1, <1>2, <1>4 DEF Beyond
    <2> QED
      BY <2>1, <2>2
  <1>7. Passed(p, m, new, h2, r) => Passed(p, m, stack, h, r)
    BY <1>2, <1>3, <1>5, <1>6 DEF Passed
  <1>8. Passed(p, m, stack, h, r) => Passed(p, m, new, h2, r)
    BY <1>2, <1>6 DEF Passed
  <1> QED
    BY <1>7, <1>8 DEF new, h2

\* A callback that goes on passes one neighbour.
LEMMA PassedGoesOn ==
    ASSUME NEW p, NEW m \in Meshes, NEW stack, NEW h, NEW count, NEW list,
           Shape(m, "callback", stack), Entries(p, m, stack, h, count, list),
           NEW k \in DOMAIN Page(m, stack[1].node), k = stack[1].next,
           NEW new, GoesOn(stack, new, k + 1), NEW r
    PROVE  Passed(p, m, new, h, r)
              <=> Passed(p, m, stack, h, r) \/ Names(p, Page(m, stack[1].node)[k], r)
  <1> DEFINE at == stack[1].at
             n == stack[1].node
  <1>1. stack # <<>> /\ stack \in Seq(CallsOf(m)) /\ h \in Seq(Routers(m))
    BY DEF Shape, Entries
  <1>2. 1 \in DOMAIN stack /\ stack[1] \in CallsOf(m)
    BY <1>1, Popped
  <1>3. at \in DOMAIN h /\ h[at] = n /\ n \in Routers(m)
    BY <1>2 DEF Entries, CallsOf
  <1>4. Page(m, n) \in Seq(Neighbours(m, n))
    BY <1>3, PageIsSequence
  <1>5. k \in Nat /\ k + 1 \in Nat /\ DOMAIN Page(m, n) \subseteq Nat
    BY <1>4
  <1>6. \A i, j : /\ Beyond(new, i, j) <=> IF i = at THEN j < k + 1 ELSE Beyond(stack, i, j)
                  /\ i = at => (Beyond(stack, i, j) <=> j < k)
    <2>1. \A i, j \in DOMAIN stack : stack[i].at = stack[j].at => i = j
      BY DEF Entries
    <2> QED
      BY <1>1, <1>5, <2>1, BeyondGoesOn
  <1> HIDE DEF at, n
  <1>7. \A j \in DOMAIN Page(m, n) : j < k + 1 <=> j < k \/ j = k
    BY <1>5
  <1>8. Passed(p, m, new, h, r) => Passed(p, m, stack, h, r) \/ Names(p, Page(m, n)[k], r)
    BY <1>3, <1>6, <1>7 DEF Passed
  <1>9. Passed(p, m, stack, h, r) => Passed(p, m, new, h, r)
    BY <1>3, <1>6, <1>7 DEF Passed
  <1>10. Names(p, Page(m, n)[k], r) => Passed(p, m, new, h, r)
    <2>1. k \in DOMAIN Page(m, n)
      BY DEF n
    <2> QED
      BY <1>3, <1>6, <1>7, <2>1 DEF Passed
  <1> QED
    BY <1>8, <1>9, <1>10 DEF n

\* A callback that begins its entry passes none, ...
LEMMA PassedBegin ==
    ASSUME NEW p, NEW m \in Meshes, NEW stack, NEW h, NEW count, NEW list,
           Shape(m, "callback", stack), Entries(p, m, stack, h, count, list),
           stack[1].next = 0, NEW new, GoesOn(stack, new, 1), NEW r
    PROVE  Passed(p, m, new, h, r) <=> Passed(p, m, stack, h, r)
  <1> DEFINE at == stack[1].at
             n == stack[1].node
  <1>1. stack # <<>> /\ stack \in Seq(CallsOf(m)) /\ h \in Seq(Routers(m)) /\ 1 \in Nat
    BY DEF Shape, Entries
  <1>2. 1 \in DOMAIN stack /\ stack[1] \in CallsOf(m)
    BY <1>1, Popped
  <1>3. at \in DOMAIN h /\ h[at] = n /\ n \in Routers(m)
    BY <1>2 DEF Entries, CallsOf
  <1>4. Page(m, n) \in Seq(Neighbours(m, n))
    BY <1>3, PageIsSequence
  <1>5. \A j \in DOMAIN Page(m, n) : ~(j < 0) /\ ~(j < 1)
    BY <1>4
  <1>6. \A i, j : /\ Beyond(new, i, j) <=> IF i = at THEN j < 1 ELSE Beyond(stack, i, j)
                  /\ i = at => (Beyond(stack, i, j) <=> j < 0)
    <2>1. \A i, j \in DOMAIN stack : stack[i].at = stack[j].at => i = j
      BY DEF Entries
    <2> QED
      BY <1>1, <2>1, BeyondGoesOn
  <1> HIDE DEF at, n
  <1> QED
    BY <1>3, <1>5, <1>6 DEF Passed

\* ... and one that returns has passed them all.
LEMMA PassedPop ==
    ASSUME NEW p, NEW m \in Meshes, NEW stack, NEW h, NEW count, NEW list,
           Shape(m, "callback", stack), Entries(p, m, stack, h, count, list),
           stack[1].next > Len(Page(m, stack[1].node)), NEW r
    PROVE  Passed(p, m, Tail(stack), h, r) <=> Passed(p, m, stack, h, r)
  <1> DEFINE at == stack[1].at
             n == stack[1].node
             rest == Tail(stack)
  <1>1. stack # <<>> /\ stack \in Seq(CallsOf(m)) /\ h \in Seq(Routers(m))
    BY DEF Shape, Entries
  <1>2. /\ 1 \in DOMAIN stack /\ stack[1] \in CallsOf(m) /\ DOMAIN stack = 1..Len(stack)
        /\ DOMAIN rest = 1..(Len(stack) - 1) /\ Len(stack) \in Nat
        /\ \A j \in DOMAIN rest : rest[j] = stack[j + 1] /\ j + 1 \in DOMAIN stack
    BY <1>1, Popped
  <1>3. at \in DOMAIN h /\ h[at] = n /\ n \in Routers(m) /\ stack[1].next \in Nat
    BY <1>2 DEF Entries, CallsOf
  <1>4. Page(m, n) \in Seq(Neighbours(m, n))
    BY <1>3, PageIsSequence
  <1>5. \A j \in DOMAIN Page(m, n) : j < stack[1].next
    BY <1>3, <1>4
  <1>6. \A j \in DOMAIN stack : j # 1 => j - 1 \in DOMAIN rest /\ rest[j - 1] = stack[j]
    <2> TAKE j \in DOMAIN stack
    <2> SUFFICES ASSUME j # 1 PROVE j - 1 \in DOMAIN rest /\ rest[j - 1] = stack[j]
      OBVIOUS
    <2> HIDE DEF rest
    <2>1. j - 1 \in DOMAIN rest /\ (j - 1) + 1 = j
      BY <1>2
    <2> QED
      BY <1>2, <2>1
  <1> HIDE DEF rest
  <1>7. \A i, k : Beyond(stack, i, k) => Beyond(rest, i, k)
    BY <1>2 DEF Beyond
  <1>8. \A i, k : Beyond(rest, i, k) /\ (i = at => k < stack[1].next) => Beyond(stack, i, k)
    BY <1>6 DEF Beyond
  <1> HIDE DEF at, n
  <1>9. \A i \in DOMAIN h : \A k \in DOMAIN Page(m, h[i]) : i = at => k < stack[1].next
    BY <1>3, <1>5
  <1> QED
    BY <1>7, <1>8, <1>9 DEF Passed, rest

\* Routers to find are the coordinator and what those found list.
LEMMA FoundClosed ==
    ASSUME Chosen
    PROVE  /\ mesh[Coordinator].ok => Coordinator \in Found
           /\ \A n \in Found, r \in Routers(mesh) :
                 Follows(program, mesh, n, r) /\ mesh[r].ok => r \in Found
  <1>1. Coordinator \in Routers(mesh)
    BY RoutersKnown DEF Chosen
  <1> QED
    BY <1>1 DEF Found

\* A neighbour about to be asked has not been asked before.
LEMMA AskedFirst ==
    ASSUME NEW p \in Programs, NEW m \in Meshes, NEW stack, NEW h, NEW count, NEW list,
           Shape(m, "callback", stack), Entries(p, m, stack, h, count, list),
           NEW k \in DOMAIN Page(m, stack[1].node), k = stack[1].next,
           NEW r \in Routers(m), Names(p, Page(m, stack[1].node)[k], r),
           Occurrences(h, stack[1].node) <= 1, Tree(p, m)
    PROVE  ~Due(p, m, stack, h, r)
  <1> DEFINE at == stack[1].at
             n == stack[1].node
  <1>1. stack # <<>> /\ stack \in Seq(CallsOf(m)) /\ h \in Seq(Routers(m))
    BY DEF Shape, Entries
  <1>2. 1 \in DOMAIN stack /\ stack[1] \in CallsOf(m)
    BY <1>1, Popped
  <1>3. at \in DOMAIN h /\ h[at] = n /\ n \in Routers(m) /\ k \in Nat
    BY <1>2 DEF Entries, CallsOf
  <1>4. r # Coordinator
    <2>1. Follows(p, m, n, r)
      BY DEF Follows
    <2> QED
      BY <1>3, <2>1 DEF Tree
  <1>5. ASSUME Passed(p, m, stack, h, r) PROVE FALSE
    <2>a. PICK i \in DOMAIN h : \E j \in DOMAIN Page(m, h[i]) :
             Names(p, Page(m, h[i])[j], r) /\ Beyond(stack, i, j)
      BY <1>5 DEF Passed
    <2>1. PICK j \in DOMAIN Page(m, h[i]) : Names(p, Page(m, h[i])[j], r) /\ Beyond(stack, i, j)
      BY <2>a
    <2>2. h[i] \in Routers(m)
      BY <1>1
    <2>3. h[i] = n /\ j = k
      BY <1>3, <2>1, <2>2 DEF Tree
    <2>4. i = at
      BY <1>1, <1>3, <2>3, OccurrencesPlaces
    <2>5. j < stack[1].next
      BY <1>2, <2>1, <2>4 DEF Beyond
    <2> QED
      BY <1>3, <2>3, <2>5
  <1> QED
    BY <1>4, <1>5 DEF Due

\* The thread is elsewhere, and is not about to ask.
LEMMA BalancedElsewhere ==
    ASSUME NEW p, NEW m, NEW place, NEW ask, NEW bag, NEW l, NEW q, NEW h, NEW stack,
           Balanced(p, m, place, ask, bag, l, q, h, stack), place # "send",
           NEW there, there # "send", NEW other, NEW new,
           \A r : Passed(p, m, new, h, r) <=> Passed(p, m, stack, h, r)
    PROVE  Balanced(p, m, there, other, bag, l, q, h, new)
  BY DEF Balanced, Tokens, About, Due

\* A request becomes a question, and is confirmed.
LEMMA BalancedSent ==
    ASSUME NEW p, NEW m, NEW ask, NEW bag, NEW l, NEW q, NEW h \in Seq(Routers(m)), NEW stack,
           Balanced(p, m, "send", ask, bag, l, q, h, stack), Kinds(m, "send", ask, bag, l, q),
           NEW after, after = bag (+) SetToBag({ask}), NEW other
    PROVE  /\ Balanced(p, m, "wait", other, after, Append(l, Srsp), q, h, stack)
           /\ Kinds(m, "wait", other, after, Append(l, Srsp), q)
  <1>1. /\ ask \in Questions(m) /\ BagOf(Questions(m), bag)
        /\ l \in Seq(Frames(m)) /\ q \in Seq(Frames(m)) /\ Srsp \in Frames(m)
    BY DEF Kinds, Frames
  <1>2. BagOf(Questions(m), after) /\ OneMore(bag, after, ask)
    BY <1>1, CopiesAdd
  <1>3. Kinds(m, "wait", other, after, Append(l, Srsp), q)
    BY <1>1, <1>2 DEF Kinds
  <1>4. ASSUME NEW r \in Routers(m)
        PROVE  Tokens(r, "wait", other, after, Append(l, Srsp), q, h)
                   = Tokens(r, "send", ask, bag, l, q, h)
    <2>1. Occurrences(Append(l, Srsp), Answer(r)) = Occurrences(l, Answer(r)) + 0
      BY <1>1, OccurrencesAppend, Different
    <2>2. Copies(after, Lqi(r)) = Copies(bag, Lqi(r)) + About("send", ask, r)
      BY <1>2 DEF OneMore, About
    <2>3. About("wait", other, r) = 0
      BY DEF About
    <2>4. /\ About("send", ask, r) \in {0, 1} /\ Copies(bag, Lqi(r)) \in Nat
          /\ Occurrences(l, Answer(r)) \in Nat /\ Occurrences(q, Answer(r)) \in Nat
          /\ Occurrences(h, r) \in Nat
      BY PartsNat
    <2> QED
      BY <2>1, <2>2, <2>3, <2>4 DEF Tokens
  <1> QED
    BY <1>3, <1>4 DEF Balanced

\* The answer of a router is fetched and handled.
LEMMA BalancedHandled ==
    ASSUME NEW p, NEW m \in Meshes, NEW place, NEW ask, NEW bag, NEW l, NEW q,
           NEW h \in Seq(Routers(m)), NEW stack \in Seq(CallsOf(m)),
           Balanced(p, m, place, ask, bag, l, q, h, stack), Kinds(m, place, ask, bag, l, q),
           place # "send", q # <<>>, NEW n \in Routers(m), Head(q) = Answer(n),
           NEW c \in CallsOf(m), c.node = n, c.next = 0, c.at = Len(h) + 1
    PROVE  Balanced(p, m, "callback", ask, bag, l, Tail(q), Append(h, n), <<c>> \o stack)
  <1>1. q \in Seq(Frames(m))
    BY DEF Kinds
  <1>2. ASSUME NEW r \in Routers(m)
        PROVE  Tokens(r, "callback", ask, bag, l, Tail(q), Append(h, n))
                   = Tokens(r, place, ask, bag, l, q, h)
    <2> DEFINE A == About(place, ask, r)
               C == Copies(bag, Lqi(r))
               L == Occurrences(l, Answer(r))
               Q1 == Occurrences(q, Answer(r))
               Q2 == Occurrences(Tail(q), Answer(r))
               H1 == Occurrences(h, r)
               H2 == Occurrences(Append(h, n), r)
    <2>1. Q1 = Q2 + (IF n = r THEN 1 ELSE 0)
      BY <1>1, OccurrencesTail, Different
    <2>2. H2 = H1 + (IF n = r THEN 1 ELSE 0)
      BY OccurrencesAppend
    <2>3. About("callback", ask, r) = A
      BY DEF About
    <2>4. A \in Nat /\ C \in Nat /\ L \in Nat /\ Q1 \in Nat /\ H1 \in Nat
      BY PartsNat, SMTT(60)
    <2>5. Q2 \in Nat
      <3>1. Tail(q) \in Seq(Frames(m))
        BY <1>1
      <3> QED
        BY <3>1, OccurrencesNat
    <2>6. /\ Tokens(r, place, ask, bag, l, q, h) = A + C + L + Q1 + H1
          /\ Tokens(r, "callback", ask, bag, l, Tail(q), Append(h, n)) = A + C + L + Q2 + H2
      BY <2>3 DEF Tokens
    <2> HIDE DEF A, C, L, Q1, Q2, H1, H2
    <2> QED
      BY <2>1, <2>2, <2>4, <2>5, <2>6
  <1>3. \A r : Passed(p, m, <<c>> \o stack, Append(h, n), r) <=> Passed(p, m, stack, h, r)
    BY PassedPush
  <1> QED
    BY <1>2, <1>3 DEF Balanced, Due

\* A message that is not the answer of a router that will answer is fetched.
LEMMA BalancedDropped ==
    ASSUME NEW p, NEW m, NEW place, NEW ask, NEW bag, NEW l, NEW q, NEW h, NEW stack,
           Balanced(p, m, place, ask, bag, l, q, h, stack), Kinds(m, place, ask, bag, l, q),
           place # "send", q # <<>>, \A r \in Routers(m) : m[r].ok => Head(q) # Answer(r),
           NEW there, there # "send"
    PROVE  Balanced(p, m, there, ask, bag, l, Tail(q), h, stack)
  <1>1. q \in Seq(Frames(m)) /\ Tail(q) \in Seq(Frames(m))
    BY DEF Kinds
  <1>2. ASSUME NEW r \in Routers(m), m[r].ok
        PROVE  Occurrences(q, Answer(r)) = Occurrences(Tail(q), Answer(r))
    <2>1. Occurrences(q, Answer(r)) = Occurrences(Tail(q), Answer(r)) + 0
      BY <1>1, <1>2, OccurrencesTail
    <2>2. Occurrences(Tail(q), Answer(r)) \in Nat
      BY <1>1, OccurrencesNat
    <2> QED
      BY <2>1, <2>2
  <1> QED
    BY <1>2 DEF Balanced, Tokens, About

\* A callback asks a router that has not been asked.
LEMMA BalancedAsked ==
    ASSUME NEW p, NEW m, NEW place, NEW ask, NEW bag, NEW l, NEW q, NEW h \in Seq(Routers(m)),
           NEW stack, NEW to, NEW new,
           Balanced(p, m, place, ask, bag, l, q, h, stack), Kinds(m, place, ask, bag, l, q),
           place # "send",
           \A r : Passed(p, m, new, h, r) <=> Passed(p, m, stack, h, r) \/ r = to,
           to \in Routers(m) /\ m[to].ok => ~Due(p, m, stack, h, to)
    PROVE  Balanced(p, m, "send", Lqi(to), bag, l, q, h, new)
  <1> SUFFICES ASSUME NEW r \in Routers(m), m[r].ok
               PROVE  Tokens(r, "send", Lqi(to), bag, l, q, h)
                          = IF Due(p, m, new, h, r) THEN 1 ELSE 0
    BY DEF Balanced
  <1>1. /\ About(place, ask, r) = 0 /\ Copies(bag, Lqi(r)) \in Nat
        /\ About("send", Lqi(to), r) = IF r = to THEN 1 ELSE 0
        /\ Occurrences(l, Answer(r)) \in Nat /\ Occurrences(q, Answer(r)) \in Nat
        /\ Occurrences(h, r) \in Nat
    BY PartsNat, Different DEF About
  <1>2. Tokens(r, "send", Lqi(to), bag, l, q, h)
            = Tokens(r, place, ask, bag, l, q, h) + (IF r = to THEN 1 ELSE 0)
    BY <1>1 DEF Tokens
  <1>3. Tokens(r, place, ask, bag, l, q, h) = IF Due(p, m, stack, h, r) THEN 1 ELSE 0
    BY DEF Balanced
  <1>4. Due(p, m, new, h, r) <=> Due(p, m, stack, h, r) \/ r = to
    BY DEF Due
  <1> QED
    BY <1>2, <1>3, <1>4

\* The SRSP is taken from the line, ...
LEMMA BalancedPost ==
    ASSUME NEW p, NEW m, NEW place, NEW ask, NEW bag, NEW l, NEW q, NEW h, NEW stack,
           Balanced(p, m, place, ask, bag, l, q, h, stack), Kinds(m, place, ask, bag, l, q),
           l # <<>>, Head(l) = Srsp
    PROVE  /\ Balanced(p, m, place, ask, bag, Tail(l), q, h, stack)
           /\ Kinds(m, place, ask, bag, Tail(l), q)
  <1>1. l \in Seq(Frames(m)) /\ Tail(l) \in Seq(Frames(m))
    BY DEF Kinds
  <1>2. ASSUME NEW r PROVE Occurrences(l, Answer(r)) = Occurrences(Tail(l), Answer(r))
    <2>1. Occurrences(l, Answer(r)) = Occurrences(Tail(l), Answer(r)) + 0
      BY <1>1, OccurrencesTail, Different
    <2>2. Occurrences(Tail(l), Answer(r)) \in Nat
      BY <1>1, OccurrencesNat
    <2> QED
      BY <2>1, <2>2
  <1> QED
    BY <1>1, <1>2 DEF Balanced, Tokens, Kinds

\* ... and queued in front of the rest.
LEMMA BalancedSrsp ==
    ASSUME NEW p, NEW m, NEW place, NEW ask, NEW bag, NEW l, NEW q, NEW h, NEW stack,
           Balanced(p, m, place, ask, bag, l, q, h, stack), Kinds(m, place, ask, bag, l, q)
    PROVE  /\ Balanced(p, m, place, ask, bag, l, <<Srsp>> \o q, h, stack)
           /\ Kinds(m, place, ask, bag, l, <<Srsp>> \o q)
  <1>1. q \in Seq(Frames(m)) /\ Srsp \in Frames(m) /\ <<Srsp>> \o q \in Seq(Frames(m))
    BY DEF Kinds, Frames
  <1>2. ASSUME NEW r PROVE Occurrences(<<Srsp>> \o q, Answer(r)) = Occurrences(q, Answer(r))
    <2>1. Occurrences(<<Srsp>> \o q, Answer(r)) = Occurrences(q, Answer(r)) + 0
      BY <1>1, OccurrencesCons, Different
    <2>2. Occurrences(q, Answer(r)) \in Nat
      BY <1>1, OccurrencesNat
    <2> QED
      BY <2>1, <2>2
  <1> QED
    BY <1>1, <1>2 DEF Balanced, Tokens, Kinds

\* An answer is queued behind the rest.
LEMMA BalancedAreq ==
    ASSUME NEW p, NEW m, NEW place, NEW ask, NEW bag, NEW l, NEW q, NEW h \in Seq(Routers(m)),
           NEW stack,
           Balanced(p, m, place, ask, bag, l, q, h, stack), Kinds(m, place, ask, bag, l, q),
           l # <<>>
    PROVE  /\ Balanced(p, m, place, ask, bag, Tail(l), Append(q, Head(l)), h, stack)
           /\ Kinds(m, place, ask, bag, Tail(l), Append(q, Head(l)))
  <1>1. l \in Seq(Frames(m)) /\ Tail(l) \in Seq(Frames(m)) /\ Head(l) \in Frames(m)
        /\ q \in Seq(Frames(m)) /\ Append(q, Head(l)) \in Seq(Frames(m))
    BY DEF Kinds
  <1>2. ASSUME NEW r
        PROVE  Tokens(r, place, ask, bag, Tail(l), Append(q, Head(l)), h)
                   = Tokens(r, place, ask, bag, l, q, h)
    <2>1. Occurrences(l, Answer(r))
              = Occurrences(Tail(l), Answer(r)) + (IF Head(l) = Answer(r) THEN 1 ELSE 0)
      BY <1>1, OccurrencesTail
    <2>2. Occurrences(Append(q, Head(l)), Answer(r))
              = Occurrences(q, Answer(r)) + (IF Head(l) = Answer(r) THEN 1 ELSE 0)
      BY <1>1, OccurrencesAppend
    <2>3. /\ About(place, ask, r) \in {0, 1} /\ Copies(bag, Lqi(r)) \in Nat
          /\ Occurrences(q, Answer(r)) \in Nat /\ Occurrences(h, r) \in Nat
      BY PartsNat
    <2>4. Occurrences(Tail(l), Answer(r)) \in Nat
      BY <1>1, OccurrencesNat
    <2> QED
      BY <2>1, <2>2, <2>3, <2>4 DEF Tokens
  <1> QED
    BY <1>1, <1>2 DEF Balanced, Kinds

\* A question is answered.
LEMMA BalancedAnswer ==
    ASSUME NEW p, NEW m, NEW place, NEW ask, NEW bag, NEW l, NEW q, NEW h \in Seq(Routers(m)),
           NEW stack,
           Balanced(p, m, place, ask, bag, l, q, h, stack), Kinds(m, place, ask, bag, l, q),
           NEW x \in BagToSet(bag), NEW after, after = bag (-) SetToBag({x}),
           NEW frame, frame = [kind |-> x.kind, from |-> x.to]
    PROVE  /\ Balanced(p, m, place, ask, after, Append(l, frame), q, h, stack)
           /\ Kinds(m, place, ask, after, Append(l, frame), q)
  <1>1. BagOf(Questions(m), after) /\ x \in Questions(m) /\ OneMore(after, bag, x)
    BY CopiesTaken DEF Kinds
  <1>2. ASSUME NEW r PROVE x = Lqi(r) <=> frame = Answer(r)
    <2>1. CASE x \in [kind : {"ep", "data"}, to : Routers(m) \cup Addresses(m)]
      BY <2>1 DEF Lqi, Answer
    <2>2. CASE x \in {Lqi(a) : a \in Addresses(m)}
      BY <2>2 DEF Lqi, Answer
    <2> QED
      BY <1>1, <2>1, <2>2 DEF Questions
  <1>3. frame \in Frames(m)
    <2>1. CASE x \in [kind : {"ep", "data"}, to : Routers(m) \cup Addresses(m)]
      BY <2>1 DEF Frames
    <2>2. CASE x \in {Lqi(a) : a \in Addresses(m)}
      BY <2>2 DEF Lqi, Answer, Frames
    <2> QED
      BY <1>1, <2>1, <2>2 DEF Questions
  <1>4. l \in Seq(Frames(m)) /\ Append(l, frame) \in Seq(Frames(m))
    BY <1>3 DEF Kinds
  <1>5. ASSUME NEW r
        PROVE  Tokens(r, place, ask, after, Append(l, frame), q, h)
                   = Tokens(r, place, ask, bag, l, q, h)
    <2>1. Copies(bag, Lqi(r)) = Copies(after, Lqi(r)) + (IF x = Lqi(r) THEN 1 ELSE 0)
      BY <1>1 DEF OneMore
    <2>2. Occurrences(Append(l, frame), Answer(r))
              = Occurrences(l, Answer(r)) + (IF x = Lqi(r) THEN 1 ELSE 0)
      BY <1>2, <1>3, <1>4, OccurrencesAppend
    <2>3. /\ About(place, ask, r) \in {0, 1} /\ Occurrences(l, Answer(r)) \in Nat
          /\ Occurrences(q, Answer(r)) \in Nat /\ Occurrences(h, r) \in Nat
      BY PartsNat
    <2>4. Copies(after, Lqi(r)) \in Nat
      BY <1>1 DEF BagOf, Copies
    <2> QED
      BY <2>1, <2>2, <2>3, <2>4 DEF Tokens
  <1>6. Kinds(m, place, ask, after, Append(l, frame), q)
    BY <1>1, <1>4 DEF Kinds
  <1> QED
    BY <1>5, <1>6 DEF Balanced

\* A router handled has been handled once.
LEMMA HandledOnce ==
    ASSUME NEW p, NEW m, NEW place, NEW ask, NEW bag, NEW l, NEW q, NEW h \in Seq(Routers(m)),
           NEW stack,
           Balanced(p, m, place, ask, bag, l, q, h, stack), Kinds(m, place, ask, bag, l, q),
           NEW n \in Routers(m), m[n].ok
    PROVE  Occurrences(h, n) <= 1
  <1>1. Tokens(n, place, ask, bag, l, q, h) <= 1
    BY DEF Balanced
  <1>2. /\ About(place, ask, n) \in {0, 1} /\ Copies(bag, Lqi(n)) \in Nat
        /\ Occurrences(l, Answer(n)) \in Nat /\ Occurrences(q, Answer(n)) \in Nat
        /\ Occurrences(h, n) \in Nat
    BY PartsNat
  <1> QED
    BY <1>1, <1>2 DEF Tokens

\* Those that are to be asked are to be found.
LEMMA DueFound ==
    ASSUME Chosen, HandledFound, NEW stack, NEW r \in Routers(mesh), mesh[r].ok,
           Due(program, mesh, stack, handled, r)
    PROVE  r \in Found
  <1>1. CASE r = Coordinator
    BY <1>1, FoundClosed
  <1>2. CASE Passed(program, mesh, stack, handled, r)
    <2>1. PICK i \in DOMAIN handled : Follows(program, mesh, handled[i], r)
      BY <1>2 DEF Passed, Follows
    <2>2. handled[i] \in Found
      BY DEF HandledFound
    <2> QED
      BY <2>1, <2>2, FoundClosed
  <1> QED
    BY <1>1, <1>2 DEF Due

\* The response that is fetched comes from one to be found.
LEMMA FoundHandled ==
    ASSUME Chosen, HandledFound, NEW place, NEW ask, NEW bag, NEW l, NEW q, NEW stack,
           handled \in Seq(Routers(mesh)), Kinds(mesh, place, ask, bag, l, q),
           Balanced(program, mesh, place, ask, bag, l, q, handled, stack),
           NEW r \in Routers(mesh), mesh[r].ok, q # <<>>, Head(q) = Answer(r),
           program' = program, mesh' = mesh, handled' = Append(handled, r)
    PROVE  HandledFound'
  <1>1. q \in Seq(Frames(mesh))
    BY DEF Kinds
  <1>2. Occurrences(q, Answer(r)) > 0
    <2>1. 1 \in DOMAIN q /\ q[1] = Answer(r)
      BY <1>1
    <2> QED
      BY <1>1, <2>1, OccurrencesNat
  <1>3. Tokens(r, place, ask, bag, l, q, handled)
            = IF Due(program, mesh, stack, handled, r) THEN 1 ELSE 0
    BY DEF Balanced
  <1>4. /\ About(place, ask, r) \in {0, 1} /\ Copies(bag, Lqi(r)) \in Nat
        /\ Occurrences(l, Answer(r)) \in Nat /\ Occurrences(q, Answer(r)) \in Nat
        /\ Occurrences(handled, r) \in Nat
    BY PartsNat
  <1>5. Tokens(r, place, ask, bag, l, q, handled) > 0
    BY <1>2, <1>4 DEF Tokens
  <1>6. r \in Found
    BY <1>3, <1>5, DueFound
  <1>7. \A i \in DOMAIN Append(handled, r) :
           Append(handled, r)[i] = r \/ (i \in DOMAIN handled /\ Append(handled, r)[i] = handled[i])
    OBVIOUS
  <1>8. \A i \in DOMAIN handled' : handled'[i] \in Found /\ mesh[handled'[i]].ok
    BY <1>6, <1>7 DEF HandledFound
  <1>9. Found' = Found
    BY DEF Found
  <1> QED
    BY <1>8, <1>9 DEF HandledFound

\* What was lost or came late stays counted.
LEMMA UsedKept ==
    ASSUME UsedInv, [Next]_vars
    PROVE  /\ UsedInv' /\ rounds' >= rounds /\ (Change => rounds' > 0)
           /\ Undisturbed' => Undisturbed /\ slow' = slow /\ losses' = losses
  <1>1. /\ slow' = slow \/ slow' = slow + 1
        /\ losses' = losses \/ losses' = losses + 1
        /\ rounds' = rounds \/ rounds' = rounds + 1
    <2>1. CASE Send("app") \/ Send("msg") \/ NodeSilent
      BY <2>1 DEF Send, NodeSilent, OnlyNetwork
    <2>2. CASE LoopEnd
      BY <2>2 DEF LoopEnd
    <2>3. CASE Change \/ SendData \/ NodeAnswers
      BY <2>3 DEF Change, SendData, NodeAnswers, OnlyNetwork
    <2>4. CASE boundVars' = boundVars
      BY <2>4 DEF boundVars
    <2>5. CASE Discover \/ ShowNext \/ ShowEnds \/ DataSent \/ MsgWait \/ RxStep \/ UNCHANGED vars
      BY <2>4, <2>5 DEF Discover, ShowNext, ShowEnds, DataSent, MsgWait, RxStep, RxPost,
                        RxLinkSrsp, RxLinkAreq, OnlyRx, vars
    <2>6. ASSUME NEW t \in Thread, Step(t), ~Send(t) PROVE boundVars' = boundVars
      BY <2>6 DEF Step, SrspGranted, SrspTimeout, Fetch, FetchTimeout, BeginEntry, PassOver,
                  ListChild, CountRead, CallbackReturns
    <2>7. "app" \in Thread /\ "msg" \in Thread
      BY DEF Thread
    <2> QED
      BY <2>1, <2>2, <2>3, <2>4, <2>5, <2>6, <2>7 DEF Next, AppStep, MsgStep
  <1> QED
    BY <1>1 DEF Change, UsedInv, Undisturbed

\* A step in the middle of a discovery keeps the balance if all that is under way does.
LEMMA OnceFrom ==
    ASSUME ThreadsInv, choice' = choice, NEW place, NEW stack, NEW ask,
           Moves("app", place, stack), place \notin {"console", "display"},
           rounds' > 0, DOMAIN request' = Thread, request'["app"] = ask,
           Kinds(mesh, place, ask, asked', line', queue'), HandledFound',
           Balanced(program, mesh, place, ask, asked', line', queue', handled', stack)
    PROVE  OnceInv'
  <1>1. pc'["app"] = place /\ calls'["app"] = stack
    BY DEF ThreadsInv, Moves, Thread
  <1>2. mesh' = mesh /\ program' = program
    BY DEF choice
  <1> QED
    BY <1>1, <1>2 DEF OnceInv

\* Every step of a discovery keeps the balance.
LEMMA OnceKept ==
    ThreadsInv /\ NwkInv /\ UsedInv /\ OnceInv /\ [Next]_vars => OnceInv'
  <1> HAVE ThreadsInv /\ NwkInv /\ UsedInv /\ OnceInv /\ [Next]_vars
  <1>a. choice' = choice
    BY ChoiceKept
  <1>b. (Undisturbed' => Undisturbed /\ slow' = slow /\ losses' = losses) /\ rounds' >= rounds
        /\ (Change => rounds' > 0) /\ rounds \in Nat /\ rounds' \in Nat
        /\ losses \in Nat /\ slow \in Nat
    BY UsedKept DEF UsedInv
  <1> SUFFICES ASSUME Nwk, Undisturbed', Tree(program, mesh) PROVE OnceInv'
    BY <1>a DEF OnceInv, Nwk, choice
  <1> DEFINE s == calls["app"]
             c == s[1]
             n == c.node
             P == pc["app"]
             A == request["app"]
             B(place, ask, bag, l, q, h, stack) ==
                 Balanced(program, mesh, place, ask, bag, l, q, h, stack)
  <1>1. /\ program \in Programs /\ mesh \in Meshes /\ Shape(mesh, P, s) /\ phase = "discover"
        /\ Entries(program, mesh, s, handled, nodeCount, nodeList)
        /\ P = "display" => handled = <<>> /\ nodeCount = 0
    BY DEF NwkInv, NwkEntries, NwkAlone, Chosen
  <1>2. /\ DOMAIN request = Thread /\ Kinds(mesh, P, A, asked, line, queue)
        /\ P \in {"console", "display"} =>
              line = <<>> /\ queue = <<>> /\ asked = EmptyBag /\ ~held
        /\ P # "console" => rounds > 0 /\ rounds' > 0
        /\ HandledFound
        /\ P \notin {"console", "display"} => B(P, A, asked, line, queue, handled, s)
        /\ P # "display" /\ rounds > 0 => B(P, A, asked, line, queue, handled, s)
    BY <1>b DEF OnceInv
  <1>3. /\ P \in {"console", "display", "loop"} => s = <<>>
        /\ P = "callback" => s # <<>>
        /\ P \in {"console", "display", "send", "wait", "fetch", "loop", "callback"}
        /\ s \in Seq(CallsOf(mesh)) /\ handled \in Seq(Routers(mesh))
    BY <1>1 DEF Shape, Entries
  <1>4. /\ pc \in [Thread -> Places \cup MsgPlaces] /\ calls = [calls EXCEPT !["app"] = s]
        /\ pc = [pc EXCEPT !["app"] = P]
    BY DEF ThreadsInv
  <1>c. Found' = Found
    BY <1>a DEF Found, choice
  <1>d. ASSUME handled' = handled PROVE HandledFound'
    BY <1>2, <1>a, <1>c, <1>d DEF HandledFound, choice
  <1> HIDE DEF B
  \* The thread goes on and nothing else changes.
  <1>5. ASSUME UNCHANGED <<asked, line, queue, handled, request, calls>>, P # "send",
               P \notin {"console", "display"},
               NEW there \in {"wait", "fetch", "loop", "callback"},
               pc' = [pc EXCEPT !["app"] = there]
        PROVE  OnceInv'
    <2>1. B(there, A, asked, line, queue, handled, s)
      BY <1>2, <1>5, BalancedElsewhere DEF B
    <2>2. Kinds(mesh, there, A, asked, line, queue)
      BY <1>2, <1>5 DEF Kinds
    <2>3. Moves("app", there, s)
      BY <1>4, <1>5 DEF Moves
    <2>4. Balanced(program, mesh, there, A, asked', line', queue', handled', s)
          /\ Kinds(mesh, there, A, asked', line', queue') /\ DOMAIN request' = Thread
          /\ request'["app"] = A
      BY <1>2, <1>5, <2>1, <2>2 DEF B
    <2> QED
      BY <1>2, <1>5, <1>a, <1>d, <2>3, <2>4, OnceFrom
  \* Another thread of the system takes its turn.
  <1>6. ASSUME UNCHANGED <<threadVars, handled, rounds>>, P \notin {"console", "display"},
               B(P, A, asked', line', queue', handled, s), Kinds(mesh, P, A, asked', line', queue')
        PROVE  OnceInv'
    <2>1. Moves("app", P, s) /\ request' = request /\ handled' = handled
      BY <1>4, <1>6 DEF Moves, threadVars
    <2>2. Balanced(program, mesh, P, A, asked', line', queue', handled', s)
          /\ DOMAIN request' = Thread /\ request'["app"] = A
      BY <1>2, <1>6, <2>1 DEF B
    <2> QED
      BY <1>2, <1>6, <1>a, <1>d, <2>1, <2>2, OnceFrom
  <1>7. CASE UNCHANGED vars
    <2>1. UNCHANGED <<pc, calls, request, asked, line, queue, held, handled, rounds>>
      BY <1>7 DEF vars, threadVars, wireVars, rpcVars, boundVars, historyVars
    <2>2. mesh' = mesh /\ program' = program
      BY <1>a DEF choice
    <2> QED
      BY <1>2, <1>d, <2>1, <2>2 DEF OnceInv, B
  <1>e. BagToSet(EmptyBag) = {}
    BY DEF BagToSet, EmptyBag, SetToBag
  <1>8. CASE RxPost
    <2>1. /\ line # <<>> /\ Head(line) = Srsp /\ line' = Tail(line)
          /\ UNCHANGED <<threadVars, handled, rounds, asked, queue>>
      BY <1>8 DEF RxPost, OnlyRx, boundVars, historyVars
    <2>2. P \notin {"console", "display"}
      BY <1>2, <2>1
    <2>3. B(P, A, asked, Tail(line), queue, handled, s) /\ Kinds(mesh, P, A, asked, Tail(line), queue)
      BY <1>2, <2>1, <2>2, BalancedPost DEF B
    <2> QED
      BY <1>6, <2>1, <2>2, <2>3
  <1>9. CASE RxLinkSrsp
    <2>1. held /\ queue' = <<Srsp>> \o queue /\ UNCHANGED <<threadVars, handled, rounds, asked, line>>
      BY <1>9 DEF RxLinkSrsp, OnlyRx, boundVars, historyVars
    <2>2. P \notin {"console", "display"}
      BY <1>2, <2>1
    <2>3. B(P, A, asked, line, <<Srsp>> \o queue, handled, s)
          /\ Kinds(mesh, P, A, asked, line, <<Srsp>> \o queue)
      BY <1>2, <2>2, BalancedSrsp DEF B
    <2> QED
      BY <1>6, <2>1, <2>2, <2>3
  <1>10. CASE RxLinkAreq
    <2>1. /\ line # <<>> /\ line' = Tail(line) /\ queue' = Append(queue, Head(line))
          /\ UNCHANGED <<threadVars, handled, rounds, asked>>
      BY <1>10 DEF RxLinkAreq, OnlyRx, boundVars, historyVars
    <2>2. P \notin {"console", "display"}
      BY <1>2, <2>1
    <2>3. B(P, A, asked, Tail(line), Append(queue, Head(line)), handled, s)
          /\ Kinds(mesh, P, A, asked, Tail(line), Append(queue, Head(line)))
      BY <1>2, <1>3, <2>1, <2>2, BalancedAreq DEF B
    <2> QED
      BY <1>6, <2>1, <2>2, <2>3
  <1>11. CASE NodeAnswers
    <2>1. PICK x \in BagToSet(asked) :
             /\ asked' = asked (-) SetToBag({x})
             /\ line' = Append(line, [kind |-> x.kind, from |-> x.to])
      BY <1>11 DEF NodeAnswers
    <2>2. UNCHANGED <<threadVars, handled, rounds, queue>>
      BY <1>11 DEF NodeAnswers, OnlyNetwork, rpcVars, historyVars
    <2>3. P \notin {"console", "display"}
      BY <1>2, <1>e, <2>1
    <2>4. B(P, A, asked', line', queue, handled, s) /\ Kinds(mesh, P, A, asked', line', queue)
      BY <1>2, <1>3, <2>1, <2>3, BalancedAnswer DEF B
    <2> QED
      BY <1>6, <2>2, <2>3, <2>4
  <1>12. ~NodeSilent
    BY <1>b DEF NodeSilent
  <1>13. CASE Change
    <2>1. /\ pc' = [pc EXCEPT !["app"] = "display"] /\ handled' = <<>> /\ P = "console"
          /\ UNCHANGED <<calls, request, asked, line, queue, held>>
      BY <1>13 DEF Change, Goes, rpcVars, wireVars
    <2>2. pc'["app"] = "display"
      BY <1>4, <2>1 DEF Thread
    <2>3. mesh' = mesh
      BY <1>a DEF choice
    <2>4. Kinds(mesh, "display", A, asked, line, queue)
      BY <1>2 DEF Kinds
    <2>5. HandledFound'
      BY <2>1 DEF HandledFound
    <2> QED
      BY <1>2, <1>13, <1>b, <2>1, <2>2, <2>3, <2>4, <2>5 DEF OnceInv
  <1>14. CASE Discover
    <2>1. /\ pc' = [pc EXCEPT !["app"] = "send"] /\ P = "display"
          /\ request' = [request EXCEPT !["app"] = Lqi(Coordinator)]
          /\ UNCHANGED <<calls, asked, line, queue, handled, rounds>>
      BY <1>14 DEF Discover, Ask, Goes, Lqi, rpcVars, wireVars, boundVars, historyVars
    <2>2. s = <<>> /\ handled = <<>> /\ line = <<>> /\ queue = <<>> /\ asked = EmptyBag
      BY <1>1, <1>2, <1>3, <2>1
    <2>3. Kinds(mesh, "send", Lqi(Coordinator), asked, line, queue)
      BY <1>2 DEF Kinds, Questions, Addresses
    <2>4. ASSUME NEW r PROVE /\ Copies(EmptyBag, r) = 0 /\ Occurrences(<<>>, r) = 0
                             /\ ~Passed(program, mesh, <<>>, <<>>, r)
      <3>1. Copies(EmptyBag, r) = 0
        BY <1>e DEF Copies, BagToSet
      <3>2. Occurrences(<<>>, r) = 0
        <4>1. <<>> \in Seq({}) /\ DOMAIN <<>> = {}
          OBVIOUS
        <4> QED
          BY <4>1, OccurrencesPlaces
      <3>3. ~Passed(program, mesh, <<>>, <<>>, r)
        BY DEF Passed
      <3> QED
        BY <3>1, <3>2, <3>3
    <2>5. B("send", Lqi(Coordinator), EmptyBag, <<>>, <<>>, <<>>, <<>>)
      BY <2>4, Different DEF B, Balanced, Tokens, Due, About
    <2>6. Moves("app", "send", s) /\ DOMAIN request' = Thread /\ request'["app"] = Lqi(Coordinator)
      BY <1>2, <1>4, <2>1 DEF Moves, Thread
    <2>7. Balanced(program, mesh, "send", Lqi(Coordinator), asked', line', queue', handled', s)
      BY <2>1, <2>2, <2>5 DEF B
    <2> QED
      BY <1>2, <1>a, <1>d, <2>1, <2>3, <2>6, <2>7, OnceFrom
  <1>15. CASE LoopEnd
    <2>1. /\ pc' = [pc EXCEPT !["app"] = "console"] /\ P = "loop" /\ queue = <<>>
          /\ UNCHANGED <<calls, asked, line, queue, handled, rounds, request, held>>
      BY <1>15 DEF LoopEnd, Goes, Nwk, rpcVars, wireVars, historyVars
    <2>2. line = <<>> /\ asked = EmptyBag /\ ~held
      BY <1>15, <1>b DEF LoopEnd, Quiet
    <2>3. B("console", A, asked, line, queue, handled, s)
      BY <1>2, <2>1, BalancedElsewhere DEF B
    <2>4. Kinds(mesh, "console", A, asked, line, queue)
      BY <1>2 DEF Kinds
    <2>5. pc'["app"] = "console" /\ mesh' = mesh /\ program' = program
      BY <1>4, <1>a, <2>1 DEF Thread, choice
    <2> QED
      BY <1>2, <1>d, <2>1, <2>2, <2>3, <2>4, <2>5 DEF OnceInv, B
  <1>16. CASE Send("app")
    <2>1. /\ pc' = [pc EXCEPT !["app"] = "wait"] /\ P = "send"
          /\ request' = [request EXCEPT !["app"] = NoRequest]
          /\ line' = Append(line, Srsp) /\ asked' = asked (+) SetToBag({A})
          /\ UNCHANGED <<calls, queue, handled, rounds>>
      BY <1>16, <1>b DEF Send, Goes, historyVars
    <2>a. B("send", A, asked, line, queue, handled, s) /\ Kinds(mesh, "send", A, asked, line, queue)
      BY <1>2, <2>1
    <2>2. /\ B("wait", NoRequest, asked', line', queue, handled, s)
          /\ Kinds(mesh, "wait", NoRequest, asked', line', queue)
      <3> HIDE DEF s, A
      <3> QED
        BY <1>3, <2>1, <2>a, BalancedSent DEF B
    <2>3. Moves("app", "wait", s) /\ DOMAIN request' = Thread /\ request'["app"] = NoRequest
      BY <1>2, <1>4, <2>1 DEF Moves, Thread
    <2>4. /\ Balanced(program, mesh, "wait", NoRequest, asked', line', queue', handled', s)
          /\ Kinds(mesh, "wait", NoRequest, asked', line', queue')
      BY <2>1, <2>2 DEF B
    <2>5. HandledFound' /\ rounds' > 0
      BY <1>2, <1>d, <2>1
    <2> HIDE DEF s
    <2> QED
      BY <1>a, <2>3, <2>4, <2>5, OnceFrom
  <1>17. /\ After("app", "fetch") = IF s = <<>> THEN "loop" ELSE "callback"
         /\ After("app", "loop") = "loop"
    BY <1>1 DEF After
  <1>18. CASE SrspGranted("app") \/ SrspTimeout("app") \/ FetchTimeout("app")
    <2>1. /\ P \in {"wait", "fetch"}
          /\ UNCHANGED <<asked, line, queue, handled, request, calls>>
          /\ pc' = [pc EXCEPT !["app"] = "fetch"]
                \/ pc' = [pc EXCEPT !["app"] = After("app", "fetch")]
      <3>1. CASE SrspGranted("app") \/ SrspTimeout("app")
        BY <3>1 DEF SrspGranted, SrspTimeout, Goes, wireVars, historyVars
      <3>2. CASE FetchTimeout("app")
        BY <1>3, <3>2 DEF FetchTimeout, Goes, rpcVars, wireVars, historyVars
      <3> QED
        BY <1>18, <3>1, <3>2
    <2> QED
      BY <1>5, <1>17, <2>1
  <1>20. CASE Fetch("app")
    <2> DEFINE frame == Head(queue)
               back == IF s = <<>> THEN "loop" ELSE "callback"
               new == [node |-> frame.from, next |-> 0, at |-> nodeCount + 1, back |-> back]
    <2>1. /\ P \in {"fetch", "loop"} /\ After("app", P) = back
          /\ Handle("app", frame, back) /\ queue # <<>> /\ queue' = Tail(queue)
          /\ UNCHANGED <<line, asked, request, rounds>>
      <3>1. P \in {"fetch", "loop"} /\ queue # <<>>
        BY <1>3, <1>20 DEF Fetch
      <3>2. After("app", P) = back
        BY <1>3, <1>17, <3>1
      <3> QED
        BY <1>20, <3>1, <3>2 DEF Fetch, wireVars, boundVars
    <2>2. /\ B(P, A, asked, line, queue, handled, s) /\ Kinds(mesh, P, A, asked, line, queue)
          /\ queue \in Seq(Frames(mesh)) /\ frame \in Frames(mesh) /\ Tail(queue) \in Seq(Frames(mesh))
          /\ rounds' > 0 /\ DOMAIN request' = Thread /\ request'["app"] = A
      <3>1. B(P, A, asked, line, queue, handled, s) /\ queue \in Seq(Frames(mesh))
        BY <1>2, <2>1 DEF Kinds
      <3> QED
        BY <1>2, <2>1, <3>1
    <2>3. Kinds(mesh, "callback", A, asked, line, Tail(queue))
          /\ Kinds(mesh, "loop", A, asked, line, Tail(queue))
      BY <2>2 DEF Kinds
    <2>4. CASE Succeeds(frame) /\ Begins("app", frame, back)
      <3> DEFINE r == frame.from
      <3>1. r \in Routers(mesh) /\ mesh[r].ok /\ frame = Answer(r)
        BY <2>2, <2>4, Different DEF Succeeds, Frames
      <3>2. nodeCount = Len(handled)
        <4>1. Fresh(s) = 0
          <5>1. s # <<>> => 1 \in DOMAIN s
            BY <1>3, Popped
          <5> QED
            BY <1>1, <2>1, <5>1 DEF Fresh, Shape
        <4> QED
          BY <1>1, <4>1 DEF Entries
      <3>3. new \in CallsOf(mesh)
        BY <1>3, <3>1, <3>2 DEF CallsOf, Returns
      <3>4. Balanced(program, mesh, "callback", A, asked, line, Tail(queue), Append(handled, r),
                     <<new>> \o s)
        <4>1. new.node = r /\ new.next = 0 /\ new.at = Len(handled) + 1
          BY <3>2
        <4> HIDE DEF s, A, P, new, r
        <4> QED
          BY <1>1, <1>3, <2>1, <2>2, <3>1, <3>3, <4>1, BalancedHandled DEF B
      <3>5. Moves("app", "callback", <<new>> \o s) /\ handled' = Append(handled, r)
        BY <2>4 DEF Begins, Goes, Moves
      <3>7. HandledFound'
        <4>1. mesh' = mesh /\ program' = program
          BY <1>a DEF choice
        <4>2. /\ Balanced(program, mesh, P, A, asked, line, queue, handled, s)
              /\ Kinds(mesh, P, A, asked, line, queue) /\ handled \in Seq(Routers(mesh))
              /\ queue # <<>> /\ Head(queue) = Answer(r) /\ handled' = Append(handled, r)
              /\ Chosen /\ HandledFound /\ r \in Routers(mesh) /\ mesh[r].ok
          BY <1>1, <1>2, <1>3, <2>1, <2>2, <3>1, <3>5 DEF B, Chosen
        <4> HIDE DEF s, A, P, r, frame
        <4> QED
          BY <4>1, <4>2, FoundHandled
      <3>8. Balanced(program, mesh, "callback", A, asked', line', queue', handled', <<new>> \o s)
            /\ Kinds(mesh, "callback", A, asked', line', queue')
        BY <2>1, <2>3, <3>4, <3>5
      <3> HIDE DEF s, A, new
      <3> QED
        BY <1>a, <2>2, <3>5, <3>7, <3>8, OnceFrom
    <2>5. CASE ~Succeeds(frame) /\ Goes("app", back) /\ UNCHANGED <<calls, handled>>
      <3>1. \A r \in Routers(mesh) : mesh[r].ok => frame # Answer(r)
        BY <2>5, Different DEF Succeeds
      <3>2. Balanced(program, mesh, back, A, asked, line, Tail(queue), handled, s)
        <4> HIDE DEF s, A, P
        <4> QED
          BY <2>1, <2>2, <3>1, BalancedDropped DEF B
      <3>3. Moves("app", back, s)
        BY <1>4, <2>5 DEF Goes, Moves
      <3>4. Balanced(program, mesh, back, A, asked', line', queue', handled', s)
            /\ Kinds(mesh, back, A, asked', line', queue') /\ HandledFound'
        BY <1>d, <2>1, <2>3, <2>5, <3>2
      <3>5. back \notin {"console", "display"}
        OBVIOUS
      <3> HIDE DEF s, A, back
      <3> QED
        BY <1>a, <2>2, <3>3, <3>4, <3>5, OnceFrom
    <2> QED
      BY <2>1, <2>4, <2>5 DEF Handle
  \* In a callback the queue, the line and the network stay as they are.
  <1>21. ASSUME P = "callback", UNCHANGED <<asked, line, queue, handled, rounds>>,
                NEW place \in {"callback", "loop", "send"}, NEW new, Moves("app", place, new),
                NEW ask, DOMAIN request' = Thread, request'["app"] = ask,
                place = "send" => ask \in Questions(mesh),
                B(place, ask, asked, line, queue, handled, new)
         PROVE  OnceInv'
    <2>1. Kinds(mesh, place, ask, asked, line, queue)
      BY <1>2, <1>21 DEF Kinds
    <2>2. Balanced(program, mesh, place, ask, asked', line', queue', handled', new)
          /\ Kinds(mesh, place, ask, asked', line', queue') /\ HandledFound' /\ rounds' > 0
      BY <1>2, <1>d, <1>21, <2>1 DEF B
    <2> QED
      BY <1>21, <1>a, <2>2, OnceFrom
  <1>22. ASSUME P = "callback", NEW place \in {"callback", "loop"}, NEW new,
                \A r : Passed(program, mesh, new, handled, r) <=> Passed(program, mesh, s, handled, r)
         PROVE  B(place, A, asked, line, queue, handled, new)
    <2>1. B("callback", A, asked, line, queue, handled, s)
      BY <1>2, <1>22
    <2> HIDE DEF s, A
    <2> QED
      BY <1>22, <2>1, BalancedElsewhere DEF B
  <1>23. CASE BeginEntry("app")
    <2> DEFINE new == [s EXCEPT ![1].next = 1]
    <2>1. /\ P = "callback" /\ c.next = 0
          /\ UNCHANGED <<asked, line, queue, handled, rounds, request>>
          /\ pc' = pc /\ calls' = [calls EXCEPT !["app"] = new]
      BY <1>23 DEF BeginEntry, rpcVars, wireVars, boundVars, historyVars
    <2>2. GoesOn(s, new, 1) /\ Moves("app", "callback", new)
      BY <1>4, <2>1 DEF GoesOn, Moves
    <2>3. \A r : Passed(program, mesh, new, handled, r) <=> Passed(program, mesh, s, handled, r)
      <3>1. Shape(mesh, "callback", s)
        BY <1>1, <2>1
      <3> HIDE DEF s, new
      <3> QED
        BY <1>1, <2>1, <2>2, <3>1, PassedBegin
    <2>4. B("callback", A, asked, line, queue, handled, new)
      BY <1>22, <2>1, <2>3
    <2>5. DOMAIN request' = Thread /\ request'["app"] = A
      BY <1>2, <2>1
    <2> HIDE DEF s, new
    <2> QED
      BY <1>21, <2>1, <2>2, <2>4, <2>5
  <1>24. ASSUME P = "callback" PROVE n \in Routers(mesh) /\ 1 \in DOMAIN s /\ c.next \in Nat
    <2>1. c \in CallsOf(mesh) /\ 1 \in DOMAIN s
      BY <1>3, <1>24, Popped
    <2> QED
      BY <2>1 DEF CallsOf
  <1>25. CASE CallbackReturns("app")
    <2>1. /\ P = "callback" /\ c.next > Len(Page(mesh, n))
          /\ UNCHANGED <<asked, line, queue, handled, rounds, request>>
          /\ Moves("app", c.back, Tail(s))
      BY <1>3, <1>25 DEF CallbackReturns, Goes, Moves, rpcVars, wireVars, boundVars, historyVars
    <2>2. c.back \in {"callback", "loop"}
      BY <1>1, <1>24, <2>1 DEF Shape
    <2>3. \A r : Passed(program, mesh, Tail(s), handled, r) <=> Passed(program, mesh, s, handled, r)
      <3>1. Shape(mesh, "callback", s)
        BY <1>1, <2>1
      <3> HIDE DEF s
      <3> QED
        BY <1>1, <2>1, <3>1, PassedPop
    <2>4. B(c.back, A, asked, line, queue, handled, Tail(s))
      BY <1>22, <2>1, <2>2, <2>3
    <2>5. DOMAIN request' = Thread /\ request'["app"] = A
      BY <1>2, <2>1
    <2> HIDE DEF s
    <2> QED
      BY <1>21, <2>1, <2>2, <2>4, <2>5
  <1>26. CASE PassOver("app") \/ ListChild("app")
    <2> DEFINE new == [s EXCEPT ![1].next = @ + 1]
               x == Page(mesh, n)[c.next]
    <2>1. /\ P = "callback" /\ c.next \in DOMAIN Page(mesh, n)
          /\ calls' = [calls EXCEPT !["app"] = new]
          /\ UNCHANGED <<asked, line, queue, handled, rounds>>
      BY <1>26 DEF PassOver, ListChild, AtNeighbour, rpcVars, wireVars, boundVars, historyVars
    <2>2. GoesOn(s, new, c.next + 1)
      BY DEF GoesOn
    <2>3. Shape(mesh, "callback", s)
      BY <1>1, <2>1
    <2>4. \A r : Passed(program, mesh, new, handled, r)
                    <=> Passed(program, mesh, s, handled, r) \/ Names(program, x, r)
      <3> HIDE DEF s, new
      <3> QED
        BY <1>1, <2>1, <2>2, <2>3, PassedGoesOn
    <2>5. CASE /\ \A r : ~Names(program, x, r)
               /\ pc' = pc /\ request' = request
      <3>1. B("callback", A, asked, line, queue, handled, new)
        BY <1>22, <2>1, <2>4, <2>5
      <3>2. Moves("app", "callback", new) /\ DOMAIN request' = Thread /\ request'["app"] = A
        BY <1>2, <1>4, <2>1, <2>5 DEF Moves
      <3> HIDE DEF s, new
      <3> QED
        BY <1>21, <2>1, <3>1, <3>2
    <2>6. CASE /\ Accepts(program, x.relation) /\ x.type = "router"
               /\ pc' = [pc EXCEPT !["app"] = "send"]
               /\ request' = [request EXCEPT !["app"] = Lqi(x.addr)]
      <3> DEFINE to == x.addr
      <3>1. \A r : Names(program, x, r) <=> r = to
        BY <2>6, SMTT(60) DEF Names
      <3>2. Occurrences(handled, n) <= 1
        <4>1. c.at \in DOMAIN handled /\ handled[c.at] = n
          BY <1>1, <1>24, <2>1 DEF Entries
        <4>2. mesh[n].ok
          BY <1>2, <4>1 DEF HandledFound
        <4>3. /\ B("callback", A, asked, line, queue, handled, s)
              /\ Kinds(mesh, "callback", A, asked, line, queue)
          BY <1>2, <2>1
        <4> HIDE DEF s, A, n
        <4> QED
          BY <1>3, <1>24, <2>1, <4>2, <4>3, HandledOnce DEF B
      <3>3. to \in Routers(mesh) => ~Due(program, mesh, s, handled, to)
        <4> SUFFICES ASSUME to \in Routers(mesh) PROVE ~Due(program, mesh, s, handled, to)
          OBVIOUS
        <4>1. Names(program, x, to)
          BY <3>1
        <4> HIDE DEF s, to
        <4> QED
          BY <1>1, <2>1, <2>3, <3>2, <4>1, AskedFirst
      <3>4. B("send", Lqi(to), asked, line, queue, handled, new)
        <4>1. B("callback", A, asked, line, queue, handled, s)
              /\ Kinds(mesh, "callback", A, asked, line, queue)
          BY <1>2, <2>1
        <4>2. \A r : Passed(program, mesh, new, handled, r)
                        <=> Passed(program, mesh, s, handled, r) \/ r = to
          BY <2>4, <3>1
        <4> HIDE DEF s, A, new, to
        <4> QED
          BY <1>3, <3>3, <4>1, <4>2, BalancedAsked DEF B
      <3>5. /\ Moves("app", "send", new) /\ DOMAIN request' = Thread /\ request'["app"] = Lqi(to)
        BY <1>2, <1>4, <2>1, <2>6 DEF Moves, Thread
      <3>6. Lqi(to) \in Questions(mesh)
        <4>1. Page(mesh, n) \in Seq(Neighbours(mesh, n))
          BY <1>1, <1>24, <2>1, PageIsSequence
        <4>2. x \in Neighbours(mesh, n)
          <5> HIDE DEF n, c
          <5> QED
            BY <2>1, <4>1
        <4> QED
          BY <1>24, <2>1, <4>2 DEF Questions, Addresses
      <3> HIDE DEF s, new, to
      <3> QED
        BY <1>21, <2>1, <3>4, <3>5, <3>6
    <2> QED
      <3>1. CASE PassOver("app")
        <4>1. ~Accepts(program, x.relation) /\ pc' = pc /\ request' = request
          BY <3>1 DEF PassOver, Neighbour
        <4> QED
          BY <2>5, <4>1 DEF Names
      <3>2. CASE ListChild("app")
        <4>1. Accepts(program, x.relation) /\ AskIfRouter("app", x)
          BY <3>2, SMTT(60) DEF ListChild, Neighbour
        <4>2. CASE x.type = "router"
          BY <2>6, <4>1, <4>2, SMTT(60) DEF AskIfRouter, Ask, Goes, Lqi
        <4>3. CASE x.type # "router"
          BY <2>5, <4>1, <4>3, SMTT(60) DEF AskIfRouter, Names
        <4> QED
          BY <4>2, <4>3
      <3> QED
        BY <1>26, <3>1, <3>2
  <1> QED
    <2>1. NwkStep
      BY NwkSteps
    <2> QED
      BY <2>1, <1>7, <1>8, <1>9, <1>10, <1>11, <1>12, <1>13, <1>14, <1>15, <1>16, <1>18, <1>20,
         <1>23, <1>25, <1>26 DEF NwkStep, RxStep

\* At first nothing is under way.
LEMMA InitOnce == Init => UsedInv /\ OnceInv
  <1> HAVE Init
  <1>1. BagOf(Questions(mesh), EmptyBag)
    BY DEF BagOf, EmptyBag, SetToBag
  <1>2. <<>> \in Seq(Frames(mesh))
    OBVIOUS
  <1>3. Kinds(mesh, "console", request["app"], EmptyBag, <<>>, <<>>)
    BY <1>1, <1>2 DEF Kinds
  <1>4. HandledFound
    BY DEF Init, HandledFound
  <1> QED
    BY <1>3, <1>4 DEF Init, UsedInv, OnceInv, Thread

\* When nothing more is under way, each router to find has been handled, once.
LEMMA AllHandled ==
    ASSUME Chosen, HandledFound, NEW place, NEW ask, NEW bag, NEW l, NEW q,
           handled \in Seq(Routers(mesh)),
           Balanced(program, mesh, place, ask, bag, l, q, handled, <<>>),
           \A r : /\ About(place, ask, r) = 0 /\ Copies(bag, Lqi(r)) = 0
                  /\ Occurrences(l, Answer(r)) = 0 /\ Occurrences(q, Answer(r)) = 0
    PROVE  handled \in Bijection(1..Len(handled), Found)
  <1>1. DOMAIN handled = 1..Len(handled)
    OBVIOUS
  <1>2. ASSUME NEW r \in Routers(mesh), mesh[r].ok
        PROVE  Occurrences(handled, r) = IF Due(program, mesh, <<>>, handled, r) THEN 1 ELSE 0
    <2>1. Occurrences(handled, r) \in Nat
      BY OccurrencesNat
    <2>2. Tokens(r, place, ask, bag, l, q, handled) = Occurrences(handled, r)
      BY <2>1 DEF Tokens
    <2> QED
      BY <1>2, <2>2 DEF Balanced
  <1> DEFINE H == {handled[i] : i \in DOMAIN handled}
  <1>3. ASSUME NEW r \in Routers(mesh), mesh[r].ok, Due(program, mesh, <<>>, handled, r)
        PROVE  r \in H
    <2>1. Occurrences(handled, r) > 0
      BY <1>2, <1>3
    <2> QED
      BY <2>1, OccurrencesPlaces
  <1>4. \A n \in H, r \in Routers(mesh) : Follows(program, mesh, n, r) /\ mesh[r].ok => r \in H
    <2> SUFFICES ASSUME NEW i \in DOMAIN handled, NEW r \in Routers(mesh),
                        Follows(program, mesh, handled[i], r), mesh[r].ok
                 PROVE  r \in H
      OBVIOUS
    <2>1. Passed(program, mesh, <<>>, handled, r)
      BY DEF Follows, Passed, Beyond
    <2> QED
      BY <1>3, <2>1 DEF Due
  <1>5. Coordinator \in Routers(mesh) /\ (mesh[Coordinator].ok => Coordinator \in H)
    <2>1. Coordinator \in Routers(mesh)
      BY RoutersKnown DEF Chosen
    <2> QED
      BY <1>3, <2>1 DEF Due
  <1>6. H \in SUBSET Routers(mesh)
    OBVIOUS
  <1> HIDE DEF H
  <1>7. Found \subseteq H /\ Found \subseteq Routers(mesh)
    BY <1>4, <1>5, <1>6 DEF Found
  <1>8. handled \in [DOMAIN handled -> Found]
    BY DEF HandledFound
  <1>9. \A i, j \in DOMAIN handled : handled[i] = handled[j] => i = j
    <2> SUFFICES ASSUME NEW i \in DOMAIN handled, NEW j \in DOMAIN handled,
                        handled[i] = handled[j]
                 PROVE  i = j
      OBVIOUS
    <2>1. handled[i] \in Routers(mesh) /\ mesh[handled[i]].ok
      BY DEF HandledFound
    <2>2. Occurrences(handled, handled[i]) <= 1
      BY <1>2, <2>1
    <2> QED
      BY <2>2, OccurrencesPlaces
  <1>10. \A r \in Found : \E i \in DOMAIN handled : handled[i] = r
    BY <1>7 DEF H
  <1> QED
    BY <1>1, <1>8, <1>9, <1>10, Fun_IsBij

\* So it is at the end of nwkTopology's message loop.
LEMMA OnceAtEnd ==
    ASSUME NwkInv, OnceInv, Nwk, Undisturbed, Tree(program, mesh), pc["app"] = "console",
           rounds > 0
    PROVE  /\ handled \in Bijection(1..Len(handled), Found)
           /\ Entries(program, mesh, <<>>, handled, nodeCount, nodeList)
  <1>1. Entries(program, mesh, <<>>, handled, nodeCount, nodeList) /\ calls["app"] = <<>>
    BY DEF NwkInv, NwkEntries, Shape
  <1>2. handled \in Seq(Routers(mesh))
    BY <1>1 DEF Entries
  <1>3. HandledFound
        /\ Balanced(program, mesh, "console", request["app"], EmptyBag, <<>>, <<>>, handled, <<>>)
    BY <1>1 DEF OnceInv
  <1>4. ASSUME NEW r
        PROVE  /\ About("console", request["app"], r) = 0 /\ Copies(EmptyBag, Lqi(r)) = 0
               /\ Occurrences(<<>>, Answer(r)) = 0
    <2>1. Copies(EmptyBag, Lqi(r)) = 0 /\ About("console", request["app"], r) = 0
      BY DEF Copies, EmptyBag, SetToBag, About
    <2>2. <<>> \in Seq({}) /\ DOMAIN <<>> = {}
      OBVIOUS
    <2> QED
      BY <2>1, <2>2, OccurrencesPlaces
  <1> QED
    BY <1>1, <1>2, <1>3, <1>4, AllHandled DEF NwkInv

\* When a discovery of nwkTopology has ended undisturbed, its list has every router to
\* find, once.
THEOREM TopologyEachRouterOnce == Spec => []EachRouterOnce
  <1>1. NwkInv /\ OnceInv => EachRouterOnce
    <2> SUFFICES ASSUME NwkInv, OnceInv, Nwk, Undisturbed, Tree(program, mesh),
                        pc["app"] = "console", rounds > 0
                 PROVE  /\ nodeCount = Cardinality(Found)
                        /\ {nodeList[i].addr : i \in 1..nodeCount} = Found
      BY DEF EachRouterOnce, Nwk
    <2>1. /\ handled \in Bijection(1..Len(handled), Found)
          /\ Entries(program, mesh, <<>>, handled, nodeCount, nodeList)
      BY OnceAtEnd
    <2>2. nodeCount = Len(handled) /\ nodeCount \in Nat
      BY <2>1 DEF Entries, Fresh
    <2>3. nodeCount = Cardinality(Found)
      <3>1. IsFiniteSet(1..nodeCount) /\ Cardinality(1..nodeCount) = nodeCount
        <4>1. 1 \in Int /\ nodeCount \in Int
          BY <2>2
        <4>2. /\ IsFiniteSet(1..nodeCount)
              /\ Cardinality(1..nodeCount) = IF 1 > nodeCount THEN 0 ELSE nodeCount - 1 + 1
          BY <4>1, FS_Interval
        <4> QED
          BY <2>2, <4>2
      <3> QED
        BY <2>1, <2>2, <3>1, FS_Bijection DEF ExistsBijection
    <2>4. \A i \in 1..nodeCount : nodeList[i].addr = handled[i]
      <3> TAKE i \in 1..nodeCount
      <3>1. nodeList[i] = EntryOf(program, mesh, handled[i], Len(Page(mesh, handled[i])))
        BY <2>1 DEF Entries
      <3> QED
        BY <3>1 DEF EntryOf
    <2>5. {handled[i] : i \in 1..nodeCount} = Found
      BY <2>1, <2>2 DEF Bijection, Injection, Surjection
    <2> QED
      BY <2>3, <2>4, <2>5
  <1>2. ThreadsInv /\ NwkInv /\ UsedInv /\ OnceInv /\ [Next]_vars => NwkInv' /\ UsedInv' /\ OnceInv'
    BY NwkAloneKept, NwkEntriesKept, UsedKept, OnceKept DEF NwkInv
  <1> QED
    BY <1>1, <1>2, InitNwk, InitOnce, TopologyThreads, PTL DEF Spec

-----------------------------------------------------------------------------
(* The steps of Next, by what they leave alone.                            *)

\* Steps of the receive thread and the network.
WireStep == RxStep \/ NodeAnswers \/ NodeSilent

\* Steps of the application between discoveries.
OuterStep == Change \/ SendData \/ Discover \/ LoopEnd \/ ShowNext \/ ShowEnds \/ DataSent
                \/ MsgWait

\* Every step is one of these.
LEMMA StepKinds ==
    [Next]_vars => WireStep \/ OuterStep \/ (\E t \in Thread : Step(t)) \/ UNCHANGED vars
  BY DEF Next, AppStep, MsgStep, WireStep, OuterStep, Thread

\* The choice of program and mesh is one of those given.
LEMMA ChosenKept == Chosen /\ [Next]_vars => Chosen' /\ program' = program /\ mesh' = mesh
  BY ChoiceKept DEF Chosen, choice

-----------------------------------------------------------------------------
(* The bounds, and what only dataSendRcv does.                             *)

\* Counters stop at their bounds.
LEMMA BoundKept == Chosen /\ BoundInv /\ [Next]_vars => BoundInv'
  <1> HAVE Chosen /\ BoundInv /\ [Next]_vars
  <1>a. program' = program /\ mesh' = mesh
    BY ChosenKept
  <1>b. /\ MaxRounds \in Nat /\ MaxData \in Nat /\ MaxLoss(program, mesh) \in Nat
        /\ MaxSlow(program, mesh) \in Nat
    BY BoundsNatural DEF Chosen
  <1>1. /\ rounds' = rounds \/ (rounds < MaxRounds /\ rounds' = rounds + 1)
        /\ data' = data \/ (data < MaxData /\ data' = data + 1)
        /\ slow' = slow \/ (slow < MaxSlow(program, mesh) /\ slow' = slow + 1)
        /\ losses' = losses \/ (losses < MaxLoss(program, mesh) /\ losses' = losses + 1)
    <2>1. CASE boundVars' = boundVars
      BY <2>1 DEF boundVars
    <2>2. CASE WireStep
      BY <2>1, <2>2 DEF WireStep, RxStep, RxPost, RxLinkSrsp, RxLinkAreq, OnlyRx, NodeAnswers,
                        NodeSilent, OnlyNetwork
    <2>3. CASE OuterStep
      BY <2>1, <2>3 DEF OuterStep, Change, SendData, Discover, LoopEnd, ShowNext, ShowEnds,
                        DataSent, MsgWait
    <2>4. ASSUME NEW t \in Thread, Step(t) PROVE boundVars' = boundVars \/ Send(t)
      BY <2>4 DEF Step, SrspGranted, SrspTimeout, Fetch, FetchTimeout, BeginEntry, PassOver,
                  ListChild, CountRead, CallbackReturns
    <2>5. ASSUME NEW t \in Thread, Send(t)
          PROVE  /\ UNCHANGED <<rounds, data, slow>>
                 /\ losses' = losses \/ (losses < MaxLoss(program, mesh) /\ losses' = losses + 1)
      BY <2>5 DEF Send
    <2>6. CASE UNCHANGED vars
      BY <2>1, <2>6 DEF vars
    <2> QED
      BY <2>1, <2>2, <2>3, <2>4, <2>5, <2>6, StepKinds
  <1> QED
    BY <1>1, <1>a, <1>b DEF BoundInv

\* What sets initDone belongs to dataSendRcv.
LEMMA FlagKept == Chosen /\ NwkInv /\ FlagInv /\ [Next]_vars => FlagInv'
  <1> SUFFICES ASSUME Chosen, NwkInv, FlagInv, [Next]_vars, Nwk PROVE ~initDone'
    BY ChosenKept DEF FlagInv, Nwk
  <1>1. pc["app"] \notin {"show", "confirmed"} /\ ~initDone
    BY DEF NwkInv, NwkEntries, Shape, FlagInv
  <1>2. CASE WireStep \/ UNCHANGED vars
    BY <1>1, <1>2 DEF WireStep, RxStep, RxPost, RxLinkSrsp, RxLinkAreq, OnlyRx, NodeAnswers,
                      NodeSilent, OnlyNetwork, vars, appVars
  <1>3. CASE OuterStep
    BY <1>1, <1>3 DEF OuterStep, Change, SendData, Discover, LoopEnd, ShowNext, ShowEnds,
                      DataSent, MsgWait, appVars
  <1>4. ASSUME NEW t \in Thread, Step(t) PROVE ~initDone'
    BY <1>1, <1>4 DEF Step, Send, SrspGranted, SrspTimeout, Fetch, FetchTimeout, BeginEntry,
                      PassOver, ListChild, CountRead, CallbackReturns, appVars
  <1> QED
    BY <1>2, <1>3, <1>4, StepKinds

-----------------------------------------------------------------------------
(* The steps of a thread, by what becomes of its callbacks.                *)

\* It goes to another place.
MovesTo(t, place) == Moves(t, place, calls[t])

\* Its callback goes on.
TopGoesOn(t, place, c) ==
    /\ pc[t] = "callback" /\ calls[t] # <<>> /\ c \in Call
    /\ c.node = calls[t][1].node /\ c.back = calls[t][1].back /\ c.next >= calls[t][1].next
    /\ Moves(t, place, [calls[t] EXCEPT ![1] = c])

\* It begins to handle a response.
TopBegins(t, n, c) ==
    /\ n \in Routers(mesh) /\ mesh[n].ok
    /\ c \in Call /\ c.node = n /\ c.next = 0 /\ c.at = nodeCount + 1 /\ c.back = After(t, pc[t])
    /\ Moves(t, "callback", <<c>> \o calls[t])

\* What each step of a callback does to it.
LEMMA CallbackStack ==
    ASSUME ThreadsInv, NEW t \in Thread
    PROVE  /\ BeginEntry(t) => \E c \in Call : TopGoesOn(t, "callback", c)
           /\ PassOver(t) => \E c \in Call :
                 c.next = calls[t][1].next + 1 /\ TopGoesOn(t, "callback", c)
           /\ ListChild(t) => \E c \in Call :
                 /\ c.next = calls[t][1].next + 1
                 /\ TopGoesOn(t, IF Neighbour(t).type = "router" THEN "send" ELSE "callback", c)
           /\ CountRead(t) => \E c \in Call :
                 c.at = nodeCount + 1 /\ TopGoesOn(t, "count", c)
  <1> DEFINE s == calls[t]
  <1>a. /\ pc \in [Thread -> Places \cup MsgPlaces] /\ calls \in [Thread -> Seq(Call)]
        /\ calls = [calls EXCEPT ![t] = s] /\ pc = [pc EXCEPT ![t] = pc[t]]
        /\ s \in Seq(Call) /\ nodeCount \in Nat
        /\ pc[t] \in {"callback", "count"} => s # <<>>
    BY DEF ThreadsInv, Thread
  <1>b. pc[t] \in {"callback", "count"} => s[1] \in Call
    BY <1>a, Popped
  <1>1. ASSUME BeginEntry(t) PROVE \E c \in Call : TopGoesOn(t, "callback", c)
    <2> DEFINE c == [s[1] EXCEPT !.next = 1]
    <2>1. pc[t] = "callback" /\ s # <<>> /\ s[1] \in Call /\ s[1].next = 0
      BY <1>1, <1>a, <1>b DEF BeginEntry
    <2>2. c \in Call /\ c.node = s[1].node /\ c.back = s[1].back /\ c.next >= s[1].next
      BY <2>1 DEF Call
    <2>3. Moves(t, "callback", [s EXCEPT ![1] = c])
      BY <1>1, <1>a, <2>1 DEF BeginEntry, Moves
    <2> QED
      BY <1>1, <2>1, <2>2, <2>3 DEF TopGoesOn
  <1>2. ASSUME PassOver(t) \/ ListChild(t)
        PROVE  \E c \in Call :
                  /\ c.next = s[1].next + 1
                  /\ PassOver(t) => TopGoesOn(t, "callback", c)
                  /\ ListChild(t) => TopGoesOn(t, IF Neighbour(t).type = "router" THEN "send"
                                                 ELSE "callback", c)
    <2> DEFINE c == [s[1] EXCEPT !.next = @ + 1]
    <2>1. pc[t] = "callback" /\ s # <<>> /\ s[1] \in Call /\ AtNeighbour(t)
      BY <1>2, <1>a, <1>b DEF PassOver, ListChild, AtNeighbour
    <2>2. /\ c \in Call /\ c.node = s[1].node /\ c.back = s[1].back /\ c.next >= s[1].next
          /\ c.next = s[1].next + 1
      BY <2>1 DEF Call
    <2>3. calls' = [calls EXCEPT ![t] = [s EXCEPT ![1] = c]]
      BY <2>1, <1>a DEF AtNeighbour
    <2>a. PassOver(t) => pc' = pc
      BY DEF PassOver
    <2>b. ListChild(t) => pc' = IF Neighbour(t).type = "router" THEN [pc EXCEPT ![t] = "send"] ELSE pc
      BY DEF ListChild, AskIfRouter, Ask, Goes
    <2>4. /\ PassOver(t) => Moves(t, "callback", [s EXCEPT ![1] = c])
          /\ ListChild(t) => Moves(t, IF Neighbour(t).type = "router" THEN "send" ELSE "callback",
                                   [s EXCEPT ![1] = c])
      BY <1>a, <2>1, <2>3, <2>a, <2>b DEF Moves
    <2> HIDE DEF c, s
    <2> QED
      BY <1>2, <2>1, <2>2, <2>4 DEF TopGoesOn, s
  <1>3. ASSUME CountRead(t)
        PROVE  \E c \in Call : c.at = nodeCount + 1 /\ TopGoesOn(t, "count", c)
    <2> DEFINE c == [s[1] EXCEPT !.at = nodeCount + 1]
    <2>1. pc[t] = "callback" /\ s # <<>> /\ s[1] \in Call
      BY <1>3, <1>a, <1>b DEF CountRead
    <2>2. /\ c \in Call /\ c.node = s[1].node /\ c.back = s[1].back /\ c.next >= s[1].next
          /\ c.at = nodeCount + 1
      <3>1. nodeCount + 1 \in Nat
        BY <1>a
      <3> HIDE DEF s
      <3> QED
        BY <2>1, <3>1 DEF Call
    <2>3. Moves(t, "count", [s EXCEPT ![1] = c])
      BY <1>3, <1>a, <2>1 DEF CountRead, Moves, Goes
    <2> QED
      BY <1>3, <2>1, <2>2, <2>3 DEF TopGoesOn
  <1> QED
    BY <1>1, <1>2, <1>3

\* What each step of a thread does to its stack.
LEMMA StepStack ==
    ASSUME ThreadsInv, NEW t \in Thread, Step(t)
    PROVE  \/ Send(t) /\ MovesTo(t, "wait")
           \/ SrspGranted(t) /\ MovesTo(t, "fetch")
           \/ SrspTimeout(t) /\ MovesTo(t, After(t, "fetch"))
           \/ FetchTimeout(t) /\ MovesTo(t, After(t, pc[t]))
           \/ /\ Fetch(t) /\ ~Succeeds(Head(queue)) /\ handled' = handled
              /\ MovesTo(t, After(t, pc[t]))
           \/ /\ Fetch(t) /\ Succeeds(Head(queue)) /\ handled' = Append(handled, Head(queue).from)
              /\ \E c \in Call : TopBegins(t, Head(queue).from, c)
           \/ BeginEntry(t) /\ \E c \in Call : TopGoesOn(t, "callback", c)
           \/ /\ PassOver(t)
              /\ \E c \in Call : c.next = calls[t][1].next + 1 /\ TopGoesOn(t, "callback", c)
           \/ /\ ListChild(t)
              /\ \E c \in Call :
                    /\ c.next = calls[t][1].next + 1
                    /\ TopGoesOn(t, IF Neighbour(t).type = "router" THEN "send" ELSE "callback", c)
           \/ CountRead(t) /\ \E c \in Call : c.at = nodeCount + 1 /\ TopGoesOn(t, "count", c)
           \/ CallbackReturns(t) /\ calls[t] # <<>> /\ Moves(t, calls[t][1].back, Tail(calls[t]))
  <1> DEFINE s == calls[t]
  <1>a. /\ pc \in [Thread -> Places \cup MsgPlaces] /\ calls \in [Thread -> Seq(Call)]
        /\ calls = [calls EXCEPT ![t] = s] /\ pc = [pc EXCEPT ![t] = pc[t]]
        /\ s \in Seq(Call) /\ nodeCount \in Nat
        /\ pc[t] \in {"callback", "count"} => s # <<>>
    BY DEF ThreadsInv, Thread
  <1>1. CASE Send(t) \/ SrspGranted(t) \/ SrspTimeout(t) \/ FetchTimeout(t)
    BY <1>1, <1>a DEF Send, SrspGranted, SrspTimeout, FetchTimeout, Goes, MovesTo, Moves
  <1>2. CASE Fetch(t) /\ ~Succeeds(Head(queue))
    BY <1>2, <1>a DEF Fetch, Handle, Goes, MovesTo, Moves
  <1>3. CASE Fetch(t) /\ Succeeds(Head(queue))
    <2> DEFINE n == Head(queue).from
               b == After(t, pc[t])
               c == [node |-> n, next |-> 0, at |-> nodeCount + 1, back |-> b]
    <2>1. n \in Routers(mesh) /\ mesh[n].ok
      BY <1>3 DEF Succeeds
    <2>2. b \in Returns
      <3>1. pc[t] \in {"fetch", "loop", "get", "confirm", "poll"}
        BY <1>3 DEF Fetch
      <3> QED
        BY <3>1 DEF After, Returns
    <2>3. c \in Call
      BY <1>a, <2>1, <2>2 DEF Call
    <2>4. Begins(t, Head(queue), b)
      BY <1>3 DEF Fetch, Handle
    <2>5. TopBegins(t, n, c) /\ handled' = Append(handled, n)
      BY <1>a, <2>1, <2>3, <2>4 DEF Begins, TopBegins, Goes, Moves
    <2> QED
      BY <1>3, <2>3, <2>5
  <1>4. CASE BeginEntry(t) \/ PassOver(t) \/ ListChild(t) \/ CountRead(t)
    BY <1>4, CallbackStack
  <1>5. CASE CallbackReturns(t)
    BY <1>5, <1>a DEF CallbackReturns, Goes, Moves
  <1> QED
    BY <1>1, <1>2, <1>3, <1>4, <1>5 DEF Step

\* In short: it goes to another place, or a callback begins, goes on or returns.
LEMMA StepMoves ==
    ASSUME ThreadsInv, NEW t \in Thread, Step(t)
    PROVE  \/ \E place : /\ MovesTo(t, place)
                         /\ \/ place \in {"wait", "fetch", After(t, "fetch")}
                            \/ (FetchTimeout(t) \/ Fetch(t)) /\ place = After(t, pc[t])
           \/ \E c \in Call : Fetch(t) /\ TopBegins(t, Head(queue).from, c)
           \/ \E c \in Call, place \in {"send", "callback", "count"} : TopGoesOn(t, place, c)
           \/ calls[t] # <<>> /\ Moves(t, calls[t][1].back, Tail(calls[t]))
  BY StepStack

\* Where StackFits comes from in each of the cases.
LEMMA StackSuffices ==
    ASSUME ThreadsInv, StackInv, NEW t \in Thread, NEW place, NEW stack, Moves(t, place, stack),
           StackFits(place, stack)
    PROVE  StackInv'
  BY DEF ThreadsInv, StackInv, StackFits, Moves, Thread

\* The callbacks are nested as the stack says.
LEMMA StackKept == ThreadsInv /\ StackInv /\ [Next]_vars => StackInv'
  <1> HAVE ThreadsInv /\ StackInv /\ [Next]_vars
  <1>a. pc \in [Thread -> Places \cup MsgPlaces] /\ calls \in [Thread -> Seq(Call)]
    BY DEF ThreadsInv
  <1>1. CASE UNCHANGED <<pc, calls>>
    BY <1>1 DEF StackInv, StackFits
  <1>2. CASE WireStep \/ UNCHANGED vars
    BY <1>1, <1>2 DEF WireStep, RxStep, RxPost, RxLinkSrsp, RxLinkAreq, OnlyRx, NodeAnswers,
                      NodeSilent, OnlyNetwork, vars, threadVars
  <1>3. CASE OuterStep
    <2>1. /\ calls' = calls
          /\ \/ pc["app"] \in {"console", "display", "loop", "show", "confirmed"}
                /\ \E place : pc' = [pc EXCEPT !["app"] = place]
             \/ pc["msg"] = "idle" /\ pc' = [pc EXCEPT !["msg"] = "poll"]
             \/ pc' = pc
      BY <1>3 DEF OuterStep, Change, SendData, Discover, LoopEnd, ShowNext, ShowEnds,
                  DataSent, MsgWait, Ask, AskEndpoints, Goes
    <2>2. ASSUME NEW t \in Thread, NEW place, pc' = [pc EXCEPT ![t] = place],
                 pc[t] \notin {"send", "wait", "fetch", "callback", "count"}
          PROVE  StackInv'
      <3>1. calls[t] = <<>>
        BY <2>2 DEF StackInv, StackFits
      <3>2. StackFits(place, calls[t])
        BY <3>1 DEF StackFits
      <3>3. Moves(t, place, calls[t])
        BY <1>a, <2>1, <2>2 DEF Moves
      <3> QED
        BY <3>2, <3>3, StackSuffices
    <2> QED
      BY <1>1, <2>1, <2>2 DEF Thread
  <1>4. ASSUME NEW t \in Thread, Step(t) PROVE StackInv'
    <2> DEFINE s == calls[t]
    <2>1. /\ s \in Seq(Call) /\ StackFits(pc[t], s)
          /\ \A j \in DOMAIN s : s[j].back = "callback" => j + 1 \in DOMAIN s
      BY DEF ThreadsInv, StackInv
    <2>2. ASSUME NEW place, MovesTo(t, place),
                 place \in {"wait", "fetch"} \/ s = <<>> \/ place = "callback"
          PROVE  StackInv'
      <3>1. StackFits(place, s)
        BY <2>1, <2>2 DEF StackFits
      <3> QED
        BY <2>2, <3>1, StackSuffices DEF MovesTo
    <2>3. ASSUME NEW place \in {"send", "callback", "count"}, NEW c \in Call, TopGoesOn(t, place, c)
          PROVE  StackInv'
      <3> DEFINE new == [s EXCEPT ![1] = c]
      <3>1. c.back = s[1].back /\ s # <<>> /\ Moves(t, place, new)
        BY <2>3 DEF TopGoesOn
      <3>2. /\ DOMAIN new = DOMAIN s /\ Len(new) = Len(s) /\ new[1] = c
            /\ \A j \in DOMAIN s : j # 1 => new[j] = s[j]
        BY <2>1, <3>1, Replaced
      <3> HIDE DEF new, s
      <3>3. StackFits(place, new)
        BY <2>1, <3>1, <3>2 DEF StackFits
      <3> QED
        BY <3>1, <3>3, StackSuffices
    <2>4. ASSUME NEW n, NEW c \in Call, TopBegins(t, n, c), Fetch(t) PROVE StackInv'
      <3>1. c.back = After(t, pc[t]) /\ Moves(t, "callback", <<c>> \o s)
        BY <2>4 DEF TopBegins
      <3>2. c.back # "callback" => s = <<>>
        <4>1. pc[t] \in {"fetch", "loop", "get", "confirm", "poll"}
          BY <2>4 DEF Fetch
        <4>2. pc[t] = "fetch" /\ s # <<>> => c.back = "callback"
          BY <3>1 DEF After
        <4> QED
          BY <2>1, <4>1, <4>2 DEF StackFits
      <3> DEFINE new == <<c>> \o s
      <3>3. /\ Len(new) = Len(s) + 1 /\ new[1] = c
            /\ \A j \in DOMAIN s : new[j + 1] = s[j]
            /\ \A j \in DOMAIN new : j \in Nat \ {0} /\ (j = 1 \/ j - 1 \in DOMAIN s)
            /\ Len(s) \in Nat /\ (s = <<>> => Len(s) = 0)
        BY <2>1
      <3> HIDE DEF new, s
      <3>4. ASSUME NEW j \in DOMAIN new, new[j].back # "callback" PROVE j = Len(new)
        <4>1. CASE j = 1
          BY <3>2, <3>3, <3>4, <4>1
        <4>2. CASE j # 1
          <5>1. j - 1 \in DOMAIN s /\ new[(j - 1) + 1] = s[j - 1] /\ (j - 1) + 1 = j
            BY <3>3, <4>2
          <5>2. j - 1 = Len(s)
            BY <2>1, <3>4, <5>1 DEF StackFits
          <5> QED
            BY <3>3, <5>1, <5>2
        <4> QED
          BY <4>1, <4>2
      <3>5. StackFits("callback", new)
        BY <3>4 DEF StackFits
      <3> QED
        BY <3>1, <3>5, StackSuffices DEF new, s
    <2>5. ASSUME s # <<>>, Moves(t, s[1].back, Tail(s)) PROVE StackInv'
      <3>1. /\ Len(Tail(s)) = Len(s) - 1 /\ Len(s) \in Nat \ {0} /\ 1 \in DOMAIN s
            /\ \A j \in DOMAIN Tail(s) : j \in Nat /\ Tail(s)[j] = s[j + 1] /\ j + 1 \in DOMAIN s
            /\ Tail(s) \in Seq(Call)
        BY <2>1, <2>5, Popped
      <3>2. s[1].back # "callback" => Tail(s) = <<>>
        BY <2>1, <3>1, EmptyLength DEF StackFits
      <3> DEFINE back == s[1].back
                 rest == Tail(s)
      <3>3. \A j \in DOMAIN rest : rest[j].back # "callback" => j = Len(rest)
        BY <2>1, <3>1 DEF StackFits
      <3> HIDE DEF back, rest
      <3>4. StackFits(back, rest)
        BY <3>2, <3>3 DEF StackFits, back, rest
      <3> QED
        BY <2>5, <3>4, StackSuffices DEF back, rest
    <2>6. After(t, "fetch") = "callback" \/ s = <<>>
      BY DEF After
    <2>7. After(t, pc[t]) = "callback" \/ s = <<>> \/ pc[t] \notin {"fetch", "loop", "get", "confirm", "poll"}
      BY <2>1 DEF After, StackFits
    <2> HIDE DEF s
    <2>8. FetchTimeout(t) \/ Fetch(t) => pc[t] \in {"fetch", "loop", "get", "confirm", "poll"}
      BY DEF FetchTimeout, Fetch
    <2>9. ASSUME NEW place, MovesTo(t, place),
                 \/ place \in {"wait", "fetch", After(t, "fetch")}
                 \/ (FetchTimeout(t) \/ Fetch(t)) /\ place = After(t, pc[t])
          PROVE  StackInv'
      BY <2>2, <2>6, <2>7, <2>8, <2>9
    <2>10. ASSUME NEW c \in Call, Fetch(t), NEW n, TopBegins(t, n, c) PROVE StackInv'
      BY <2>4, <2>10
    <2>11. calls[t] # <<>> /\ Moves(t, calls[t][1].back, Tail(calls[t])) => StackInv'
      BY <2>5 DEF s
    <2> QED
      BY <1>4, <2>3, <2>9, <2>10, <2>11, StepMoves
  <1> QED
    BY <1>2, <1>3, <1>4, StepKinds

-----------------------------------------------------------------------------
(* The form of requests and messages.                                      *)

\* A request is none of the messages, and has a kind.
LEMMA RequestForms ==
    ASSUME NEW p, NEW m
    PROVE  /\ NoRequest \notin Requests(p, m) /\ Srsp \in Messages(p, m)
           /\ \A x \in Requests(p, m) :
                 [kind |-> x.kind, from |-> x.to] \in Messages(p, m) \ {Srsp}
           /\ \A r : Lqi(r) \in Requests(p, m) => r \in Askable(p, m)
           /\ \A r : Answer(r) \in Messages(p, m) => r \in Askable(p, m)
           /\ \A f \in Messages(p, m) : f.kind = "lqi" => f = Answer(f.from)
           /\ \A a \in Routers(m) \cup Addresses(m) :
                 /\ [kind |-> "ep", to |-> a] \in Requests(p, m)
                 /\ [kind |-> "data", to |-> a] \in Requests(p, m)
           /\ \A a \in Askable(p, m) : Lqi(a) \in Requests(p, m)
  <1>1. NoRequest \notin Requests(p, m) /\ Srsp \in Messages(p, m)
    BY DEF Requests, Messages, NoRequest, Lqi
  <1>2. ASSUME NEW x \in Requests(p, m)
        PROVE  [kind |-> x.kind, from |-> x.to] \in Messages(p, m) \ {Srsp}
    <2>1. CASE x \in [kind : {"ep", "data"}, to : Routers(m) \cup Addresses(m)]
      BY <2>1 DEF Messages, Srsp
    <2>2. CASE x \in {Lqi(r) : r \in Askable(p, m)}
      <3>1. PICK r \in Askable(p, m) : x = Lqi(r)
        BY <2>2
      <3>2. [kind |-> x.kind, from |-> x.to] = Answer(r)
        BY <3>1 DEF Lqi, Answer
      <3> QED
        BY <3>1, <3>2, Different DEF Messages
    <2> QED
      BY <2>1, <2>2 DEF Requests
  <1>3. ASSUME NEW r, Lqi(r) \in Requests(p, m) PROVE r \in Askable(p, m)
    BY <1>3, Different DEF Requests, Lqi
  <1>4. ASSUME NEW r, Answer(r) \in Messages(p, m) PROVE r \in Askable(p, m)
    BY <1>4, Different DEF Messages, Answer
  <1>5. \A f \in Messages(p, m) : f.kind = "lqi" => f = Answer(f.from)
    BY DEF Messages, Srsp, Answer
  <1>6. /\ \A a \in Routers(m) \cup Addresses(m) : /\ [kind |-> "ep", to |-> a] \in Requests(p, m)
                                                 /\ [kind |-> "data", to |-> a] \in Requests(p, m)
        /\ \A a \in Askable(p, m) : Lqi(a) \in Requests(p, m)
    BY DEF Requests
  <1> QED
    BY <1>1, <1>2, <1>3, <1>4, <1>5, <1>6

\* The coordinator may be asked, and so may a router that a callback reads of.
LEMMA AskableRouters ==
    ASSUME NEW p, NEW m \in Meshes, NEW n \in Routers(m), NEW k \in DOMAIN Page(m, n),
           NEW r, Names(p, Page(m, n)[k], r)
    PROVE  r \in Askable(p, m) /\ Coordinator \in Askable(p, m)
  <1>1. Page(m, n)[k] \in Neighbours(m, n)
    <2>1. Page(m, n) \in Seq(Neighbours(m, n))
      BY PageIsSequence
    <2> QED
      BY <2>1
  <1>2. Coordinator \in Addresses(m)
    BY DEF Addresses
  <1>3. r \in Addresses(m)
    BY <1>1 DEF Addresses, Names
  <1>4. Follows(p, m, n, r)
    BY DEF Follows
  <1> QED
    BY <1>2, <1>3, <1>4 DEF Askable

\* What is needed of one thread.
LEMMA WireFrom ==
    ASSUME ThreadsInv, WireInv, program' = program, mesh' = mesh, NEW t \in Thread, NEW place,
           NEW x \in Requests(program, mesh) \cup {NoRequest}, place = "send" <=> x # NoRequest,
           pc' = [pc EXCEPT ![t] = place], request' = [request EXCEPT ![t] = x],
           BagOf(Requests(program, mesh), asked'), line' \in Seq(Messages(program, mesh)),
           queue' \in Seq(Messages(program, mesh)), held' \in BOOLEAN
    PROVE  WireInv'
  <1>1. pc \in [Thread -> Places \cup MsgPlaces]
    BY DEF ThreadsInv
  <1>2. /\ request' \in [Thread -> Requests(program, mesh) \cup {NoRequest}]
        /\ \A u \in Thread : pc'[u] = "send" <=> request'[u] # NoRequest
    BY <1>1 DEF WireInv
  <1> QED
    BY <1>2 DEF WireInv

\* The list holds routers and neighbours of routers.
LEMMA ListKept == Chosen /\ ThreadsInv /\ ListInv /\ [Next]_vars => ListInv'
  <1> HAVE Chosen /\ ThreadsInv /\ ListInv /\ [Next]_vars
  <1>a. mesh' = mesh /\ mesh \in Meshes
    BY ChosenKept DEF Chosen
  <1>1. CASE UNCHANGED <<nodeList, cursor>>
    BY <1>1, <1>a DEF ListInv
  <1>2. CASE WireStep \/ UNCHANGED vars
    BY <1>1, <1>2 DEF WireStep, RxStep, RxPost, RxLinkSrsp, RxLinkAreq, OnlyRx, NodeAnswers,
                      NodeSilent, OnlyNetwork, vars, listVars, appVars
  <1>3. CASE OuterStep
    <2>1. nodeList' = nodeList
      BY <1>3 DEF OuterStep, Change, SendData, Discover, LoopEnd, ShowNext, ShowEnds, DataSent,
                  MsgWait, listVars
    <2>2. cursor' \in [node : Nat \ {0}, child : Nat]
      <3>1. CASE ShowNext
        <4>1. /\ cursor.node \in Nat \ {0} /\ cursor.child \in Nat
              /\ cursor = [node |-> cursor.node, child |-> cursor.child]
          BY DEF ListInv
        <4>2. \/ cursor' = [cursor EXCEPT !.child = 1]
              \/ cursor' = [cursor EXCEPT !.child = cursor.child + 1]
              \/ cursor' = [node |-> cursor.node + 1, child |-> 0]
          BY <3>1 DEF ShowNext
        <4> QED
          BY <4>1, <4>2
      <3>2. CASE ~ShowNext
        BY <1>3, <3>2 DEF OuterStep, Change, SendData, Discover, LoopEnd, ShowEnds, DataSent,
                          MsgWait, appVars, ListInv
      <3> QED
        BY <3>1, <3>2
    <2> QED
      BY <1>a, <2>1, <2>2 DEF ListInv
  <1>4. ASSUME NEW t \in Thread, Step(t), ~BeginEntry(t), ~ListChild(t) PROVE ListInv'
    BY <1>1, <1>4 DEF Step, Send, SrspGranted, SrspTimeout, Fetch, FetchTimeout, PassOver,
                      CountRead, CallbackReturns, listVars, appVars
  <1>5. ASSUME NEW t \in Thread, BeginEntry(t) \/ ListChild(t) PROVE ListInv'
    <2> DEFINE n == calls[t][1].node
    <2>1. n \in Routers(mesh) /\ calls[t] # <<>>
      <3>1. calls[t] \in Seq(Call) /\ calls[t] # <<>>
        BY <1>5 DEF ThreadsInv, BeginEntry, ListChild, AtNeighbour, Thread
      <3>2. calls[t][1] \in Call
        BY <3>1, Popped
      <3> QED
        BY <3>1, <3>2 DEF Call
    <2>2. cursor' = cursor
      BY <1>5 DEF BeginEntry, ListChild, appVars
    <2>3. CASE BeginEntry(t)
      <3> DEFINE e == [addr |-> n, type |-> IF n = Coordinator THEN "coordinator" ELSE "router",
                       children |-> <<>>]
      <3>1. e \in EntryIn(mesh)
        BY <2>1 DEF EntryIn
      <3>2. nodeList' = [nodeList EXCEPT ![Slot(t)] = e]
        BY <2>3 DEF BeginEntry
      <3> HIDE DEF e
      <3>3. nodeList' \in [1..Capacity -> EntryIn(mesh)]
        BY <3>1, <3>2 DEF ListInv
      <3> QED
        BY <1>a, <2>2, <3>3 DEF ListInv
    <2>4. CASE ListChild(t)
      <3> DEFINE x == Neighbour(t)
                 child == [addr |-> x.addr, type |-> x.type]
      <3>1. calls[t][1].next \in DOMAIN Page(mesh, n)
        BY <2>4 DEF ListChild, AtNeighbour
      <3>2. x \in Neighbours(mesh, n)
        <4>1. Page(mesh, n) \in Seq(Neighbours(mesh, n))
          BY <1>a, <2>1, PageIsSequence
        <4> QED
          BY <3>1, <4>1 DEF Neighbour
      <3>3. x.type \in Types
        BY <1>a, <2>1, <3>2, TablesOfNeighbours DEF Neighbours
      <3>4. child \in ChildOf(mesh)
        BY <2>1, <3>2, <3>3 DEF ChildOf
      <3>5. nodeList' = [nodeList EXCEPT ![Slot(t)].children = Append(@, child)]
        BY <2>4 DEF ListChild
      <3> HIDE DEF child
      <3>6. nodeList' \in [1..Capacity -> EntryIn(mesh)]
        <4>1. nodeList \in [1..Capacity -> EntryIn(mesh)]
          BY DEF ListInv
        <4>2. ASSUME Slot(t) \in 1..Capacity
              PROVE  [nodeList[Slot(t)] EXCEPT !.children = Append(@, child)] \in EntryIn(mesh)
          BY <3>4, <4>1, <4>2, SMTT(60) DEF EntryIn
        <4> HIDE DEF EntryIn
        <4> QED
          BY <3>5, <4>1, <4>2
      <3> QED
        BY <1>a, <2>2, <3>6 DEF ListInv
    <2> QED
      BY <1>5, <2>3, <2>4
  <1> QED
    BY <1>2, <1>3, <1>4, <1>5, StepKinds

\* What is on its way keeps its form.
LEMMA WireKept ==
    Chosen /\ ThreadsInv /\ ListInv /\ WireInv /\ [Next]_vars => WireInv'
  <1> HAVE Chosen /\ ThreadsInv /\ ListInv /\ WireInv /\ [Next]_vars
  <1> DEFINE Q == Requests(program, mesh)
             F == Messages(program, mesh)
  <1>a. mesh' = mesh /\ program' = program /\ mesh \in Meshes /\ program \in Programs
    BY ChosenKept DEF Chosen
  <1>b. /\ pc \in [Thread -> Places \cup MsgPlaces]
        /\ request \in [Thread -> Q \cup {NoRequest}]
        /\ \A t \in Thread : pc[t] = "send" <=> request[t] # NoRequest
        /\ BagOf(Q, asked) /\ line \in Seq(F) /\ queue \in Seq(F) /\ held \in BOOLEAN
    BY DEF WireInv, ThreadsInv
  <1>c. NoRequest \notin Q /\ Srsp \in F
    BY RequestForms
  <1> HIDE DEF Q, F
  <1>1. ASSUME UNCHANGED <<pc, request>>, BagOf(Q, asked'), line' \in Seq(F), queue' \in Seq(F),
               held' \in BOOLEAN
        PROVE  WireInv'
    BY <1>1, <1>a, <1>b DEF WireInv, Q, F
  <1>2. ASSUME UNCHANGED <<request, asked, line, held>>, queue' \in Seq(F), NEW t \in Thread,
               pc[t] # "send", NEW place, place # "send", pc' = [pc EXCEPT ![t] = place]
        PROVE  WireInv'
    <2>1. request[t] = NoRequest /\ request' = [request EXCEPT ![t] = NoRequest]
      BY <1>2, <1>b
    <2> QED
      BY <1>2, <1>a, <1>b, <1>c, <2>1, WireFrom DEF Q, F
  <1>3. ASSUME UNCHANGED <<asked, line, queue, held>>, NEW t \in Thread, NEW x \in Q,
               pc' = [pc EXCEPT ![t] = "send"], request' = [request EXCEPT ![t] = x]
        PROVE  WireInv'
    BY <1>3, <1>a, <1>b, <1>c, WireFrom DEF Q, F
  <1>4. CASE UNCHANGED vars
    BY <1>1, <1>4, <1>b DEF vars, threadVars, wireVars, rpcVars
  <1>5. CASE RxStep
    <2>1. UNCHANGED <<pc, request, asked>>
      BY <1>5 DEF RxStep, RxPost, RxLinkSrsp, RxLinkAreq, OnlyRx, threadVars
    <2>2. line' \in Seq(F) /\ queue' \in Seq(F) /\ held' \in BOOLEAN
      <3>1. CASE RxPost
        BY <3>1, <1>b DEF RxPost
      <3>2. CASE RxLinkSrsp
        <4>1. queue' = <<Srsp>> \o queue /\ line' = line /\ held' = FALSE
          BY <3>2 DEF RxLinkSrsp
        <4>2. \A x \in F : <<x>> \o queue \in Seq(F)
          BY <1>b
        <4> QED
          BY <1>b, <1>c, <4>1, <4>2
      <3>3. CASE RxLinkAreq
        BY <3>3, <1>b DEF RxLinkAreq
      <3> QED
        BY <1>5, <3>1, <3>2, <3>3 DEF RxStep
    <2> QED
      BY <1>1, <1>b, <2>1, <2>2
  <1>6. CASE NodeAnswers \/ NodeSilent
    <2>1. UNCHANGED <<pc, request, queue, held>>
      BY <1>6 DEF NodeAnswers, NodeSilent, OnlyNetwork, threadVars, rpcVars
    <2>2. PICK x \in BagToSet(asked) :
             /\ asked' = asked (-) SetToBag({x})
             /\ line' = line \/ line' = Append(line, [kind |-> x.kind, from |-> x.to])
      BY <1>6 DEF NodeAnswers, NodeSilent
    <2>3. BagOf(Q, asked') /\ x \in Q
      BY <1>b, <2>2, CopiesTaken
    <2>4. [kind |-> x.kind, from |-> x.to] \in F
      BY <2>3, RequestForms DEF Q, F
    <2>5. line' \in Seq(F)
      BY <1>b, <2>2, <2>4, SMTT(60)
    <2> QED
      BY <1>1, <1>b, <2>1, <2>3, <2>5
  <1>7. CASE Change \/ LoopEnd \/ ShowEnds \/ DataSent
    <2>1. UNCHANGED <<request, asked, line, held, queue>> /\ pc["app"] # "send"
      BY <1>7 DEF Change, LoopEnd, ShowEnds, DataSent, wireVars, rpcVars
    <2>2. \E place : place # "send" /\ pc' = [pc EXCEPT !["app"] = place]
      BY <1>7 DEF Change, LoopEnd, ShowEnds, DataSent, Goes
    <2> QED
      BY <1>2, <1>b, <2>1, <2>2 DEF Thread
  <1>8. CASE MsgWait
    <2>1. UNCHANGED <<request, asked, line, held, queue>> /\ pc["msg"] # "send"
          /\ pc' = [pc EXCEPT !["msg"] = "poll"]
      BY <1>8 DEF MsgWait, wireVars, rpcVars, Goes
    <2> QED
      BY <1>2, <1>b, <2>1 DEF Thread
  <1>9. CASE Discover \/ SendData
    <2>1. UNCHANGED <<asked, line, held, queue>> /\ pc' = [pc EXCEPT !["app"] = "send"]
      BY <1>9 DEF Discover, SendData, Ask, Goes, wireVars, rpcVars
    <2>2. request' = [request EXCEPT !["app"] = Lqi(Coordinator)]
             \/ request' = [request EXCEPT !["app"] = [kind |-> "data", to |-> Coordinator]]
      BY <1>9 DEF Discover, SendData, Ask, Lqi
    <2>3. Coordinator \in Askable(program, mesh)
      BY DEF Askable, Addresses
    <2>4. Lqi(Coordinator) \in Q /\ [kind |-> "data", to |-> Coordinator] \in Q
      BY <2>3, RequestForms DEF Q, Askable
    <2> QED
      BY <1>3, <2>1, <2>2, <2>4 DEF Thread
  <1>10. CASE ShowNext
    <2> DEFINE i == cursor.node
               children == nodeList[i].children
    <2>1. i \in 1..Capacity
      BY <1>10, BoundsNatural DEF ShowNext, ListInv
    <2>2. nodeList[i].addr \in Routers(mesh) /\ children \in Seq(ChildOf(mesh))
      BY <2>1 DEF ListInv, EntryIn
    <2>3. ASSUME NEW c \in DOMAIN children PROVE children[c].addr \in Addresses(mesh)
      <3>1. children[c] \in ChildOf(mesh)
        BY <2>2
      <3> QED
        BY <3>1 DEF ChildOf, Addresses
    <2>4. UNCHANGED <<asked, line, held, queue>>
      BY <1>10 DEF ShowNext, wireVars, rpcVars
    <2>5. \/ UNCHANGED <<pc, request>>
          \/ AskEndpoints(nodeList[i].addr)
          \/ \E c \in DOMAIN children : AskEndpoints(children[c].addr)
      BY <1>10 DEF ShowNext
    <2> HIDE DEF children, i
    <2>6. UNCHANGED <<pc, request>>
             \/ \E a \in Routers(mesh) \cup Addresses(mesh) : AskEndpoints(a)
      BY <2>2, <2>3, <2>5
    <2>7. ASSUME NEW a \in Routers(mesh) \cup Addresses(mesh), AskEndpoints(a) PROVE WireInv'
      <3>1. [kind |-> "ep", to |-> a] \in Q
        BY RequestForms DEF Q
      <3>2. /\ pc' = [pc EXCEPT !["app"] = "send"]
            /\ request' = [request EXCEPT !["app"] = [kind |-> "ep", to |-> a]]
        BY <2>7 DEF AskEndpoints, Ask, Goes
      <3> QED
        BY <1>3, <2>4, <3>1, <3>2 DEF Thread
    <2> QED
      BY <1>1, <1>b, <2>4, <2>6, <2>7
  <1>11. ASSUME NEW t \in Thread, Step(t) PROVE WireInv'
    <2>1. CASE Send(t)
      <3>1. /\ pc[t] = "send" /\ pc' = [pc EXCEPT ![t] = "wait"]
            /\ request' = [request EXCEPT ![t] = NoRequest]
            /\ UNCHANGED <<queue, held>>
            /\ line' = line \/ line' = Append(line, Srsp)
            /\ asked' = asked \/ asked' = asked (+) SetToBag({request[t]})
        BY <2>1 DEF Send, Goes
      <3>2. request[t] \in Q
        BY <1>b, <3>1
      <3>3. BagOf(Q, asked')
        <4>1. BagOf(Q, asked (+) SetToBag({request[t]}))
          BY <1>b, <3>2, CopiesAdd
        <4> QED
          BY <1>b, <3>1, <4>1
      <3>4. line' \in Seq(F)
        <4>1. \A x \in F : Append(line, x) \in Seq(F)
          BY <1>b
        <4> QED
          BY <1>b, <1>c, <3>1, <4>1
      <3> QED
        BY <1>a, <1>b, <3>1, <3>3, <3>4, WireFrom DEF Q, F
    <2>3. CASE ListChild(t)
      <3>1. UNCHANGED <<asked, line, held, queue>> /\ pc[t] = "callback" /\ AskIfRouter(t, Neighbour(t))
            /\ AtNeighbour(t) /\ Accepts(program, Neighbour(t).relation)
        BY <2>3 DEF ListChild, AtNeighbour, wireVars, rpcVars
      <3>2. CASE Neighbour(t).type = "router"
        <4> DEFINE n == calls[t][1].node
                   k == calls[t][1].next
                   r == Neighbour(t).addr
        <4>1. k \in DOMAIN Page(mesh, n) /\ Names(program, Page(mesh, n)[k], r)
          BY <3>1, <3>2 DEF AtNeighbour, Neighbour, Names
        <4>2. n \in Routers(mesh)
          <5>1. calls[t] \in Seq(Call) /\ calls[t] # <<>>
            BY <3>1 DEF ThreadsInv, Thread
          <5>2. calls[t][1] \in Call
            BY <5>1, Popped
          <5> QED
            BY <5>2 DEF Call
        <4>3. r \in Askable(program, mesh)
          BY <1>a, <4>1, <4>2, AskableRouters
        <4>4. Lqi(r) \in Q
          BY <4>3, RequestForms DEF Q
        <4>5. /\ pc' = [pc EXCEPT ![t] = "send"]
              /\ request' = [request EXCEPT ![t] = Lqi(r)]
          BY <3>1, <3>2 DEF AskIfRouter, Ask, Goes, Lqi
        <4> QED
          BY <1>3, <3>1, <4>4, <4>5
      <3>3. CASE Neighbour(t).type # "router"
        BY <1>1, <1>b, <3>1, <3>3 DEF AskIfRouter
      <3> QED
        BY <3>2, <3>3
    <2>4. CASE BeginEntry(t) \/ PassOver(t)
      BY <1>1, <1>b, <2>4 DEF BeginEntry, PassOver, wireVars, rpcVars
    <2>5. After(t, pc[t]) # "send" /\ After(t, "fetch") # "send"
      BY DEF After
    <2>6. CASE SrspGranted(t) \/ SrspTimeout(t) \/ FetchTimeout(t) \/ CountRead(t)
      <3>1. UNCHANGED <<request, asked, line, held, queue>> /\ pc[t] # "send"
        BY <2>6 DEF SrspGranted, SrspTimeout, FetchTimeout, CountRead, wireVars, rpcVars
      <3>2. \E place : place # "send" /\ pc' = [pc EXCEPT ![t] = place]
        BY <2>5, <2>6 DEF SrspGranted, SrspTimeout, FetchTimeout, CountRead, Goes
      <3> QED
        BY <1>2, <1>b, <3>1, <3>2
    <2>7. CASE Fetch(t)
      <3>1. UNCHANGED <<request, asked, line, held>> /\ queue' \in Seq(F) /\ pc[t] # "send"
        BY <1>b, <2>7 DEF Fetch, wireVars
      <3>2. \E place : place # "send" /\ pc' = [pc EXCEPT ![t] = place]
        BY <2>5, <2>7 DEF Fetch, Handle, Begins, Goes
      <3> QED
        BY <1>2, <3>1, <3>2
    <2>8. CASE CallbackReturns(t)
      <3>1. UNCHANGED <<request, asked, line, held, queue>> /\ pc[t] # "send"
            /\ pc' = [pc EXCEPT ![t] = calls[t][1].back]
        BY <2>8 DEF CallbackReturns, wireVars, rpcVars, Goes
      <3>2. calls[t][1].back # "send"
        <4>1. calls[t] \in Seq(Call) /\ calls[t] # <<>>
          BY <2>8 DEF CallbackReturns, ThreadsInv, Thread
        <4>2. calls[t][1] \in Call
          BY <4>1, Popped
        <4> QED
          BY <4>2 DEF Call, Returns
      <3> QED
        BY <1>2, <1>b, <3>1, <3>2
    <2> QED
      BY <1>11, <2>1, <2>3, <2>4, <2>6, <2>7, <2>8 DEF Step
  <1> QED
    BY <1>4, <1>5, <1>6, <1>7, <1>8, <1>9, <1>10, <1>11, StepKinds DEF WireStep, OuterStep

-----------------------------------------------------------------------------
(* The SRSP that a thread waits for.                                       *)

\* A thread that waits has its SRSP coming once, or not at all.
LEMMA SemKept == Chosen /\ ThreadsInv /\ WireInv /\ SemInv /\ [Next]_vars => SemInv'
  <1> HAVE Chosen /\ ThreadsInv /\ WireInv /\ SemInv /\ [Next]_vars
  <1> DEFINE F == Messages(program, mesh)
             S == Occurrences(line, Srsp)
  <1>b. /\ pc \in [Thread -> Places \cup MsgPlaces]
        /\ sender = {t \in Thread : pc[t] = "wait"} /\ srspSem \in Nat
        /\ \A t1, t2 \in Thread : pc[t1] = "wait" /\ pc[t2] = "wait" => t1 = t2
        /\ sender = {} => srspSem = 0 /\ S = 0
        /\ srspSem + S <= 1
        /\ line \in Seq(F) /\ S \in Nat /\ Srsp \in F
    <2>1. line \in Seq(F) /\ Srsp \in F
      BY RequestForms DEF WireInv
    <2>2. S \in Nat
      BY <2>1, OccurrencesNat
    <2> HIDE DEF S, F
    <2> QED
      BY <2>1, <2>2 DEF SemInv, ThreadsInv, S
  <1> HIDE DEF S, F
  <1>1. ASSUME UNCHANGED <<sender, srspSem>>, Occurrences(line', Srsp) = S,
               \A t \in Thread : pc'[t] = "wait" <=> pc[t] = "wait"
        PROVE  SemInv'
    BY <1>1, <1>b DEF SemInv
  <1>2. ASSUME UNCHANGED <<sender, srspSem, line>>, NEW t \in Thread, pc[t] # "wait",
               NEW place, place # "wait", pc' = [pc EXCEPT ![t] = place] \/ pc' = pc
        PROVE  SemInv'
    BY <1>1, <1>2, <1>b DEF S
  <1>3. CASE UNCHANGED vars
    BY <1>1, <1>3 DEF vars, threadVars, wireVars, rpcVars, S
  <1>4. CASE OuterStep
    <2>1. UNCHANGED <<sender, srspSem, line>>
      BY <1>4 DEF OuterStep, Change, SendData, Discover, LoopEnd, ShowNext, ShowEnds, DataSent,
                  MsgWait, wireVars, rpcVars
    <2>2. \/ pc["app"] # "wait" /\ \E place : /\ place # "wait"
                                             /\ (pc' = [pc EXCEPT !["app"] = place] \/ pc' = pc)
          \/ pc["msg"] # "wait" /\ pc' = [pc EXCEPT !["msg"] = "poll"]
      BY <1>4 DEF OuterStep, Change, SendData, Discover, LoopEnd, ShowNext, ShowEnds, DataSent,
                  MsgWait, Ask, AskEndpoints, Goes
    <2> QED
      BY <1>2, <2>1, <2>2 DEF Thread
  <1>5. CASE RxPost
    <2>1. /\ line # <<>> /\ Head(line) = Srsp /\ srspSem' = srspSem + 1 /\ line' = Tail(line)
          /\ UNCHANGED <<pc, sender>>
      BY <1>5 DEF RxPost, OnlyRx, threadVars
    <2>2. S = Occurrences(Tail(line), Srsp) + 1
      BY <1>b, <2>1, OccurrencesTail DEF S
    <2>3. Occurrences(Tail(line), Srsp) \in Nat
      <3>1. Tail(line) \in Seq(F)
        BY <1>b, <2>1
      <3> QED
        BY <3>1, OccurrencesNat
    <2> QED
      BY <1>b, <2>1, <2>2, <2>3 DEF SemInv
  <1>6. CASE RxLinkSrsp
    BY <1>1, <1>6 DEF RxLinkSrsp, OnlyRx, threadVars, S
  <1>7. CASE RxLinkAreq
    <2>1. /\ line # <<>> /\ Head(line) # Srsp /\ line' = Tail(line)
          /\ UNCHANGED <<pc, sender, srspSem>>
      BY <1>7 DEF RxLinkAreq, OnlyRx, threadVars
    <2>2. S = Occurrences(Tail(line), Srsp) + 0
      BY <1>b, <2>1, OccurrencesTail DEF S
    <2>3. Occurrences(Tail(line), Srsp) \in Nat
      <3>1. Tail(line) \in Seq(F)
        BY <1>b, <2>1
      <3> QED
        BY <3>1, OccurrencesNat
    <2> QED
      BY <1>1, <2>1, <2>2, <2>3
  <1>8. CASE NodeAnswers \/ NodeSilent
    <2>1. UNCHANGED <<pc, sender, srspSem>>
      BY <1>8 DEF NodeAnswers, NodeSilent, OnlyNetwork, threadVars, rpcVars
    <2>2. PICK x \in BagToSet(asked) :
             line' = line \/ line' = Append(line, [kind |-> x.kind, from |-> x.to])
      BY <1>8 DEF NodeAnswers, NodeSilent
    <2>a. Occurrences(line, Srsp) = S
      BY DEF S
    <2>3. x \in Requests(program, mesh)
      BY <2>2, CopiesTaken DEF WireInv
    <2> DEFINE f == [kind |-> x.kind, from |-> x.to]
    <2>4. f \in F /\ f # Srsp
      BY <2>3, RequestForms DEF F
    <2> HIDE DEF f
    <2>5. Occurrences(Append(line, f), Srsp) = S + 0
      BY <1>b, <2>4, OccurrencesAppend DEF S
    <2>6. Occurrences(line', Srsp) = S
      <3>1. line' = line \/ line' = Append(line, f)
        BY <2>2 DEF f
      <3>2. CASE line' = line
        BY <2>a, <3>2
      <3>3. CASE line' = Append(line, f)
        <4>1. Occurrences(line', Srsp) = S + 0
          BY <2>5, <3>3
        <4> QED
          BY <1>b, <4>1
      <3> QED
        BY <3>1, <3>2, <3>3
    <2> QED
      BY <1>1, <2>1, <2>6
  <1>9. ASSUME NEW t \in Thread, Step(t) PROVE SemInv'
    <2>1. CASE Send(t)
      <3>1. /\ sender = {} /\ sender' = {t} /\ pc' = [pc EXCEPT ![t] = "wait"]
            /\ srspSem' = srspSem /\ (line' = line \/ line' = Append(line, Srsp))
        BY <2>1 DEF Send, Goes
      <3>2. Occurrences(Append(line, Srsp), Srsp) = S + 1
        BY <1>b, OccurrencesAppend DEF S
      <3>3. Occurrences(line', Srsp) \in {S, S + 1}
        BY <3>1, <3>2 DEF S
      <3>4. \A u \in Thread : pc[u] # "wait"
        BY <1>b, <3>1
      <3>5. \A u \in Thread : pc'[u] = "wait" <=> u = t
        BY <1>b, <3>1, <3>4
      <3> QED
        BY <1>b, <3>1, <3>3, <3>5 DEF SemInv
    <2>2. CASE SrspGranted(t) \/ SrspTimeout(t)
      <3>1. /\ pc[t] = "wait" /\ sender' = {} /\ line' = line
            /\ \E place : place # "wait" /\ pc' = [pc EXCEPT ![t] = place]
        <4>1. After(t, "fetch") # "wait"
          BY DEF After
        <4> QED
          BY <2>2, <4>1 DEF SrspGranted, SrspTimeout, wireVars, Goes
      <3>2. srspSem' = 0 /\ S = 0
        <4>1. CASE SrspGranted(t)
          BY <1>b, <4>1 DEF SrspGranted
        <4>2. CASE SrspTimeout(t)
          <5>1. srspSem' = 0 /\ \A i \in DOMAIN line : line[i] # Srsp
            BY <4>2 DEF SrspTimeout
          <5> QED
            BY <1>b, <5>1, OccurrencesPlaces DEF S
        <4> QED
          BY <2>2, <4>1, <4>2
      <3>3. \A u \in Thread : pc'[u] # "wait"
        BY <1>b, <3>1
      <3> QED
        BY <3>1, <3>2, <3>3 DEF SemInv, S
    <2>3. ASSUME ~Send(t), ~SrspGranted(t), ~SrspTimeout(t) PROVE SemInv'
      <3>1. UNCHANGED <<sender, srspSem, line>> /\ pc[t] # "wait"
        BY <1>9, <2>3 DEF Step, Fetch, FetchTimeout, BeginEntry, PassOver, ListChild, CountRead,
                          CallbackReturns, AtNeighbour, wireVars, rpcVars
      <3>2. After(t, pc[t]) # "wait"
        BY DEF After
      <3>3. CallbackReturns(t) => calls[t][1].back # "wait"
        <4> SUFFICES ASSUME CallbackReturns(t) PROVE calls[t][1].back # "wait"
          OBVIOUS
        <4>1. calls[t] \in Seq(Call) /\ calls[t] # <<>>
          BY DEF CallbackReturns, ThreadsInv, Thread
        <4>2. calls[t][1] \in Call
          BY <4>1, Popped
        <4> QED
          BY <4>2 DEF Call, Returns
      <3>4. \E place : place # "wait" /\ (pc' = [pc EXCEPT ![t] = place] \/ pc' = pc)
        <4>1. CASE Fetch(t) \/ FetchTimeout(t)
          BY <3>2, <4>1 DEF Fetch, FetchTimeout, Handle, Begins, Goes
        <4>2. CASE BeginEntry(t) \/ PassOver(t) \/ CountRead(t)
          <5>1. pc' = [pc EXCEPT ![t] = "count"] \/ pc' = pc
            BY <4>2 DEF BeginEntry, PassOver, CountRead, Goes
          <5> QED
            BY <5>1
        <4>3. CASE ListChild(t)
          <5>1. pc' = [pc EXCEPT ![t] = "send"] \/ pc' = pc
            BY <4>3 DEF ListChild, AskIfRouter, Ask, Goes
          <5> QED
            BY <5>1
        <4>4. CASE CallbackReturns(t)
          BY <3>3, <4>4 DEF CallbackReturns, Goes
        <4> QED
          BY <1>9, <2>3, <4>1, <4>2, <4>3, <4>4 DEF Step
      <3> QED
        BY <1>2, <3>1, <3>4
    <2> QED
      BY <2>1, <2>2, <2>3
  <1> QED
    BY <1>3, <1>4, <1>5, <1>6, <1>7, <1>8, <1>9, StepKinds DEF WireStep, RxStep

-----------------------------------------------------------------------------
(* What is under way about each router.                                    *)

\* For each router there is no more under way than was.
NoMore(m, after, before) == \A r \in Routers(m) : after[r] <= before[r]

\* Requests, questions and answers that may be.
Wired(p, m, req, bag, l, q) ==
    /\ DOMAIN req = Thread
    /\ BagOf(Requests(p, m), bag) /\ l \in Seq(Messages(p, m)) /\ q \in Seq(Messages(p, m))

\* Each part is a number.
LEMMA UnderNat ==
    ASSUME NEW p, NEW m, NEW req, NEW bag, NEW l, NEW q, Wired(p, m, req, bag, l, q), NEW r
    PROVE  /\ Wants(req["app"], r) \in {0, 1} /\ Wants(req["msg"], r) \in {0, 1}
           /\ Asks(req, r) \in Nat /\ Copies(bag, Lqi(r)) \in Nat
           /\ Occurrences(l, Answer(r)) \in Nat /\ Occurrences(q, Answer(r)) \in Nat
           /\ UnderWay(req, bag, l, q, r) \in Nat
           /\ r \in Routers(m) => Under(m, req, bag, l, q)[r] = UnderWay(req, bag, l, q, r)
  <1>1. Wants(req["app"], r) \in {0, 1} /\ Wants(req["msg"], r) \in {0, 1} /\ Asks(req, r) \in Nat
    BY DEF Wants, Asks
  <1>2. Copies(bag, Lqi(r)) \in Nat
    BY DEF Wired, BagOf, Copies
  <1>3. l \in Seq(Messages(p, m)) /\ q \in Seq(Messages(p, m))
    BY DEF Wired
  <1>4. Occurrences(l, Answer(r)) \in Nat /\ Occurrences(q, Answer(r)) \in Nat
    BY <1>3, OccurrencesNat
  <1> QED
    BY <1>1, <1>2, <1>4 DEF UnderWay, Under

\* The request of thread t becomes x.
Requested(new, req, t, x) == new = [req EXCEPT ![t] = x]

\* It counts for its own router.
LEMMA AsksChange ==
    ASSUME NEW req, DOMAIN req = Thread, NEW t \in Thread, NEW x, NEW r,
           NEW new, Requested(new, req, t, x)
    PROVE  Asks(new, r) + Wants(req[t], r) = Asks(req, r) + Wants(x, r)
  <1>1. \A y : Wants(y, r) \in Nat
    BY DEF Wants
  <1>2. CASE t = "app"
    <2>1. new["app"] = x /\ new["msg"] = req["msg"]
      BY <1>2 DEF Thread, Requested
    <2> QED
      BY <1>1, <1>2, <2>1 DEF Asks
  <1>3. CASE t = "msg"
    <2>1. new["msg"] = x /\ new["app"] = req["app"]
      BY <1>3 DEF Thread, Requested
    <2> QED
      BY <1>1, <1>3, <2>1 DEF Asks
  <1> QED
    BY <1>2, <1>3 DEF Thread

\* A request is sent, or lost.
LEMMA UnderSent ==
    ASSUME NEW p, NEW m, NEW req, NEW bag, NEW l, NEW q, Wired(p, m, req, bag, l, q),
           NEW t \in Thread, req[t] \in Requests(p, m), NEW x, \A r : Wants(x, r) = 0,
           NEW after, after = bag \/ after = bag (+) SetToBag({req[t]}),
           NEW l2, l2 = l \/ l2 = Append(l, Srsp)
    PROVE  NoMore(m, Under(m, [req EXCEPT ![t] = x], after, l2, q), Under(m, req, bag, l, q))
  <1> DEFINE new == [req EXCEPT ![t] = x]
  <1>1. SUFFICES ASSUME NEW r \in Routers(m)
                 PROVE  UnderWay(new, after, l2, q, r) <= UnderWay(req, bag, l, q, r)
    BY DEF NoMore, Under
  <1>2. Asks(new, r) + Wants(req[t], r) = Asks(req, r) + 0
    <2>a. DOMAIN req = Thread
      BY DEF Wired
    <2>b. Requested(new, req, t, x)
      BY DEF Requested
    <2> HIDE DEF new
    <2>1. Asks(new, r) + Wants(req[t], r) = Asks(req, r) + Wants(x, r)
      BY <2>a, <2>b, AsksChange
    <2>2. Wants(x, r) = 0
      OBVIOUS
    <2> QED
      BY <2>1, <2>2
  <1>3. Copies(after, Lqi(r)) <= Copies(bag, Lqi(r)) + Wants(req[t], r)
    <2>1. Copies(bag, Lqi(r)) \in Nat /\ Wants(req[t], r) \in {0, 1}
      BY UnderNat DEF Wants
    <2>2. OneMore(bag, bag (+) SetToBag({req[t]}), req[t])
      BY CopiesAdd DEF Wired
    <2>3. CASE after = bag
      BY <2>1, <2>3
    <2>4. CASE after = bag (+) SetToBag({req[t]})
      <3>1. Copies(after, Lqi(r)) = Copies(bag, Lqi(r)) + (IF Lqi(r) = req[t] THEN 1 ELSE 0)
        BY <2>2, <2>4 DEF OneMore
      <3> QED
        BY <2>1, <3>1 DEF Wants
    <2> QED
      BY <2>3, <2>4
  <1>4. Occurrences(l2, Answer(r)) = Occurrences(l, Answer(r))
    <2>1. l \in Seq(Messages(p, m)) /\ Srsp \in Messages(p, m) /\ Srsp # Answer(r)
      BY RequestForms, Different DEF Wired
    <2>2. Occurrences(Append(l, Srsp), Answer(r)) = Occurrences(l, Answer(r)) + 0
      BY <2>1, OccurrencesAppend
    <2>3. Occurrences(l, Answer(r)) \in Nat
      BY UnderNat
    <2>4. CASE l2 = l
      BY <2>4
    <2>5. CASE l2 = Append(l, Srsp)
      BY <2>2, <2>3, <2>5
    <2> QED
      BY <2>4, <2>5
  <1>5. BagOf(Requests(p, m), after)
    BY CopiesAdd DEF Wired
  <1>6. Copies(after, Lqi(r)) \in Nat /\ Asks(new, r) \in Nat /\ Wants(req[t], r) \in Nat
    BY <1>5 DEF BagOf, Copies, Asks, Wants
  <1>7. /\ Asks(req, r) \in Nat /\ Copies(bag, Lqi(r)) \in Nat
        /\ Occurrences(l, Answer(r)) \in Nat /\ Occurrences(q, Answer(r)) \in Nat
    BY UnderNat
  <1> HIDE DEF new
  <1> QED
    BY <1>2, <1>3, <1>4, <1>6, <1>7, SMTT(60) DEF UnderWay

\* A request other than for neighbours is made.
LEMMA UnderOther ==
    ASSUME NEW p, NEW m, NEW req, NEW bag, NEW l, NEW q, Wired(p, m, req, bag, l, q),
           NEW t \in Thread, NEW x, \A r : Wants(x, r) = 0
    PROVE  NoMore(m, Under(m, [req EXCEPT ![t] = x], bag, l, q), Under(m, req, bag, l, q))
  <1> DEFINE new == [req EXCEPT ![t] = x]
  <1>1. SUFFICES ASSUME NEW r \in Routers(m)
                 PROVE  UnderWay(new, bag, l, q, r) <= UnderWay(req, bag, l, q, r)
    BY DEF NoMore, Under
  <1>2. Asks(new, r) + Wants(req[t], r) = Asks(req, r) + 0
    <2>a. DOMAIN req = Thread
      BY DEF Wired
    <2>b. Requested(new, req, t, x)
      BY DEF Requested
    <2> HIDE DEF new
    <2>1. Asks(new, r) + Wants(req[t], r) = Asks(req, r) + Wants(x, r)
      BY <2>a, <2>b, AsksChange
    <2>2. Wants(x, r) = 0
      OBVIOUS
    <2> QED
      BY <2>1, <2>2
  <1>3. Asks(new, r) \in Nat /\ Wants(req[t], r) \in Nat
    BY DEF Asks, Wants
  <1>4. /\ Asks(req, r) \in Nat /\ Copies(bag, Lqi(r)) \in Nat
        /\ Occurrences(l, Answer(r)) \in Nat /\ Occurrences(q, Answer(r)) \in Nat
    BY UnderNat
  <1> HIDE DEF new
  <1> QED
    BY <1>2, <1>3, <1>4 DEF UnderWay

\* A question is answered, or the answer is lost.
LEMMA UnderAnswered ==
    ASSUME NEW p, NEW m, NEW req, NEW bag, NEW l, NEW q, Wired(p, m, req, bag, l, q),
           NEW x \in BagToSet(bag), NEW l2,
           l2 = l \/ l2 = Append(l, [kind |-> x.kind, from |-> x.to])
    PROVE  NoMore(m, Under(m, req, bag (-) SetToBag({x}), l2, q), Under(m, req, bag, l, q))
  <1> DEFINE after == bag (-) SetToBag({x})
             f == [kind |-> x.kind, from |-> x.to]
  <1>1. SUFFICES ASSUME NEW r \in Routers(m)
                 PROVE  UnderWay(req, after, l2, q, r) <= UnderWay(req, bag, l, q, r)
    BY DEF NoMore, Under
  <1>2. BagOf(Requests(p, m), after) /\ x \in Requests(p, m) /\ OneMore(after, bag, x)
    BY CopiesTaken DEF Wired
  <1>3. Copies(bag, Lqi(r)) = Copies(after, Lqi(r)) + Wants(x, r)
    <2>1. Copies(bag, Lqi(r)) = Copies(after, Lqi(r)) + (IF Lqi(r) = x THEN 1 ELSE 0)
      BY <1>2 DEF OneMore
    <2> HIDE DEF after
    <2> QED
      BY <2>1 DEF Wants
  <1>4. Copies(after, Lqi(r)) \in Nat /\ Wants(x, r) \in Nat
    BY <1>2 DEF BagOf, Copies, Wants
  <1>5. Occurrences(l2, Answer(r)) <= Occurrences(l, Answer(r)) + Wants(x, r)
        /\ Occurrences(l2, Answer(r)) \in Nat
    <2>1. l \in Seq(Messages(p, m)) /\ f \in Messages(p, m)
      BY <1>2, RequestForms DEF Wired
    <2>2. f = Answer(r) => x = Lqi(r)
      <3>1. x.kind = "lqi" => x = Lqi(x.to)
        BY <1>2 DEF Requests, Lqi
      <3>2. Answer(r).kind = "lqi" /\ Answer(r).from = r /\ f.kind = x.kind /\ f.from = x.to
        BY Different
      <3> HIDE DEF f
      <3> QED
        BY <3>1, <3>2
    <2> HIDE DEF f
    <2>3. Occurrences(Append(l, f), Answer(r))
             = Occurrences(l, Answer(r)) + (IF f = Answer(r) THEN 1 ELSE 0)
      BY <2>1, OccurrencesAppend
    <2>4. Occurrences(l, Answer(r)) \in Nat
      BY UnderNat
    <2>5. Occurrences(Append(l, f), Answer(r)) <= Occurrences(l, Answer(r)) + Wants(x, r)
          /\ Occurrences(Append(l, f), Answer(r)) \in Nat
      BY <2>2, <2>3, <2>4 DEF Wants
    <2>6. CASE l2 = l
      BY <1>4, <2>4, <2>6
    <2>7. CASE l2 = Append(l, f)
      BY <2>5, <2>7
    <2> QED
      BY <2>6, <2>7 DEF f
  <1>6. Asks(req, r) \in Nat /\ Occurrences(l, Answer(r)) \in Nat /\ Occurrences(q, Answer(r)) \in Nat
    BY UnderNat
  <1> HIDE DEF after
  <1> QED
    BY <1>3, <1>4, <1>5, <1>6 DEF UnderWay

\* A message moves from the line into the queue, or the SRSP is taken off the one and put
\* into the other.
LEMMA UnderReceived ==
    ASSUME NEW p, NEW m, NEW req, NEW bag, NEW l, NEW q, Wired(p, m, req, bag, l, q),
           NEW l2, NEW q2,
           \/ l # <<>> /\ Head(l) = Srsp /\ l2 = Tail(l) /\ q2 = q
           \/ l2 = l /\ q2 = <<Srsp>> \o q
           \/ l # <<>> /\ l2 = Tail(l) /\ q2 = Append(q, Head(l))
    PROVE  NoMore(m, Under(m, req, bag, l2, q2), Under(m, req, bag, l, q))
  <1>1. SUFFICES ASSUME NEW r \in Routers(m)
                 PROVE  UnderWay(req, bag, l2, q2, r) <= UnderWay(req, bag, l, q, r)
    BY DEF NoMore, Under
  <1>2. /\ Asks(req, r) \in Nat /\ Copies(bag, Lqi(r)) \in Nat
        /\ Occurrences(l, Answer(r)) \in Nat /\ Occurrences(q, Answer(r)) \in Nat
    BY UnderNat
  <1>3. /\ l \in Seq(Messages(p, m)) /\ q \in Seq(Messages(p, m))
        /\ Srsp \in Messages(p, m) /\ Srsp # Answer(r)
    BY RequestForms, Different DEF Wired
  <1>4. SUFFICES Occurrences(l2, Answer(r)) + Occurrences(q2, Answer(r))
                    = Occurrences(l, Answer(r)) + Occurrences(q, Answer(r))
                 /\ Occurrences(l2, Answer(r)) \in Nat /\ Occurrences(q2, Answer(r)) \in Nat
    BY <1>2 DEF UnderWay
  <1>5. ASSUME l # <<>>
        PROVE  /\ Occurrences(l, Answer(r)) = Occurrences(Tail(l), Answer(r))
                                                 + (IF Head(l) = Answer(r) THEN 1 ELSE 0)
               /\ Occurrences(Tail(l), Answer(r)) \in Nat /\ Head(l) \in Messages(p, m)
    <2>1. Tail(l) \in Seq(Messages(p, m)) /\ Head(l) \in Messages(p, m)
      BY <1>3, <1>5
    <2> QED
      BY <1>3, <1>5, <2>1, OccurrencesTail, OccurrencesNat
  <1>6. CASE l # <<>> /\ Head(l) = Srsp /\ l2 = Tail(l) /\ q2 = q
    BY <1>2, <1>3, <1>5, <1>6
  <1>7. CASE l2 = l /\ q2 = <<Srsp>> \o q
    <2>1. Occurrences(<<Srsp>> \o q, Answer(r)) = Occurrences(q, Answer(r)) + 0
      BY <1>3, OccurrencesCons
    <2> QED
      BY <1>2, <1>7, <2>1
  <1>8. CASE l # <<>> /\ l2 = Tail(l) /\ q2 = Append(q, Head(l))
    <2>1. Occurrences(Append(q, Head(l)), Answer(r))
             = Occurrences(q, Answer(r)) + (IF Head(l) = Answer(r) THEN 1 ELSE 0)
      BY <1>3, <1>5, <1>8, OccurrencesAppend
    <2>2. /\ Occurrences(l2, Answer(r)) = Occurrences(Tail(l), Answer(r))
          /\ Occurrences(q2, Answer(r)) = Occurrences(Append(q, Head(l)), Answer(r))
      BY <1>8
    <2>3. /\ Occurrences(l, Answer(r)) = Occurrences(Tail(l), Answer(r))
                                             + (IF Head(l) = Answer(r) THEN 1 ELSE 0)
          /\ Occurrences(Tail(l), Answer(r)) \in Nat
      BY <1>5, <1>8
    <2>4. Occurrences(q, Answer(r)) \in Nat
      BY <1>2
    <2> DEFINE e == IF Head(l) = Answer(r) THEN 1 ELSE 0
    <2>5. e \in Nat
      OBVIOUS
    <2>6. Occurrences(q2, Answer(r)) = Occurrences(q, Answer(r)) + e
          /\ Occurrences(l, Answer(r)) = Occurrences(l2, Answer(r)) + e
          /\ Occurrences(l2, Answer(r)) \in Nat
      BY <2>1, <2>2, <2>3
    <2> HIDE DEF e
    <2> QED
      BY <2>4, <2>5, <2>6
  <1> QED
    BY <1>6, <1>7, <1>8

\* What there was about router x is one more than before, and about the others the same.
Increases(m, after, before, x) ==
    \A r \in Routers(m) : after[r] = before[r] + (IF r = x THEN 1 ELSE 0)

\* A message is fetched.
LEMMA UnderFetched ==
    ASSUME NEW p, NEW m, NEW req, NEW bag, NEW l, NEW q, Wired(p, m, req, bag, l, q), q # <<>>
    PROVE  /\ NoMore(m, Under(m, req, bag, l, Tail(q)), Under(m, req, bag, l, q))
           /\ \A f : Head(q) = Answer(f) =>
                Increases(m, Under(m, req, bag, l, q), Under(m, req, bag, l, Tail(q)), f)
           /\ Tail(q) \in Seq(Messages(p, m)) /\ Head(q) \in Messages(p, m)
  <1>1. q \in Seq(Messages(p, m)) /\ Tail(q) \in Seq(Messages(p, m)) /\ Head(q) \in Messages(p, m)
    BY DEF Wired
  <1>2. ASSUME NEW r \in Routers(m)
        PROVE  /\ UnderWay(req, bag, l, q, r) = UnderWay(req, bag, l, Tail(q), r)
                                                  + (IF Head(q) = Answer(r) THEN 1 ELSE 0)
               /\ UnderWay(req, bag, l, Tail(q), r) \in Nat
    <2>1. /\ Asks(req, r) \in Nat /\ Copies(bag, Lqi(r)) \in Nat
          /\ Occurrences(l, Answer(r)) \in Nat
      BY UnderNat
    <2>2. /\ Occurrences(q, Answer(r)) = Occurrences(Tail(q), Answer(r))
                                                 + (IF Head(q) = Answer(r) THEN 1 ELSE 0)
          /\ Occurrences(Tail(q), Answer(r)) \in Nat
      BY <1>1, OccurrencesTail, OccurrencesNat
    <2> QED
      BY <2>1, <2>2 DEF UnderWay
  <1>3. NoMore(m, Under(m, req, bag, l, Tail(q)), Under(m, req, bag, l, q))
    BY <1>2 DEF NoMore, Under
  <1>4. ASSUME NEW f, Head(q) = Answer(f)
        PROVE  Increases(m, Under(m, req, bag, l, q), Under(m, req, bag, l, Tail(q)), f)
    <2>1. \A r : Head(q) = Answer(r) <=> r = f
      BY <1>4, Different
    <2> QED
      BY <1>2, <2>1 DEF Increases, Under
  <1> QED
    BY <1>1, <1>3, <1>4

\* A thread is about to ask x.
LEMMA UnderAsked ==
    ASSUME NEW p, NEW m, NEW req, NEW bag, NEW l, NEW q, Wired(p, m, req, bag, l, q),
           NEW t \in Thread, req[t] = NoRequest, NEW x
    PROVE  Increases(m, Under(m, [req EXCEPT ![t] = Lqi(x)], bag, l, q),
                     Under(m, req, bag, l, q), x)
  <1> DEFINE new == [req EXCEPT ![t] = Lqi(x)]
  <1>1. SUFFICES ASSUME NEW r \in Routers(m)
                 PROVE  UnderWay(new, bag, l, q, r)
                           = UnderWay(req, bag, l, q, r) + (IF r = x THEN 1 ELSE 0)
    BY DEF Increases, Under
  <1>2. Asks(new, r) + 0 = Asks(req, r) + (IF r = x THEN 1 ELSE 0)
    <2>1. DOMAIN req = Thread /\ Requested(new, req, t, Lqi(x))
      BY DEF Wired, Requested
    <2> HIDE DEF new
    <2>2. Asks(new, r) + Wants(req[t], r) = Asks(req, r) + Wants(Lqi(x), r)
      BY <2>1, AsksChange
    <2>3. Wants(req[t], r) = 0
      BY DEF Wants, NoRequest, Lqi
    <2>4. Wants(Lqi(x), r) = IF r = x THEN 1 ELSE 0
      BY Different DEF Wants
    <2> QED
      BY <2>2, <2>3, <2>4
  <1>3. Asks(new, r) \in Nat
    BY DEF Asks, Wants
  <1>4. /\ Asks(req, r) \in Nat /\ Copies(bag, Lqi(r)) \in Nat
        /\ Occurrences(l, Answer(r)) \in Nat /\ Occurrences(q, Answer(r)) \in Nat
    BY UnderNat
  <1> HIDE DEF new
  <1> QED
    BY <1>2, <1>3, <1>4 DEF UnderWay

-----------------------------------------------------------------------------
(* Which callbacks have not asked yet.                                     *)

\* Their number is natural.
LEMMA WaitingNat ==
    ASSUME NEW m, NEW stack \in Seq(CallsOf(m)), NEW n, NEW k
    PROVE  Waiting(m, stack, n, k) \in Nat
  BY MembersNat DEF Waiting

\* A callback that goes on may pass the neighbour it is at.
LEMMA WaitingGoesOn ==
    ASSUME NEW m, NEW stack \in Seq(CallsOf(m)), stack # <<>>, NEW c \in CallsOf(m),
           c.node = stack[1].node, c.next >= stack[1].next, NEW n, NEW k \in Nat
    PROVE  /\ Waiting(m, [stack EXCEPT ![1] = c], n, k) <= Waiting(m, stack, n, k)
           /\ c.next = stack[1].next + 1 /\ n = c.node /\ k = stack[1].next
                 => Waiting(m, [stack EXCEPT ![1] = c], n, k) + 1 = Waiting(m, stack, n, k)
  <1> DEFINE E == Before(m, n, k)
             new == [stack EXCEPT ![1] = c]
  <1>a. stack[1] \in CallsOf(m)
    BY Popped
  <1>1. stack[1] \in CallsOf(m) /\ c.next \in Nat /\ stack[1].next \in Nat
    BY <1>a DEF CallsOf
  <1>2. c \in E => stack[1] \in E
    BY <1>1 DEF Before
  <1>3. c.next = stack[1].next + 1 /\ n = c.node /\ k = stack[1].next
           => stack[1] \in E /\ c \notin E
    BY <1>1 DEF Before
  <1>4. Members(new, E) + (IF stack[1] \in E THEN 1 ELSE 0)
           = Members(stack, E) + (IF c \in E THEN 1 ELSE 0)
    BY MembersReplaced
  <1>5. new \in Seq(CallsOf(m))
    BY Replaced
  <1>6. Members(new, E) \in Nat /\ Members(stack, E) \in Nat
    BY <1>5, MembersNat
  <1> HIDE DEF new, E
  <1>7. Members(new, E) <= Members(stack, E)
    BY <1>2, <1>4, <1>6
  <1>8. stack[1] \in E /\ c \notin E => Members(new, E) + 1 = Members(stack, E)
    BY <1>4, <1>6
  <1> QED
    BY <1>3, <1>7, <1>8 DEF Waiting, new, E

\* A callback that begins has passed none.
LEMMA WaitingPush ==
    ASSUME NEW m, NEW stack \in Seq(CallsOf(m)), NEW c \in CallsOf(m), c.next = 0,
           NEW n, NEW k \in Nat
    PROVE  Waiting(m, <<c>> \o stack, n, k)
              = Waiting(m, stack, n, k) + (IF n = c.node THEN 1 ELSE 0)
  <1>1. c \in Before(m, n, k) <=> n = c.node
    BY DEF Before
  <1>2. Members(<<c>> \o stack, Before(m, n, k))
           = Members(stack, Before(m, n, k)) + (IF c \in Before(m, n, k) THEN 1 ELSE 0)
    BY MembersCons
  <1> QED
    BY <1>1, <1>2 DEF Waiting

\* A callback that returns waits no longer.
LEMMA WaitingPop ==
    ASSUME NEW m, NEW stack \in Seq(CallsOf(m)), stack # <<>>, NEW n, NEW k
    PROVE  Waiting(m, Tail(stack), n, k) <= Waiting(m, stack, n, k)
  <1>1. Members(stack, Before(m, n, k))
           = Members(Tail(stack), Before(m, n, k)) + (IF Head(stack) \in Before(m, n, k) THEN 1 ELSE 0)
    BY MembersTail
  <1>2. Members(Tail(stack), Before(m, n, k)) \in Nat
    BY Popped, MembersNat
  <1> QED
    BY <1>1, <1>2 DEF Waiting

-----------------------------------------------------------------------------
(* Every request for a router is paid for by a response of the router that *)
(* lists it.                                                               *)

\* No more callbacks wait than did.
Fewer(m, after, before) ==
    \A n : \A k \in Nat : Open(m, after, n, k) <= Open(m, before, n, k)

Restacked(after, before, t, stack) == after = [before EXCEPT ![t] = stack]

\* Numbers of callbacks are natural.
LEMMA OpenNat ==
    ASSUME NEW m, NEW c, Stacks(m, c)
    PROVE  /\ Opened(c) \in Nat /\ \A n, k : Open(m, c, n, k) \in Nat
           /\ Len(c["app"]) \in Nat /\ Len(c["msg"]) \in Nat
           /\ \A n, k : Waiting(m, c["app"], n, k) \in Nat /\ Waiting(m, c["msg"], n, k) \in Nat
  <1>1. c["app"] \in Seq(CallsOf(m)) /\ c["msg"] \in Seq(CallsOf(m))
    BY DEF Stacks, Thread
  <1>2. \A n, k : Waiting(m, c["app"], n, k) \in Nat /\ Waiting(m, c["msg"], n, k) \in Nat
    BY <1>1, WaitingNat
  <1>3. Len(c["app"]) \in Nat /\ Len(c["msg"]) \in Nat
    BY <1>1
  <1>4. ASSUME NEW n, NEW k PROVE Open(m, c, n, k) \in Nat
    <2>1. Waiting(m, c["app"], n, k) \in Nat /\ Waiting(m, c["msg"], n, k) \in Nat
      BY <1>2
    <2> QED
      BY <2>1 DEF Open
  <1>5. Opened(c) \in Nat
    <2> DEFINE a == Len(c["app"])
               b == Len(c["msg"])
    <2>1. a \in Nat /\ b \in Nat
      BY <1>3
    <2>2. Opened(c) = a + b
      BY Zenon DEF Opened
    <2> HIDE DEF a, b
    <2> QED
      BY <2>1, <2>2
  <1> QED
    BY <1>2, <1>3, <1>4, <1>5

\* The stack of one thread changes.
LEMMA OpenChange ==
    ASSUME NEW m, NEW before, Stacks(m, before), NEW t \in Thread, NEW stack \in Seq(CallsOf(m)),
           NEW after, Restacked(after, before, t, stack)
    PROVE  /\ Stacks(m, after)
           /\ Opened(after) + Len(before[t]) = Opened(before) + Len(stack)
           /\ \A n, k : Open(m, after, n, k) + Waiting(m, before[t], n, k)
                           = Open(m, before, n, k) + Waiting(m, stack, n, k)
           /\ after[t] = stack /\ \A u \in Thread : u # t => after[u] = before[u]
  <1>1. Stacks(m, after) /\ after[t] = stack /\ \A u \in Thread : u # t => after[u] = before[u]
    BY DEF Stacks, Restacked
  <1>2. /\ Len(before["app"]) \in Nat /\ Len(before["msg"]) \in Nat /\ Len(stack) \in Nat
        /\ \A n, k : /\ Waiting(m, before["app"], n, k) \in Nat
                     /\ Waiting(m, before["msg"], n, k) \in Nat
                     /\ Waiting(m, stack, n, k) \in Nat
    BY OpenNat, WaitingNat
  <1>3. \/ t = "app" /\ after["app"] = stack /\ after["msg"] = before["msg"]
        \/ t = "msg" /\ after["msg"] = stack /\ after["app"] = before["app"]
    BY <1>1 DEF Thread
  <1>4. Opened(after) + Len(before[t]) = Opened(before) + Len(stack)
    <2> DEFINE a == Len(before["app"])
               b == Len(before["msg"])
               e == Len(stack)
    <2>1. a \in Nat /\ b \in Nat /\ e \in Nat
      BY <1>2
    <2>2. Opened(before) = a + b
      BY Zenon DEF Opened
    <2>3. t = "app" => Opened(after) = e + b /\ Len(before[t]) = a
      BY <1>3, Zenon DEF Opened
    <2>4. t = "msg" => Opened(after) = a + e /\ Len(before[t]) = b
      BY <1>3, Zenon DEF Opened
    <2> HIDE DEF a, b
    <2> QED
      BY <1>3, <2>1, <2>2, <2>3, <2>4
  <1>5. ASSUME NEW n, NEW k
        PROVE  Open(m, after, n, k) + Waiting(m, before[t], n, k)
                  = Open(m, before, n, k) + Waiting(m, stack, n, k)
    <2>1. /\ Waiting(m, before["app"], n, k) \in Nat /\ Waiting(m, before["msg"], n, k) \in Nat
          /\ Waiting(m, stack, n, k) \in Nat
      BY <1>2
    <2> QED
      BY <1>3, <2>1 DEF Open
  <1> QED
    BY <1>1, <1>4, <1>5

\* Neighbours have numbers.
LEMMA PageIndex == \A m \in Meshes : \A n \in Routers(m) : DOMAIN Page(m, n) \subseteq Nat
  <1> SUFFICES ASSUME NEW m \in Meshes, NEW n \in Routers(m) PROVE DOMAIN Page(m, n) \subseteq Nat
    OBVIOUS
  <1>1. Page(m, n) \in Seq(Neighbours(m, n))
    BY PageIsSequence
  <1> QED
    BY <1>1

\* Nothing more is asked.
LEMMA FundedLess ==
    ASSUME NEW p, NEW m \in Meshes, NEW R, NEW past \in Seq(R), NEW u \in [Routers(m) -> Nat],
           NEW u2 \in [Routers(m) -> Nat], NEW c, Stacks(m, c), NEW c2, Stacks(m, c2),
           Funded(p, m, past, u, c), NoMore(m, u2, u), Fewer(m, c2, c)
    PROVE  Funded(p, m, past, u2, c2)
  <1> SUFFICES ASSUME NEW r \in Routers(m), NEW n \in Routers(m), NEW k \in DOMAIN Page(m, n),
                      Names(p, Page(m, n)[k], r), k \in Nat
               PROVE  u2[r] + Occurrences(past, r) + Open(m, c2, n, k) <= Occurrences(past, n)
    BY PageIndex DEF Funded
  <1>1. u[r] + Occurrences(past, r) + Open(m, c, n, k) <= Occurrences(past, n)
    BY DEF Funded
  <1>2. u2[r] <= u[r] /\ Open(m, c2, n, k) <= Open(m, c, n, k)
    BY DEF NoMore, Fewer
  <1>3. /\ Occurrences(past, r) \in Nat /\ Occurrences(past, n) \in Nat /\ u[r] \in Nat
        /\ u2[r] \in Nat /\ Open(m, c, n, k) \in Nat /\ Open(m, c2, n, k) \in Nat
    BY OccurrencesNat, OpenNat
  <1> QED
    BY <1>1, <1>2, <1>3, SMTT(60)

\* A callback asks a neighbour, which nobody else lists.
LEMMA FundedAsked ==
    ASSUME NEW p \in Programs, NEW m \in Meshes, Tree(p, m), NEW R, NEW past \in Seq(R),
           NEW u \in [Routers(m) -> Nat], NEW u2 \in [Routers(m) -> Nat],
           NEW c, Stacks(m, c), NEW c2, Stacks(m, c2), Funded(p, m, past, u, c),
           NEW x, NEW at \in Routers(m), NEW i \in DOMAIN Page(m, at),
           Names(p, Page(m, at)[i], x), Increases(m, u2, u, x), Fewer(m, c2, c),
           Open(m, c2, at, i) + 1 = Open(m, c, at, i)
    PROVE  Funded(p, m, past, u2, c2)
  <1> SUFFICES ASSUME NEW r \in Routers(m), NEW n \in Routers(m), NEW k \in DOMAIN Page(m, n),
                      Names(p, Page(m, n)[k], r), k \in Nat
               PROVE  u2[r] + Occurrences(past, r) + Open(m, c2, n, k) <= Occurrences(past, n)
    BY PageIndex DEF Funded
  <1>1. u[r] + Occurrences(past, r) + Open(m, c, n, k) <= Occurrences(past, n)
    BY DEF Funded
  <1>2. Open(m, c2, n, k) <= Open(m, c, n, k) /\ u2[r] = u[r] + (IF r = x THEN 1 ELSE 0)
    BY DEF Fewer, Increases
  <1>3. r = x => n = at /\ k = i
    BY DEF Tree
  <1>4. /\ Occurrences(past, r) \in Nat /\ Occurrences(past, n) \in Nat /\ u[r] \in Nat
        /\ Open(m, c, n, k) \in Nat /\ Open(m, c2, n, k) \in Nat
    BY OccurrencesNat, OpenNat
  <1>5. CASE r = x
    <2>1. Open(m, c2, n, k) + 1 = Open(m, c, n, k)
      BY <1>3, <1>5
    <2> QED
      BY <1>1, <1>2, <1>4, <1>5, <2>1
  <1>6. CASE r # x
    BY <1>1, <1>2, <1>4, <1>6, SMTT(60)
  <1> QED
    BY <1>5, <1>6

\* A response is handled.
LEMMA FundedHandled ==
    ASSUME NEW p, NEW m \in Meshes, NEW R, NEW past \in Seq(R), NEW f \in R,
           NEW u \in [Routers(m) -> Nat], NEW u2 \in [Routers(m) -> Nat],
           NEW c, Stacks(m, c), NEW c2, Stacks(m, c2), Funded(p, m, past, u, c),
           Increases(m, u, u2, f),
           \A n : \A k \in Nat :
               Open(m, c2, n, k) = Open(m, c, n, k) + (IF n = f THEN 1 ELSE 0)
    PROVE  Funded(p, m, Append(past, f), u2, c2)
  <1> DEFINE now == Append(past, f)
  <1> SUFFICES ASSUME NEW r \in Routers(m), NEW n \in Routers(m), NEW k \in DOMAIN Page(m, n),
                      Names(p, Page(m, n)[k], r), k \in Nat
               PROVE  u2[r] + Occurrences(now, r) + Open(m, c2, n, k) <= Occurrences(now, n)
    BY PageIndex DEF Funded
  <1>1. u[r] + Occurrences(past, r) + Open(m, c, n, k) <= Occurrences(past, n)
    BY DEF Funded
  <1>2. /\ Open(m, c2, n, k) = Open(m, c, n, k) + (IF n = f THEN 1 ELSE 0)
        /\ u[r] = u2[r] + (IF r = f THEN 1 ELSE 0)
    BY DEF Increases
  <1>3. /\ Occurrences(now, r) = Occurrences(past, r) + (IF f = r THEN 1 ELSE 0)
        /\ Occurrences(now, n) = Occurrences(past, n) + (IF f = n THEN 1 ELSE 0)
    BY OccurrencesAppend
  <1>4. /\ Occurrences(past, r) \in Nat /\ Occurrences(past, n) \in Nat /\ u2[r] \in Nat
        /\ Open(m, c, n, k) \in Nat
    BY OccurrencesNat, OpenNat
  <1> DEFINE one(x) == IF x = f THEN 1 ELSE 0
  <1>5. /\ Open(m, c2, n, k) = Open(m, c, n, k) + one(n) /\ u[r] = u2[r] + one(r)
        /\ Occurrences(now, r) = Occurrences(past, r) + one(r)
        /\ Occurrences(now, n) = Occurrences(past, n) + one(n)
        /\ one(r) \in Nat /\ one(n) \in Nat
    BY <1>2, <1>3
  <1> HIDE DEF now, one
  <1> QED
    BY <1>1, <1>4, <1>5, SMTT(60)

\* The coordinator, which nobody lists, is asked.
LEMMA FundedFirst ==
    ASSUME NEW p \in Programs, NEW m \in Meshes, Tree(p, m), NEW past,
           NEW u \in [Routers(m) -> Nat], NEW u2, NEW c, Increases(m, u2, u, Coordinator),
           Funded(p, m, past, u, c)
    PROVE  Funded(p, m, past, u2, c)
  <1> SUFFICES ASSUME NEW r \in Routers(m), NEW n \in Routers(m), NEW k \in DOMAIN Page(m, n),
                      Names(p, Page(m, n)[k], r)
               PROVE  u2[r] + Occurrences(past, r) + Open(m, c, n, k) <= Occurrences(past, n)
    BY DEF Funded
  <1>1. r # Coordinator
    BY DEF Follows, Tree
  <1>2. u2[r] = u[r] + 0 /\ u[r] \in Nat
    BY <1>1 DEF Increases
  <1> QED
    BY <1>2 DEF Funded

\* What was handled does not count any more when nothing of it is left.
LEMMA FundedAnew ==
    ASSUME NEW p \in Programs, NEW m \in Meshes, Tree(p, m), NEW u, NEW u2, NEW c,
           AtRest(m, u, c), Increases(m, u2, u, Coordinator)
    PROVE  Funded(p, m, <<>>, u2, c)
  <1> SUFFICES ASSUME NEW r \in Routers(m), NEW n \in Routers(m), NEW k \in DOMAIN Page(m, n),
                      Names(p, Page(m, n)[k], r)
               PROVE  u2[r] + Occurrences(<<>>, r) + Open(m, c, n, k) <= Occurrences(<<>>, n)
    BY DEF Funded
  <1>1. r # Coordinator
    BY DEF Follows, Tree
  <1>2. u2[r] = 0
    BY <1>1 DEF Increases, AtRest
  <1>3. Open(m, c, n, k) = 0
    BY NoMembers DEF AtRest, Open, Waiting
  <1>4. \A x : Occurrences(<<>>, x) = 0
    BY NoMembers
  <1> QED
    BY <1>2, <1>3, <1>4

-----------------------------------------------------------------------------
(* Room for what was handled since nothing was under way.                  *)

\* The types of what the lemmas are about.
LEMMA AroundTypes ==
    Around => /\ Wired(program, mesh, request, asked, line, queue)
              /\ UnderNow \in [Routers(mesh) -> Nat]
              /\ Stacks(mesh, calls) /\ Coordinator \in Routers(mesh)
              /\ program \in Programs /\ mesh \in Meshes
              /\ nodeCount \in Nat /\ slow \in Nat
              /\ pc \in [Thread -> Places \cup MsgPlaces] /\ DOMAIN request = Thread
              /\ \A t \in Thread : pc[t] = "send" <=> request[t] # NoRequest
              /\ \A t \in Thread : request[t] \in Requests(program, mesh) \cup {NoRequest}
  <1> SUFFICES ASSUME Around
               PROVE  /\ Wired(program, mesh, request, asked, line, queue)
                      /\ UnderNow \in [Routers(mesh) -> Nat]
                      /\ Stacks(mesh, calls) /\ Coordinator \in Routers(mesh)
                      /\ program \in Programs /\ mesh \in Meshes
                      /\ nodeCount \in Nat /\ slow \in Nat
                      /\ pc \in [Thread -> Places \cup MsgPlaces] /\ DOMAIN request = Thread
                      /\ \A t \in Thread : pc[t] = "send" <=> request[t] # NoRequest
                      /\ \A t \in Thread : request[t] \in Requests(program, mesh) \cup {NoRequest}
    OBVIOUS
  <1>1. Wired(program, mesh, request, asked, line, queue)
    BY DEF Around, WireInv, Wired
  <1>2. \A r \in Routers(mesh) : UnderWay(request, asked, line, queue, r) \in Nat
    BY <1>1, UnderNat
  <1>3. UnderNow \in [Routers(mesh) -> Nat]
    BY <1>2 DEF UnderNow, Under
  <1>4. Stacks(mesh, calls)
    <2>1. calls \in [Thread -> Seq(Call)] /\ Call = CallsOf(mesh)
      BY DEF Around, ThreadsInv, Call, CallsOf
    <2> QED
      BY <2>1 DEF Stacks
  <1>5. program \in Programs /\ mesh \in Meshes
    BY DEF Around, Chosen
  <1>6. Coordinator \in Routers(mesh)
    BY <1>5, RoutersKnown
  <1>7. nodeCount \in Nat /\ pc \in [Thread -> Places \cup MsgPlaces]
    BY DEF Around, ThreadsInv
  <1>8. slow \in Nat
    <2>1. slow \in 0..MaxSlow(program, mesh)
      BY DEF Around, BoundInv
    <2>2. MaxSlow(program, mesh) \in Nat
      BY <1>5, BoundsNatural
    <2> QED
      BY <2>1, <2>2
  <1>9. /\ DOMAIN request = Thread
        /\ \A t \in Thread : pc[t] = "send" <=> request[t] # NoRequest
        /\ \A t \in Thread : request[t] \in Requests(program, mesh) \cup {NoRequest}
    BY DEF Around, WireInv
  <1> QED
    BY <1>1, <1>3, <1>4, <1>5, <1>6, <1>7, <1>8, <1>9

\* Routers found do not change.
LEMMA SameFound == program' = program /\ mesh' = mesh => Found' = Found
  BY DEF Found

\* A step after which no more is under way, and no more callbacks wait, leaves room.
LEMMA RoomLess ==
    ASSUME Around, Around', program' = program, mesh' = mesh, NEW past, Room(past),
           NoMore(mesh, UnderNow', UnderNow), Fewer(mesh, calls', calls),
           AtRest(mesh, UnderNow, calls) => calls' = calls, slow' >= slow,
           Calm' => Calm \/ AtRest(mesh, UnderNow', calls') \/ slow' > slow,
           Account(past)'
    PROVE  RoomInv'
  <1>1. /\ UnderNow \in [Routers(mesh) -> Nat] /\ Stacks(mesh, calls) /\ mesh \in Meshes
        /\ Coordinator \in Routers(mesh) /\ slow \in Nat
    BY AroundTypes
  <1>2. (UnderNow \in [Routers(mesh) -> Nat])' /\ Stacks(mesh, calls)' /\ (slow \in Nat)'
    BY AroundTypes, PTL
  <1>3. UnderNow' \in [Routers(mesh) -> Nat] /\ Stacks(mesh, calls') /\ slow' \in Nat
    BY <1>2 DEF Stacks
  <1>4. /\ past \in Seq(Found) /\ Funded(program, mesh, past, UnderNow, calls)
        /\ AskedAgain(mesh, UnderNow, past, 1 + slow)
        /\ Calm => AtRest(mesh, UnderNow, calls) \/ AskedAgain(mesh, UnderNow, past, slow)
    BY DEF Room
  <1>5. Funded(program, mesh, past, UnderNow', calls')
    BY <1>1, <1>3, <1>4, FundedLess
  <1>6. Occurrences(past, Coordinator) \in Nat /\ UnderNow'[Coordinator] <= UnderNow[Coordinator]
        /\ UnderNow'[Coordinator] \in Nat /\ UnderNow[Coordinator] \in Nat
    BY <1>1, <1>3, <1>4, OccurrencesNat DEF NoMore
  <1>7. ASSUME NEW late \in Nat, NEW later \in Nat, later >= late,
               AskedAgain(mesh, UnderNow, past, late)
        PROVE  AskedAgain(mesh, UnderNow', past, later)
    BY <1>6, <1>7 DEF AskedAgain
  <1>8. AtRest(mesh, UnderNow, calls) => AtRest(mesh, UnderNow', calls')
    BY <1>1, <1>3 DEF AtRest, NoMore
  <1>9. 1 + slow \in Nat /\ 1 + slow' \in Nat /\ 1 + slow' >= 1 + slow
        /\ (slow' > slow => slow' >= 1 + slow)
    <2>1. slow \in Nat /\ slow' \in Nat /\ slow' >= slow
      BY <1>1, <1>3
    <2>2. \A a, b \in Nat : b >= a =>
             1 + a \in Nat /\ 1 + b \in Nat /\ 1 + b >= 1 + a /\ (b > a => b >= 1 + a)
      OBVIOUS
    <2> QED
      BY <2>1, <2>2, Zenon
  <1>10. AskedAgain(mesh, UnderNow', past, 1 + slow')
    BY <1>4, <1>7, <1>9
  <1>11. Calm' => AtRest(mesh, UnderNow', calls') \/ AskedAgain(mesh, UnderNow', past, slow')
    <2>1. CASE Calm
      BY <1>1, <1>3, <1>4, <1>7, <1>8, <2>1
    <2>2. CASE AtRest(mesh, UnderNow', calls')
      BY <2>2
    <2>3. CASE slow' > slow
      BY <1>3, <1>4, <1>7, <1>9, <2>3
    <2> QED
      BY <2>1, <2>2, <2>3
  <1>12. Room(past)'
    BY <1>4, <1>5, <1>10, <1>11, SameFound DEF Room, Funded, AskedAgain, AtRest
  <1> QED
    BY <1>12 DEF RoomInv

\* In a discovery a thread goes on in the loop or in a callback.
LEMMA AfterDiscover ==
    ASSUME phase = "discover", NEW t,
           NEW place \in {"fetch", "loop", "poll"}
    PROVE  After(t, place) \notin {"show", "get", "confirm", "confirmed"}
  BY DEF After

\* The other places belong to the other phases.
LEMMA PhaseKept == ThreadsInv /\ StackInv /\ PhaseInv /\ [Next]_vars => PhaseInv'
  <1> SUFFICES ASSUME ThreadsInv, StackInv, PhaseInv, [Next]_vars, phase' = "discover"
               PROVE  /\ pc'["app"] \notin {"show", "get", "confirm", "confirmed"}
                      /\ \A j \in DOMAIN calls'["app"] :
                            calls'["app"][j].back \notin {"get", "confirm", "confirmed"}
    BY DEF PhaseInv
  <1>a. pc \in [Thread -> Places \cup MsgPlaces] /\ calls \in [Thread -> Seq(Call)]
    BY DEF ThreadsInv
  <1>1. ASSUME phase = "discover", pc'["app"] = pc["app"], calls'["app"] = calls["app"]
        PROVE  /\ pc'["app"] \notin {"show", "get", "confirm", "confirmed"}
               /\ \A j \in DOMAIN calls'["app"] :
                     calls'["app"][j].back \notin {"get", "confirm", "confirmed"}
    BY <1>1 DEF PhaseInv
  <1>2. CASE WireStep \/ UNCHANGED vars
    BY <1>1, <1>2 DEF WireStep, RxStep, RxPost, RxLinkSrsp, RxLinkAreq, OnlyRx, NodeAnswers,
                      NodeSilent, OnlyNetwork, vars, threadVars, appVars
  <1>3. CASE OuterStep
    <2>1. CASE Discover
      <3>1. calls["app"] = <<>>
        BY <2>1 DEF Discover, StackInv, StackFits, Thread
      <3>2. pc'["app"] = "send" /\ calls' = calls
        BY <1>a, <2>1 DEF Discover, Ask, Goes, Thread
      <3> QED
        BY <3>1, <3>2
    <2>2. CASE ~Discover
      <3>1. phase = "discover" /\ calls' = calls
        BY <1>3, <2>2 DEF OuterStep, Change, SendData, LoopEnd, ShowNext, ShowEnds, DataSent,
                          MsgWait, appVars
      <3>2. pc["app"] # "show"
        BY <3>1 DEF PhaseInv
      <3>3. pc' = pc \/ (\E place \in {"display", "send", "console"} : pc' = [pc EXCEPT !["app"] = place])
               \/ pc' = [pc EXCEPT !["msg"] = "poll"]
        BY <1>3, <2>2, <3>2 DEF OuterStep, Change, SendData, LoopEnd, ShowNext, ShowEnds,
                                DataSent, MsgWait, Ask, Goes
      <3>4. pc'["app"] = pc["app"] \/ pc'["app"] \in {"display", "send", "console"}
        BY <1>a, <3>3 DEF Thread
      <3> QED
        BY <3>1, <3>4 DEF PhaseInv
    <2> QED
      BY <2>1, <2>2
  <1>4. ASSUME NEW t \in Thread, Step(t)
        PROVE  /\ pc'["app"] \notin {"show", "get", "confirm", "confirmed"}
               /\ \A j \in DOMAIN calls'["app"] :
                     calls'["app"][j].back \notin {"get", "confirm", "confirmed"}
    <2>1. phase = "discover"
      BY <1>4 DEF Step, Send, SrspGranted, SrspTimeout, Fetch, FetchTimeout, BeginEntry, PassOver,
                  ListChild, CountRead, CallbackReturns, appVars
    <2>2. CASE t = "msg"
      <3>1. pc'["app"] = pc["app"] /\ calls'["app"] = calls["app"]
        <4>1. ASSUME NEW place, NEW stack, Moves(t, place, stack)
              PROVE  pc'["app"] = pc["app"] /\ calls'["app"] = calls["app"]
          BY <1>a, <2>2, <4>1 DEF Moves, Thread
        <4> QED
          BY <1>4, <4>1, StepMoves DEF MovesTo, TopGoesOn, TopBegins
      <3> QED
        BY <1>1, <2>1, <3>1
    <2>3. CASE t = "app"
      <3> DEFINE s == calls["app"]
                 Fine(place, stack) ==
                    /\ place \notin {"show", "get", "confirm", "confirmed"}
                    /\ \A j \in DOMAIN stack : stack[j].back \notin {"get", "confirm", "confirmed"}
      <3>1. s \in Seq(Call) /\ Fine(pc["app"], s)
        BY <1>a, <2>1 DEF PhaseInv, Thread
      <3>2. ASSUME NEW place, NEW stack, Moves(t, place, stack), Fine(place, stack)
            PROVE  Fine(pc'["app"], calls'["app"])
        <4>1. pc'["app"] = place /\ calls'["app"] = stack
          BY <1>a, <2>3, <3>2 DEF Moves, Thread
        <4> QED
          BY <3>2, <4>1
      <3>3. ASSUME NEW place, MovesTo(t, place), place \notin {"show", "get", "confirm", "confirmed"}
            PROVE  Fine(pc'["app"], calls'["app"])
        BY <2>3, <3>1, <3>2, <3>3 DEF MovesTo
      <3>4. ASSUME NEW place \in {"send", "callback", "count"}, NEW c \in Call, TopGoesOn(t, place, c)
            PROVE  Fine(pc'["app"], calls'["app"])
        <4>1. c.back = s[1].back /\ s # <<>> /\ Moves(t, place, [s EXCEPT ![1] = c])
          BY <2>3, <3>4 DEF TopGoesOn
        <4> DEFINE new == [s EXCEPT ![1] = c]
        <4>2. DOMAIN new = DOMAIN s /\ new[1] = c /\ 1 \in DOMAIN s
              /\ \A j \in DOMAIN s : j # 1 => new[j] = s[j]
          BY <3>1, <4>1, Replaced, Popped
        <4> HIDE DEF new
        <4>3. Fine(place, new)
          BY <3>1, <4>1, <4>2
        <4> HIDE DEF Fine
        <4> QED
          BY <3>2, <4>1, <4>3 DEF new
      <3>5. ASSUME NEW n, NEW c \in Call, TopBegins(t, n, c), Fetch(t)
            PROVE  Fine(pc'["app"], calls'["app"])
        <4>1. c.back \notin {"get", "confirm", "confirmed"}
          <5>1. pc["app"] \in {"fetch", "loop", "poll"}
            BY <2>3, <3>1, <3>5 DEF Fetch
          <5>2. After(t, pc["app"]) \notin {"show", "get", "confirm", "confirmed"}
            BY <2>1, <5>1, AfterDiscover
          <5> QED
            BY <2>3, <3>5, <5>2 DEF TopBegins
        <4> DEFINE new == <<c>> \o s
        <4>2. new[1] = c /\ \A j \in DOMAIN new : j = 1 \/ (j - 1 \in DOMAIN s /\ new[j] = s[j - 1])
          BY <3>1
        <4> HIDE DEF new
        <4>3. Fine("callback", new)
          BY <3>1, <4>1, <4>2
        <4>4. Moves(t, "callback", new)
          BY <2>3, <3>5 DEF TopBegins, new
        <4> HIDE DEF Fine
        <4> QED
          BY <3>2, <4>3, <4>4
      <3>6. ASSUME s # <<>>, Moves(t, s[1].back, Tail(s))
            PROVE  Fine(pc'["app"], calls'["app"])
        <4>1. /\ 1 \in DOMAIN s /\ s[1] \in Call
              /\ \A j \in DOMAIN Tail(s) : Tail(s)[j] = s[j + 1] /\ j + 1 \in DOMAIN s
          BY <3>1, <3>6, Popped
        <4>2. s[1].back \notin {"show", "get", "confirm", "confirmed"}
          BY <3>1, <4>1 DEF Call, Returns
        <4> DEFINE rest == Tail(s)
        <4>3. \A j \in DOMAIN rest : rest[j].back \notin {"get", "confirm", "confirmed"}
          BY <3>1, <4>1
        <4> HIDE DEF rest
        <4>4. Fine(s[1].back, rest)
          BY <4>2, <4>3
        <4> HIDE DEF Fine
        <4> QED
          BY <3>2, <3>6, <4>4 DEF rest
      <3>7. After(t, "fetch") \notin {"show", "get", "confirm", "confirmed"}
        BY <2>1, AfterDiscover
      <3>8. FetchTimeout(t) \/ Fetch(t) => After(t, pc[t]) \notin {"show", "get", "confirm", "confirmed"}
        <4>1. FetchTimeout(t) \/ Fetch(t) => pc[t] \in {"fetch", "loop", "poll"}
          BY <2>3, <3>1 DEF FetchTimeout, Fetch
        <4> QED
          BY <2>1, <4>1, AfterDiscover
      <3> SUFFICES Fine(pc'["app"], calls'["app"])
        OBVIOUS
      <3> HIDE DEF Fine
      <3>9. ASSUME NEW place, MovesTo(t, place),
                   \/ place \in {"wait", "fetch", After(t, "fetch")}
                   \/ (FetchTimeout(t) \/ Fetch(t)) /\ place = After(t, pc[t])
            PROVE  Fine(pc'["app"], calls'["app"])
        BY <3>3, <3>7, <3>8, <3>9
      <3>10. calls[t] # <<>> /\ Moves(t, calls[t][1].back, Tail(calls[t]))
                => Fine(pc'["app"], calls'["app"])
        BY <2>3, <3>6
      <3>11. ASSUME NEW c \in Call, Fetch(t), TopBegins(t, Head(queue).from, c)
             PROVE  Fine(pc'["app"], calls'["app"])
        BY <3>5, <3>11
      <3> QED
        BY <1>4, <3>4, <3>9, <3>10, <3>11, StepMoves
    <2> QED
      BY <2>2, <2>3 DEF Thread
  <1> QED
    BY <1>2, <1>3, <1>4, StepKinds

\* The account stays if nothing is counted and no callback begins or returns.
LEMMA AccountSame ==
    ASSUME Around, NEW past, Room(past), program' = program, calls' = calls,
           nodeCount' = nodeCount \/ nodeCount' = 0, handled' = handled \/ handled' = <<>>,
           \A t \in Thread : pc'[t] = "count" => pc[t] = "count"
    PROVE  Account(past)'
  <1>1. Len(<<>>) = 0 /\ Len(past) \in Nat
    BY DEF Room
  <1>2. Nwk' => Len(handled') <= Len(past)
    BY <1>1 DEF Room, Account, Nwk
  <1>3. program = "dataSendRcv" => nodeCount' + Opened(calls) <= Len(past)
    <2>1. Opened(calls) \in Nat /\ nodeCount \in Nat
      BY AroundTypes, OpenNat
    <2>2. program = "dataSendRcv" => nodeCount + Opened(calls) <= Len(past)
      BY DEF Room, Account
    <2> QED
      BY <2>1, <2>2
  <1> QED
    BY <1>2, <1>3 DEF Room, Account

\* A step that leaves the callbacks and nodeCount alone leaves room.
LEMMA RoomAside ==
    ASSUME Around, Around', program' = program, mesh' = mesh, NEW past, Room(past),
           NoMore(mesh, UnderNow', UnderNow), calls' = calls, slow' = slow,
           nodeCount' = nodeCount \/ nodeCount' = 0, handled' = handled \/ handled' = <<>>,
           Calm' => Calm,
           \A t \in Thread : pc'[t] = "count" => pc[t] = "count"
    PROVE  RoomInv'
  <1>1. Account(past)'
    BY AccountSame
  <1>2. Fewer(mesh, calls', calls)
    <2>1. \A n, k : Open(mesh, calls, n, k) \in Nat
      BY AroundTypes, OpenNat
    <2> QED
      BY <2>1 DEF Fewer
  <1>3. slow' >= slow
    BY AroundTypes
  <1> QED
    BY <1>1, <1>2, <1>3, RoomLess

\* Nothing that is under way changes.
LEMMA NoMoreSame == Around => NoMore(mesh, UnderNow, UnderNow)
  <1> HAVE Around
  <1>1. UnderNow \in [Routers(mesh) -> Nat]
    BY AroundTypes
  <1> QED
    BY <1>1 DEF NoMore

\* The receive thread and the network leave room.
LEMMA RoomWire ==
    ASSUME Around, Around', program' = program, mesh' = mesh, NEW past, Room(past), WireStep
    PROVE  RoomInv'
  <1>1. UNCHANGED <<nodeCount, calls, phase, slow, handled, pc, request>>
    BY DEF WireStep, RxStep, RxPost, RxLinkSrsp, RxLinkAreq, OnlyRx, NodeAnswers, NodeSilent,
           OnlyNetwork, listVars, threadVars, appVars, boundVars, historyVars
  <1>a. Wired(program, mesh, request, asked, line, queue)
    BY AroundTypes
  <1>2. NoMore(mesh, UnderNow', UnderNow)
    <2>1. CASE RxStep
      <3>1. asked' = asked
        BY <2>1 DEF RxStep, RxPost, RxLinkSrsp, RxLinkAreq, OnlyRx
      <3>2. \/ line # <<>> /\ Head(line) = Srsp /\ line' = Tail(line) /\ queue' = queue
            \/ line' = line /\ queue' = <<Srsp>> \o queue
            \/ line # <<>> /\ line' = Tail(line) /\ queue' = Append(queue, Head(line))
        BY <2>1 DEF RxStep, RxPost, RxLinkSrsp, RxLinkAreq
      <3>3. NoMore(mesh, Under(mesh, request, asked, line', queue'),
                   Under(mesh, request, asked, line, queue))
        BY <1>a, <3>2, UnderReceived
      <3> QED
        BY <1>1, <3>1, <3>3 DEF UnderNow
    <2>2. CASE NodeAnswers \/ NodeSilent
      <3>1. queue' = queue
        BY <2>2 DEF NodeAnswers, NodeSilent, OnlyNetwork, rpcVars
      <3>2. PICK x \in BagToSet(asked) :
               /\ asked' = asked (-) SetToBag({x})
               /\ line' = line \/ line' = Append(line, [kind |-> x.kind, from |-> x.to])
        BY <2>2 DEF NodeAnswers, NodeSilent
      <3>3. NoMore(mesh, Under(mesh, request, asked (-) SetToBag({x}), line', queue),
                   Under(mesh, request, asked, line, queue))
        BY <1>a, <3>2, UnderAnswered
      <3> QED
        BY <1>1, <3>1, <3>2, <3>3 DEF UnderNow
    <2> QED
      BY <2>1, <2>2 DEF WireStep
  <1>3. Calm' => Calm
    BY <1>1 DEF Calm
  <1> QED
    BY <1>1, <1>2, <1>3, RoomAside

\* Requests that are not for neighbours count for no router.
LEMMA OtherWants ==
    /\ \A r : Wants(NoRequest, r) = 0
    /\ \A r, a : Wants([kind |-> "ep", to |-> a], r) = 0
    /\ \A r, a : Wants([kind |-> "data", to |-> a], r) = 0
  BY DEF Wants, NoRequest, Lqi

\* The application between discoveries leaves room.
LEMMA RoomOuter ==
    ASSUME Around, Around', program' = program, mesh' = mesh, NEW past, Room(past), OuterStep,
           ~Discover, ~LoopEnd
    PROVE  RoomInv'
  <1>a. /\ Wired(program, mesh, request, asked, line, queue) /\ nodeCount \in Nat
        /\ pc \in [Thread -> Places \cup MsgPlaces]
    BY AroundTypes
  <1>1. UNCHANGED <<asked, line, queue, calls, slow>>
    BY DEF OuterStep, Change, SendData, ShowNext, ShowEnds, DataSent, MsgWait, wireVars, rpcVars,
           boundVars
  <1>2. \/ request' = request
        \/ \E x : (\A r : Wants(x, r) = 0) /\ request' = [request EXCEPT !["app"] = x]
    <2>1. CASE SendData
      <3>1. request' = [request EXCEPT !["app"] = [kind |-> "data", to |-> Coordinator]]
        BY <2>1 DEF SendData, Ask
      <3> QED
        BY <3>1, OtherWants
    <2>2. CASE ShowNext
      <3>1. request' = request \/ \E a : AskEndpoints(a)
        BY <2>2 DEF ShowNext
      <3>2. ASSUME NEW a, AskEndpoints(a)
            PROVE  request' = [request EXCEPT !["app"] = [kind |-> "ep", to |-> a]]
        BY <3>2 DEF AskEndpoints, Ask
      <3> QED
        BY <3>1, <3>2, OtherWants
    <2>3. CASE ~SendData /\ ~ShowNext
      BY <2>3 DEF OuterStep, Change, ShowEnds, DataSent, MsgWait
    <2> QED
      BY <2>1, <2>2, <2>3
  <1>3. NoMore(mesh, UnderNow', UnderNow)
    <2>1. CASE request' = request
      BY <1>1, <2>1, NoMoreSame DEF UnderNow
    <2>2. ASSUME NEW x, \A r : Wants(x, r) = 0, request' = [request EXCEPT !["app"] = x]
          PROVE  NoMore(mesh, UnderNow', UnderNow)
      <3>1. NoMore(mesh, Under(mesh, [request EXCEPT !["app"] = x], asked, line, queue),
                   Under(mesh, request, asked, line, queue))
        BY <1>a, <2>2, UnderOther DEF Thread
      <3> QED
        BY <1>1, <2>2, <3>1 DEF UnderNow
    <2> QED
      BY <1>2, <2>1, <2>2
  <1>4. Calm' => Calm
    <2>1. CASE MsgWait
      <3>1. pc'["app"] = pc["app"] /\ phase' = phase
        BY <1>a, <2>1 DEF MsgWait, Goes, appVars, Thread
      <3> QED
        BY <3>1 DEF Calm
    <2>2. CASE ~MsgWait
      BY <2>2 DEF OuterStep, Change, SendData, ShowNext, ShowEnds, DataSent, Calm, Around, PhaseInv
    <2> QED
      BY <2>1, <2>2
  <1>5. \A t \in Thread : pc'[t] = "count" => pc[t] = "count"
    <2>1. pc' = pc \/ (\E place \in {"display", "send", "console"} : pc' = [pc EXCEPT !["app"] = place])
             \/ pc' = [pc EXCEPT !["msg"] = "poll"]
      BY DEF OuterStep, Change, SendData, ShowNext, ShowEnds, DataSent, MsgWait, Ask, AskEndpoints,
             Goes
    <2> QED
      BY <1>a, <2>1
  <1>6. /\ nodeCount' = nodeCount \/ nodeCount' = 0
        /\ handled' = handled \/ handled' = <<>>
    BY DEF OuterStep, Change, SendData, ShowNext, ShowEnds, DataSent, MsgWait, listVars, historyVars
  <1> QED
    BY <1>1, <1>3, <1>4, <1>5, <1>6, RoomAside

\* A message loop that ends leaves nothing under way, or uses up one of the early ends.
LEMMA RoomLoopEnd ==
    ASSUME Around, Around', program' = program, mesh' = mesh, NEW past, Room(past), LoopEnd
    PROVE  RoomInv'
  <1>a. /\ UnderNow \in [Routers(mesh) -> Nat] /\ slow \in Nat /\ Stacks(mesh, calls)
        /\ pc \in [Thread -> Places \cup MsgPlaces]
        /\ \A t \in Thread : pc[t] = "send" <=> request[t] # NoRequest
    BY AroundTypes
  <1>1. /\ pc["app"] = "loop" /\ queue = <<>>
        /\ Quiet \/ slow' > slow
        /\ UNCHANGED <<request, asked, line, queue, calls, nodeCount, handled>>
        /\ slow' = slow \/ slow' = slow + 1
    BY <1>a DEF LoopEnd, listVars, historyVars, wireVars, rpcVars
  <1>2. calls["app"] = <<>>
    BY <1>1 DEF Around, StackInv, StackFits, Thread
  <1>3. UnderNow' = UnderNow
    BY <1>1 DEF UnderNow
  <1>4. ASSUME Quiet PROVE AtRest(mesh, UnderNow, calls)
    <2>1. line = <<>> /\ asked = EmptyBag /\ calls["msg"] = <<>>
      BY <1>4 DEF Quiet
    <2>2. pc["msg"] # "send" /\ pc["app"] # "send"
      BY <1>1, <2>1 DEF Around, ThreadsInv
    <2>3. request["app"] = NoRequest /\ request["msg"] = NoRequest
      BY <1>a, <2>2 DEF Thread
    <2>4. ASSUME NEW r \in Routers(mesh) PROVE UnderNow[r] = 0
      <3>1. Asks(request, r) = 0
        BY <2>3, OtherWants DEF Asks
      <3>2. Copies(asked, Lqi(r)) = 0
        BY <2>1 DEF Copies, EmptyBag, SetToBag
      <3>3. Occurrences(line, Answer(r)) = 0 /\ Occurrences(queue, Answer(r)) = 0
        BY <1>1, <2>1, NoMembers
      <3>4. UnderNow[r] = UnderWay(request, asked, line, queue, r)
        BY DEF UnderNow, Under
      <3> QED
        BY <3>1, <3>2, <3>3, <3>4 DEF UnderWay
    <2> QED
      BY <1>2, <2>1, <2>4 DEF AtRest
  <1>5. NoMore(mesh, UnderNow', UnderNow)
    BY <1>3, NoMoreSame
  <1>6. Fewer(mesh, calls', calls)
    <2>1. \A n, k : Open(mesh, calls, n, k) \in Nat
      BY <1>a, OpenNat
    <2> QED
      BY <1>1, <2>1 DEF Fewer
  <1>7. \A t \in Thread : pc'[t] = "count" => pc[t] = "count"
    BY <1>a DEF LoopEnd, Goes
  <1>8. Account(past)'
    BY <1>1, <1>7, AccountSame
  <1>9. AtRest(mesh, UnderNow', calls') \/ slow' > slow
    BY <1>1, <1>3, <1>4
  <1>10. slow' >= slow
    BY <1>1, <1>a
  <1> QED
    BY <1>1, <1>5, <1>6, <1>8, <1>9, <1>10, RoomLess

\* A discovery that begins with nothing under way begins to count anew, and otherwise it
\* asks the coordinator once more than before.
LEMMA RoomDiscover ==
    ASSUME Around, Around', program' = program, mesh' = mesh, NEW past, Room(past),
           Tree(program, mesh), Discover
    PROVE  RoomInv'
  <1>a. /\ UnderNow \in [Routers(mesh) -> Nat] /\ slow \in Nat /\ Stacks(mesh, calls)
        /\ pc \in [Thread -> Places \cup MsgPlaces] /\ nodeCount \in Nat
        /\ \A t \in Thread : pc[t] = "send" <=> request[t] # NoRequest
        /\ Wired(program, mesh, request, asked, line, queue) /\ Coordinator \in Routers(mesh)
        /\ program \in Programs /\ mesh \in Meshes
    BY AroundTypes
  <1>1. /\ pc["app"] = "display" /\ nodeCount' = 0 /\ pc' = [pc EXCEPT !["app"] = "send"]
        /\ request' = [request EXCEPT !["app"] = Lqi(Coordinator)]
        /\ UNCHANGED <<asked, line, queue, calls, slow, handled>> /\ phase' = "discover"
    BY DEF Discover, Ask, Goes, Lqi, wireVars, rpcVars, boundVars, historyVars
  <1>2. Increases(mesh, UnderNow', UnderNow, Coordinator)
    <2>1. request["app"] = NoRequest
      BY <1>a, <1>1 DEF Thread
    <2>2. Increases(mesh, Under(mesh, [request EXCEPT !["app"] = Lqi(Coordinator)], asked, line, queue),
                    Under(mesh, request, asked, line, queue), Coordinator)
      BY <1>a, <2>1, UnderAsked DEF Thread
    <2> QED
      BY <1>1, <2>2 DEF UnderNow
  <1>3. UnderNow'[Coordinator] = UnderNow[Coordinator] + 1 /\ UnderNow[Coordinator] \in Nat
    BY <1>a, <1>2 DEF Increases
  <1>4. ~Calm' /\ Calm
    BY <1>a, <1>1 DEF Calm, Thread
  <1>5. CASE AtRest(mesh, UnderNow, calls)
    <2>1. Funded(program, mesh, <<>>, UnderNow', calls')
      BY <1>a, <1>1, <1>2, <1>5, FundedAnew
    <2>2. AskedAgain(mesh, UnderNow', <<>>, 1 + slow)
      <3>1. UnderNow[Coordinator] = 0
        BY <1>a, <1>5 DEF AtRest
      <3>2. Occurrences(<<>>, Coordinator) = 0
        BY NoMembers
      <3> QED
        BY <1>a, <1>3, <3>1, <3>2 DEF AskedAgain
    <2>3. Account(<<>>)'
      <3>1. Nwk => handled = <<>>
        BY <1>1 DEF Around, NwkInv, NwkEntries
      <3>2. calls["app"] = <<>> /\ calls["msg"] = <<>>
        BY <1>5 DEF AtRest
      <3>3. Opened(calls) = 0
        BY <3>2 DEF Opened
      <3>4. \A t \in Thread : pc'[t] # "count"
        BY <1>a, <1>1, <3>2 DEF Around, ThreadsInv, Thread
      <3>5. Len(<<>>) = 0
        OBVIOUS
      <3>6. Nwk' => Len(handled') <= Len(<<>>)
        BY <1>1, <3>1, <3>5 DEF Nwk
      <3>7. nodeCount' + Opened(calls') <= Len(<<>>)
        BY <1>1, <3>3, <3>5
      <3> QED
        BY <3>4, <3>6, <3>7 DEF Account
    <2>4. <<>> \in Seq(Found')
      OBVIOUS
    <2>5. Room(<<>>)'
      BY <1>1, <1>4, <2>1, <2>2, <2>3, <2>4 DEF Room, Funded, AskedAgain
    <2> QED
      BY <2>5 DEF RoomInv
  <1>6. CASE ~AtRest(mesh, UnderNow, calls)
    <2>1. /\ AskedAgain(mesh, UnderNow, past, slow) /\ past \in Seq(Found)
          /\ Funded(program, mesh, past, UnderNow, calls)
      BY <1>4, <1>6 DEF Room
    <2>2. Funded(program, mesh, past, UnderNow', calls')
      BY <1>a, <1>1, <1>2, <2>1, FundedFirst
    <2>3. AskedAgain(mesh, UnderNow', past, 1 + slow)
      <3>1. Occurrences(past, Coordinator) \in Nat
        BY <2>1, OccurrencesNat
      <3> QED
        BY <1>a, <1>3, <2>1, <3>1 DEF AskedAgain
    <2>4. \A t \in Thread : pc'[t] = "count" => pc[t] = "count"
      BY <1>a, <1>1
    <2>5. Account(past)'
      BY <1>1, <2>4, AccountSame
    <2>6. Room(past)'
      BY <1>1, <1>4, <2>1, <2>2, <2>3, <2>5, SameFound DEF Room, Funded, AskedAgain
    <2> QED
      BY <2>6 DEF RoomInv
  <1> QED
    BY <1>5, <1>6

-----------------------------------------------------------------------------
(* The steps of a thread in a request or a callback leave room.            *)

\* No step of a thread in a request or a callback begins or ends a discovery.
LEMMA StepCalm ==
    ASSUME Around, NEW t \in Thread, Step(t)
    PROVE  Calm' => Calm
  <1>1. phase' = phase
    BY DEF Step, Send, SrspGranted, SrspTimeout, Fetch, FetchTimeout, BeginEntry, PassOver,
           ListChild, CountRead, CallbackReturns, appVars
  <1>2. pc'["app"] \in {"console", "display"} => pc["app"] = pc'["app"]
    <2>a. /\ pc \in [Thread -> Places \cup MsgPlaces] /\ ThreadsInv
          /\ calls \in [Thread -> Seq(Call)]
      BY DEF Around, ThreadsInv
    <2>1. ASSUME NEW place, NEW stack, Moves(t, place, stack), place \notin {"console", "display"}
          PROVE  pc'["app"] \in {"console", "display"} => pc["app"] = pc'["app"]
      BY <2>a, <2>1 DEF Moves, Thread
    <2>2. After(t, "fetch") \notin {"console", "display"}
          /\ After(t, pc[t]) \notin {"console", "display"}
      BY DEF After
    <2>3. calls[t] # <<>> => calls[t][1].back \notin {"console", "display"}
      <3>1. calls[t] # <<>> => calls[t][1] \in Call
        BY <2>a, Popped
      <3> QED
        BY <3>1 DEF Call, Returns
    <2>4. ASSUME NEW place, MovesTo(t, place),
                 \/ place \in {"wait", "fetch", After(t, "fetch")}
                 \/ (FetchTimeout(t) \/ Fetch(t)) /\ place = After(t, pc[t])
          PROVE  pc'["app"] \in {"console", "display"} => pc["app"] = pc'["app"]
      BY <2>1, <2>2, <2>4 DEF MovesTo
    <2>5. ASSUME NEW c \in Call, NEW place \in {"send", "callback", "count"}, TopGoesOn(t, place, c)
          PROVE  pc'["app"] \in {"console", "display"} => pc["app"] = pc'["app"]
      BY <2>1, <2>5 DEF TopGoesOn
    <2>6. ASSUME NEW c \in Call, TopBegins(t, Head(queue).from, c)
          PROVE  pc'["app"] \in {"console", "display"} => pc["app"] = pc'["app"]
      BY <2>1, <2>6 DEF TopBegins
    <2>7. calls[t] # <<>> /\ Moves(t, calls[t][1].back, Tail(calls[t]))
             => (pc'["app"] \in {"console", "display"} => pc["app"] = pc'["app"])
      BY <2>1, <2>3
    <2> QED
      BY <2>a, <2>4, <2>5, <2>6, <2>7, StepMoves
  <1> QED
    BY <1>1, <1>2 DEF Calm

\* A thread in a request leaves room, and so does one that gets a message which is no
\* response to handle.
LEMMA RoomRequest ==
    ASSUME Around, Around', program' = program, mesh' = mesh, NEW past, Room(past),
           NEW t \in Thread, Step(t),
           \/ Send(t) \/ SrspGranted(t) \/ SrspTimeout(t) \/ FetchTimeout(t)
           \/ Fetch(t) /\ ~Succeeds(Head(queue))
    PROVE  RoomInv'
  <1>a. /\ Wired(program, mesh, request, asked, line, queue)
        /\ pc \in [Thread -> Places \cup MsgPlaces] /\ DOMAIN request = Thread
        /\ \A u \in Thread : pc[u] = "send" <=> request[u] # NoRequest
        /\ \A u \in Thread : request[u] \in Requests(program, mesh) \cup {NoRequest}
    BY AroundTypes
  <1>1. /\ UNCHANGED <<calls, nodeCount, slow>> /\ handled' = handled
        /\ \E place : place # "count" /\ pc' = [pc EXCEPT ![t] = place]
    <2>1. After(t, "fetch") # "count" /\ After(t, pc[t]) # "count"
      BY DEF After
    <2>2. CASE Send(t)
      BY <2>2 DEF Send, Goes, listVars, historyVars
    <2>3. CASE SrspGranted(t)
      BY <2>3 DEF SrspGranted, Goes, listVars, boundVars, historyVars
    <2>4. CASE SrspTimeout(t)
      BY <2>1, <2>4 DEF SrspTimeout, Goes, listVars, boundVars, historyVars
    <2>5. CASE FetchTimeout(t)
      BY <2>1, <2>5 DEF FetchTimeout, Goes, listVars, boundVars, historyVars
    <2>6. CASE Fetch(t) /\ ~Succeeds(Head(queue))
      BY <2>1, <2>6 DEF Fetch, Handle, Goes, listVars, boundVars
    <2> QED
      BY <2>2, <2>3, <2>4, <2>5, <2>6
  <1>2. NoMore(mesh, UnderNow', UnderNow)
    <2>1. CASE Send(t)
      <3>1. /\ pc[t] = "send" /\ request' = [request EXCEPT ![t] = NoRequest] /\ queue' = queue
            /\ asked' = asked \/ asked' = asked (+) SetToBag({request[t]})
            /\ line' = line \/ line' = Append(line, Srsp)
        BY <2>1 DEF Send
      <3>2. request[t] \in Requests(program, mesh)
        BY <1>a, <3>1
      <3>3. NoMore(mesh, Under(mesh, [request EXCEPT ![t] = NoRequest], asked', line', queue),
                   Under(mesh, request, asked, line, queue))
        BY <1>a, <3>1, <3>2, OtherWants, UnderSent
      <3> QED
        BY <3>1, <3>3 DEF UnderNow
    <2>2. CASE SrspGranted(t) \/ SrspTimeout(t) \/ FetchTimeout(t)
      <3>1. UNCHANGED <<request, asked, line, queue>>
        BY <2>2 DEF SrspGranted, SrspTimeout, FetchTimeout, wireVars, rpcVars
      <3> QED
        BY <3>1, NoMoreSame DEF UnderNow
    <2>3. CASE Fetch(t)
      <3>1. queue # <<>> /\ queue' = Tail(queue) /\ UNCHANGED <<request, asked, line>>
        BY <2>3 DEF Fetch, wireVars
      <3>2. NoMore(mesh, Under(mesh, request, asked, line, Tail(queue)),
                   Under(mesh, request, asked, line, queue))
        BY <1>a, <3>1, UnderFetched
      <3> QED
        BY <3>1, <3>2 DEF UnderNow
    <2> QED
      BY <2>1, <2>2, <2>3
  <1>3. \A u \in Thread : pc'[u] = "count" => pc[u] = "count"
    BY <1>a, <1>1
  <1>4. Calm' => Calm
    BY StepCalm
  <1> QED
    BY <1>1, <1>2, <1>3, <1>4, RoomAside

\* A callback that goes on, without a request, leaves room.
LEMMA RoomGoesOn ==
    ASSUME Around, Around', program' = program, mesh' = mesh, NEW past, Room(past),
           NEW t \in Thread, Step(t),
           NEW c \in Call, NEW place \in {"callback", "count"}, TopGoesOn(t, place, c),
           place = "count" => c.at = nodeCount + 1,
           UNCHANGED <<request, asked, line, queue, handled, slow>>,
           program = "dataSendRcv" => nodeCount' = nodeCount
    PROVE  RoomInv'
  <1> DEFINE s == calls[t]
             new == [s EXCEPT ![1] = c]
  <1>a. /\ Stacks(mesh, calls) /\ slow \in Nat /\ nodeCount \in Nat
        /\ pc \in [Thread -> Places \cup MsgPlaces] /\ past \in Seq(Found)
    BY AroundTypes DEF Room
  <1>1. /\ s # <<>> /\ c.node = s[1].node /\ c.next >= s[1].next /\ c \in CallsOf(mesh)
        /\ s \in Seq(CallsOf(mesh)) /\ pc' = [pc EXCEPT ![t] = place]
        /\ Restacked(calls', calls, t, new) /\ pc[t] = "callback"
    BY <1>a DEF TopGoesOn, Moves, Stacks, Call, CallsOf, Restacked
  <1>2. new \in Seq(CallsOf(mesh)) /\ Len(new) = Len(s) /\ new[1] = c
    BY <1>1, Replaced
  <1>b. \A n : \A k \in Nat : Waiting(mesh, new, n, k) <= Waiting(mesh, s, n, k)
    BY <1>1, WaitingGoesOn
  <1> HIDE DEF new
  <1>c. /\ Stacks(mesh, calls')
        /\ Opened(calls') + Len(s) = Opened(calls) + Len(new)
        /\ \A n, k : Open(mesh, calls', n, k) + Waiting(mesh, s, n, k)
                        = Open(mesh, calls, n, k) + Waiting(mesh, new, n, k)
        /\ calls'[t] = new /\ \A u \in Thread : u # t => calls'[u] = calls[u]
    BY <1>a, <1>1, <1>2, OpenChange
  <1> HIDE DEF s
  <1>3. Fewer(mesh, calls', calls)
    <2>1. ASSUME NEW n, NEW k \in Nat PROVE Open(mesh, calls', n, k) <= Open(mesh, calls, n, k)
      <3>1. /\ Waiting(mesh, s, n, k) \in Nat /\ Waiting(mesh, new, n, k) \in Nat
            /\ Open(mesh, calls, n, k) \in Nat /\ Open(mesh, calls', n, k) \in Nat
        BY <1>a, <1>1, <1>2, <1>c, WaitingNat, OpenNat
      <3> QED
        BY <1>b, <1>c, <3>1
    <2> QED
      BY <2>1 DEF Fewer
  <1>4. Opened(calls') = Opened(calls)
    <2>1. Opened(calls') + Len(s) = Opened(calls) + Len(new)
      BY <1>c
    <2>2. Opened(calls') \in Nat /\ Opened(calls) \in Nat
      BY <1>a, <1>c, OpenNat
    <2>3. \A a, b, e \in Nat : a + e = b + e => a = b
      OBVIOUS
    <2>4. Len(s) \in Nat
      BY <1>1
    <2> QED
      BY <1>2, <2>1, <2>2, <2>3, <2>4, Zenon
  <1>5. Account(past)'
    <2>1. Nwk' => Len(handled') <= Len(past)
      BY DEF Nwk, Room, Account
    <2>2. ASSUME program = "dataSendRcv", NEW u \in Thread, pc'[u] = "count"
          PROVE  calls'[u][1].at + Opened(calls') <= Len(past) + 1
      <3>1. CASE u = t
        <4>1. calls'[u] = new
          BY <1>c, <3>1
        <4>2. place = "count"
          BY <1>a, <1>1, <2>2, <3>1
        <4>3. calls'[u][1].at = nodeCount + 1
          BY <1>2, <4>1, <4>2
        <4>4. nodeCount + Opened(calls) <= Len(past)
          BY <2>2 DEF Room, Account
        <4>5. Opened(calls) \in Nat /\ Len(past) \in Nat
          BY <1>a, OpenNat
        <4> QED
          BY <1>a, <1>4, <4>3, <4>4, <4>5
      <3>2. CASE u # t
        <4>1. calls'[u] = calls[u]
          BY <1>c, <3>2
        <4>2. pc[u] = "count"
          BY <1>a, <1>1, <2>2, <3>2
        <4> QED
          BY <1>4, <2>2, <4>1, <4>2 DEF Room, Account
      <3> QED
        BY <3>1, <3>2
    <2> QED
      BY <1>4, <2>1, <2>2 DEF Room, Account
  <1>6. NoMore(mesh, UnderNow', UnderNow)
    BY NoMoreSame DEF UnderNow
  <1>7. ~AtRest(mesh, UnderNow, calls)
    BY <1>1 DEF AtRest, Thread, s
  <1>8. Calm' => Calm
    BY StepCalm
  <1>9. slow' >= slow
    BY <1>a
  <1> QED
    BY <1>3, <1>5, <1>6, <1>7, <1>8, <1>9, RoomLess

\* A callback that asks its neighbour pays for that with having passed it.
LEMMA RoomAsks ==
    ASSUME Around, Around', program' = program, mesh' = mesh, NEW past, Room(past),
           Tree(program, mesh), NEW t \in Thread, ListChild(t), Neighbour(t).type = "router"
    PROVE  RoomInv'
  <1> DEFINE s == calls[t]
             n == s[1].node
             k == s[1].next
             x == Neighbour(t).addr
             c == [s[1] EXCEPT !.next = @ + 1]
             new == [s EXCEPT ![1] = c]
  <1>a. /\ Stacks(mesh, calls) /\ slow \in Nat /\ nodeCount \in Nat
        /\ pc \in [Thread -> Places \cup MsgPlaces] /\ past \in Seq(Found)
        /\ Wired(program, mesh, request, asked, line, queue)
        /\ UnderNow \in [Routers(mesh) -> Nat] /\ Coordinator \in Routers(mesh)
        /\ \A u \in Thread : pc[u] = "send" <=> request[u] # NoRequest
        /\ program \in Programs /\ mesh \in Meshes
    BY AroundTypes DEF Room
  <1>b. (UnderNow \in [Routers(mesh) -> Nat])' /\ Stacks(mesh, calls)'
    BY AroundTypes, PTL
  <1>1. /\ pc[t] = "callback" /\ s # <<>> /\ s \in Seq(CallsOf(mesh)) /\ s[1] \in CallsOf(mesh)
    <2>1. pc[t] = "callback"
      BY DEF ListChild, AtNeighbour
    <2>2. s # <<>> /\ s \in Seq(CallsOf(mesh))
      BY <1>a, <2>1 DEF Around, ThreadsInv, Stacks, Thread
    <2> QED
      BY <2>1, <2>2, Popped
  <1>2. /\ n \in Routers(mesh) /\ k \in DOMAIN Page(mesh, n) /\ k \in Nat
        /\ Names(program, Page(mesh, n)[k], x)
    BY <1>1, SMTT(60) DEF ListChild, AtNeighbour, Neighbour, Names, CallsOf
  <1>3. c \in CallsOf(mesh) /\ c.node = n /\ c.next = k + 1 /\ c.next >= k
    BY <1>1, <1>2, SMTT(60) DEF CallsOf
  <1>4. /\ Restacked(calls', calls, t, new)
        /\ pc' = [pc EXCEPT ![t] = "send"] /\ request' = [request EXCEPT ![t] = Lqi(x)]
        /\ UNCHANGED <<asked, line, queue, nodeCount, slow, handled, phase>>
    <2>1. calls' = [calls EXCEPT ![t] = new]
      BY <1>a, <1>1 DEF ListChild, AtNeighbour, Stacks
    <2>2. AskIfRouter(t, Neighbour(t))
          /\ UNCHANGED <<asked, line, queue, nodeCount, slow, handled, phase>>
      BY DEF ListChild, wireVars, rpcVars, boundVars, historyVars, appVars
    <2> QED
      BY <2>1, <2>2 DEF AskIfRouter, Ask, Goes, Lqi, Restacked
  <1>5. new \in Seq(CallsOf(mesh)) /\ Len(new) = Len(s) /\ new[1] = c
    BY <1>1, <1>3, Replaced
  <1>6. /\ \A i : \A j \in Nat : Waiting(mesh, new, i, j) <= Waiting(mesh, s, i, j)
        /\ Waiting(mesh, new, n, k) + 1 = Waiting(mesh, s, n, k)
    <2>1. c.node = s[1].node /\ c.next >= s[1].next /\ c \in CallsOf(mesh)
      BY <1>3
    <2>2. c.next = s[1].next + 1 /\ n = c.node /\ k = s[1].next
      BY <1>3
    <2>3. s \in Seq(CallsOf(mesh)) /\ s # <<>>
      BY <1>1
    <2> HIDE DEF s, n, k, c
    <2>4. \A i : \A j \in Nat : Waiting(mesh, new, i, j) <= Waiting(mesh, s, i, j)
      BY <2>1, <2>3, WaitingGoesOn
    <2>5. Waiting(mesh, new, n, k) + 1 = Waiting(mesh, s, n, k)
      BY <1>2, <2>1, <2>2, <2>3, WaitingGoesOn
    <2> QED
      BY <2>4, <2>5
  <1> HIDE DEF new
  <1>7. /\ Stacks(mesh, calls')
        /\ Opened(calls') + Len(s) = Opened(calls) + Len(new)
        /\ \A i, j : Open(mesh, calls', i, j) + Waiting(mesh, s, i, j)
                        = Open(mesh, calls, i, j) + Waiting(mesh, new, i, j)
        /\ calls'[t] = new /\ \A u \in Thread : u # t => calls'[u] = calls[u]
    BY <1>a, <1>4, <1>5, OpenChange
  <1>8. request[t] = NoRequest
    BY <1>a, <1>1
  <1> HIDE DEF s, n, k, x, c
  <1>9. Increases(mesh, UnderNow', UnderNow, x)
    <2>1. Increases(mesh, Under(mesh, [request EXCEPT ![t] = Lqi(x)], asked, line, queue),
                    Under(mesh, request, asked, line, queue), x)
      BY <1>a, <1>8, UnderAsked
    <2> QED
      BY <1>4, <2>1 DEF UnderNow
  <1>10. ASSUME NEW i, NEW j \in Nat
         PROVE  /\ Waiting(mesh, s, i, j) \in Nat /\ Waiting(mesh, new, i, j) \in Nat
                /\ Open(mesh, calls, i, j) \in Nat /\ Open(mesh, calls', i, j) \in Nat
    BY <1>a, <1>1, <1>5, <1>7, WaitingNat, OpenNat
  <1>11. Fewer(mesh, calls', calls)
    <2>1. ASSUME NEW i, NEW j \in Nat PROVE Open(mesh, calls', i, j) <= Open(mesh, calls, i, j)
      BY <1>6, <1>7, <1>10
    <2> QED
      BY <2>1 DEF Fewer
  <1>12. Open(mesh, calls', n, k) + 1 = Open(mesh, calls, n, k)
    BY <1>2, <1>6, <1>7, <1>10
  <1>13. Funded(program, mesh, past, UnderNow', calls')
    <2>1. Funded(program, mesh, past, UnderNow, calls)
      BY DEF Room
    <2>2. UnderNow' \in [Routers(mesh) -> Nat]
      BY <1>b
    <2> QED
      BY <1>a, <1>2, <1>7, <1>9, <1>11, <1>12, <2>1, <2>2, FundedAsked
  <1>14. UnderNow'[Coordinator] = UnderNow[Coordinator]
    <2>1. x # Coordinator
      BY <1>a, <1>2 DEF Follows, Tree
    <2> QED
      BY <1>a, <1>9, <2>1 DEF Increases
  <1>15. Opened(calls') = Opened(calls)
    <2>1. Opened(calls') + Len(s) = Opened(calls) + Len(new)
      BY <1>7
    <2>2. Opened(calls') \in Nat /\ Opened(calls) \in Nat
      BY <1>a, <1>7, OpenNat
    <2>3. \A a, b, e \in Nat : a + e = b + e => a = b
      OBVIOUS
    <2>4. Len(s) \in Nat
      BY <1>1
    <2> QED
      BY <1>5, <2>1, <2>2, <2>3, <2>4, Zenon
  <1>16. Account(past)'
    <2>1. ASSUME NEW u \in Thread, pc'[u] = "count" PROVE pc[u] = "count" /\ calls'[u] = calls[u]
      BY <1>a, <1>4, <1>7, <2>1
    <2> QED
      BY <1>4, <1>15, <2>1 DEF Room, Account, Nwk
  <1>17. Calm' => Calm
    BY <1>4, StepCalm DEF Step
  <1>18. ~AtRest(mesh, UnderNow, calls)
    BY <1>1 DEF AtRest, Thread, s
  <1>19. Room(past)'
    BY <1>4, <1>13, <1>14, <1>16, <1>17, <1>18, SameFound DEF Room, Funded, AskedAgain
  <1> QED
    BY <1>19 DEF RoomInv

\* A response that is handled pays for what its callback will ask.
LEMMA RoomBegins ==
    ASSUME Around, Around', program' = program, mesh' = mesh, NEW past, Room(past),
           NEW t \in Thread, Fetch(t), Succeeds(Head(queue)),
           NEW c \in Call, NEW f, f = Head(queue).from, TopBegins(t, f, c),
           handled' = Append(handled, f)
    PROVE  RoomInv'
  <1> DEFINE s == calls[t]
             new == <<c>> \o s
             now == Append(past, f)
  <1>a. /\ Stacks(mesh, calls) /\ slow \in Nat /\ nodeCount \in Nat
        /\ pc \in [Thread -> Places \cup MsgPlaces] /\ past \in Seq(Found)
        /\ Wired(program, mesh, request, asked, line, queue)
        /\ UnderNow \in [Routers(mesh) -> Nat] /\ Coordinator \in Routers(mesh)
        /\ program \in Programs /\ mesh \in Meshes
    BY AroundTypes DEF Room
  <1>b. (UnderNow \in [Routers(mesh) -> Nat])' /\ Stacks(mesh, calls)'
    BY AroundTypes, PTL
  <1>1. /\ f \in Routers(mesh) /\ mesh[f].ok /\ c \in CallsOf(mesh) /\ c.node = f /\ c.next = 0
        /\ s \in Seq(CallsOf(mesh)) /\ Restacked(calls', calls, t, new)
        /\ pc' = [pc EXCEPT ![t] = "callback"]
    BY <1>a DEF TopBegins, Moves, Stacks, Call, CallsOf, Restacked
  <1>2. /\ queue # <<>> /\ queue' = Tail(queue)
        /\ UNCHANGED <<request, asked, line, nodeCount, slow>>
    BY DEF Fetch, wireVars, listVars, boundVars
  <1>3. Head(queue) = Answer(f)
    <2>1. Head(queue) \in Messages(program, mesh) /\ Head(queue).kind = "lqi"
      BY <1>a, <1>2, UnderFetched DEF Succeeds
    <2> QED
      BY <2>1, RequestForms
  <1>4. Increases(mesh, UnderNow, UnderNow', f)
    <2>1. Increases(mesh, Under(mesh, request, asked, line, queue),
                    Under(mesh, request, asked, line, Tail(queue)), f)
      BY <1>a, <1>2, <1>3, UnderFetched
    <2> QED
      BY <1>2, <2>1 DEF UnderNow
  <1>5. f \in Found
    <2>1. f \in Askable(program, mesh)
      <3>1. Answer(f) \in Messages(program, mesh)
        BY <1>a, <1>2, <1>3, UnderFetched
      <3> QED
        BY <3>1, RequestForms
    <2>2. CASE f = Coordinator
      BY <1>1, <2>2, FoundClosed DEF Around
    <2>3. ASSUME NEW n \in Routers(mesh), Follows(program, mesh, n, f) PROVE f \in Found
      <3>1. PICK k \in DOMAIN Page(mesh, n) : Names(program, Page(mesh, n)[k], f)
        BY <2>3 DEF Follows
      <3>2. UnderNow[f] + Occurrences(past, f) + Open(mesh, calls, n, k) <= Occurrences(past, n)
        BY <1>1, <3>1 DEF Room, Funded
      <3>3. UnderNow[f] = UnderNow'[f] + 1 /\ UnderNow'[f] \in Nat
        BY <1>b, <1>1, <1>4 DEF Increases
      <3>4. /\ Occurrences(past, f) \in Nat /\ Occurrences(past, n) \in Nat
            /\ Open(mesh, calls, n, k) \in Nat
        BY <1>a, OccurrencesNat, OpenNat
      <3>5. Occurrences(past, n) > 0
        BY <3>2, <3>3, <3>4
      <3>6. n \in Found
        BY <1>a, <3>5, OccurrencesPlaces
      <3> QED
        BY <1>1, <2>3, <3>6, FoundClosed DEF Around
    <2> QED
      BY <2>1, <2>2, <2>3 DEF Askable
  <1>6. /\ new \in Seq(CallsOf(mesh)) /\ Len(new) = Len(s) + 1 /\ new[1] = c
    BY <1>1, Pushed
  <1>7. \A i : \A j \in Nat : Waiting(mesh, new, i, j)
                                  = Waiting(mesh, s, i, j) + (IF i = f THEN 1 ELSE 0)
    BY <1>1, WaitingPush
  <1> HIDE DEF new
  <1>8. /\ Stacks(mesh, calls')
        /\ Opened(calls') + Len(s) = Opened(calls) + Len(new)
        /\ \A i, j : Open(mesh, calls', i, j) + Waiting(mesh, s, i, j)
                        = Open(mesh, calls, i, j) + Waiting(mesh, new, i, j)
        /\ calls'[t] = new /\ \A u \in Thread : u # t => calls'[u] = calls[u]
    BY <1>a, <1>1, <1>6, OpenChange
  <1> HIDE DEF s
  <1>9. ASSUME NEW i, NEW j \in Nat
        PROVE  Open(mesh, calls', i, j) = Open(mesh, calls, i, j) + (IF i = f THEN 1 ELSE 0)
    <2>1. /\ Waiting(mesh, s, i, j) \in Nat
          /\ Open(mesh, calls, i, j) \in Nat /\ Open(mesh, calls', i, j) \in Nat
      BY <1>a, <1>1, <1>8, WaitingNat, OpenNat
    <2>2. /\ Open(mesh, calls', i, j) + Waiting(mesh, s, i, j)
                = Open(mesh, calls, i, j) + Waiting(mesh, new, i, j)
          /\ Waiting(mesh, new, i, j) = Waiting(mesh, s, i, j) + (IF i = f THEN 1 ELSE 0)
      BY <1>7, <1>8
    <2> QED
      BY <2>1, <2>2
  <1>10. now \in Seq(Found) /\ Len(now) = Len(past) + 1 /\ Len(past) \in Nat
    BY <1>a, <1>5
  <1>11. Occurrences(now, Coordinator)
            = Occurrences(past, Coordinator) + (IF f = Coordinator THEN 1 ELSE 0)
    BY <1>a, <1>5, OccurrencesAppend
  <1>12. Funded(program, mesh, now, UnderNow', calls')
    <2>1. Funded(program, mesh, past, UnderNow, calls)
      BY DEF Room
    <2>2. UnderNow' \in [Routers(mesh) -> Nat]
      BY <1>b
    <2> QED
      BY <1>a, <1>4, <1>5, <1>8, <1>9, <2>1, <2>2, FundedHandled, ZenonT(60)
  <1> HIDE DEF now
  <1>13. ASSUME NEW late, AskedAgain(mesh, UnderNow, past, late)
         PROVE  AskedAgain(mesh, UnderNow', now, late)
    <2>1. UnderNow[Coordinator] = UnderNow'[Coordinator] + (IF Coordinator = f THEN 1 ELSE 0)
      BY <1>a, <1>4 DEF Increases
    <2>2. UnderNow'[Coordinator] \in Nat /\ Occurrences(past, Coordinator) \in Nat
      BY <1>a, <1>b, OccurrencesNat
    <2>3. UnderNow'[Coordinator] + Occurrences(now, Coordinator)
             = UnderNow[Coordinator] + Occurrences(past, Coordinator)
      BY <1>11, <2>1, <2>2
    <2> QED
      BY <1>13, <2>3 DEF AskedAgain
  <1>14. ~AtRest(mesh, UnderNow, calls)
    <2>1. UnderNow[f] = UnderNow'[f] + 1 /\ UnderNow'[f] \in Nat
      BY <1>b, <1>1, <1>4 DEF Increases
    <2> QED
      BY <1>1, <2>1 DEF AtRest
  <1>15. Opened(calls') = Opened(calls) + 1
    <2>1. Opened(calls') + Len(s) = Opened(calls) + (Len(s) + 1)
      BY <1>6, <1>8
    <2>2. Opened(calls') \in Nat /\ Opened(calls) \in Nat
      BY <1>a, <1>8, OpenNat
    <2>3. \A a, b, e \in Nat : a + e = b + (e + 1) => a = b + 1
      OBVIOUS
    <2>4. Len(s) \in Nat
      BY <1>1
    <2> QED
      BY <2>1, <2>2, <2>3, <2>4, Zenon, ZenonT(60)
  <1>16. Account(now)'
    <2>1. ASSUME NEW u \in Thread, pc'[u] = "count" PROVE pc[u] = "count" /\ calls'[u] = calls[u]
      BY <1>a, <1>1, <1>8, <2>1
    <2>2. Nwk' => Len(handled') <= Len(now)
      <3>1. Nwk => Len(handled) <= Len(past) /\ handled \in Seq(Routers(mesh))
        BY DEF Room, Account, Around, NwkInv, NwkEntries, Entries
      <3>2. Nwk => Len(handled') = Len(handled) + 1 /\ Len(handled) \in Nat
        BY <3>1
      <3> QED
        BY <1>10, <3>1, <3>2 DEF Nwk
    <2>3. Opened(calls) \in Nat
      BY <1>a, OpenNat
    <2>4. ASSUME program = "dataSendRcv" PROVE nodeCount + Opened(calls') <= Len(now)
      <3>1. nodeCount + Opened(calls) <= Len(past)
        BY <2>4 DEF Room, Account
      <3> QED
        BY <1>a, <1>10, <1>15, <2>3, <3>1
    <2>5. ASSUME program = "dataSendRcv", NEW u \in Thread, pc'[u] = "count"
          PROVE  calls'[u][1].at + Opened(calls') <= Len(now) + 1
      <3>1. calls[u][1].at + Opened(calls) <= Len(past) + 1 /\ calls'[u] = calls[u]
        BY <2>1, <2>5 DEF Room, Account
      <3>2. calls[u][1].at \in Nat
        <4>1. calls[u] \in Seq(Call) /\ calls[u] # <<>>
          BY <2>1, <2>5 DEF Around, ThreadsInv, Thread
        <4>2. calls[u][1] \in Call
          BY <4>1, Popped
        <4> QED
          BY <4>2 DEF Call
      <3> QED
        BY <1>10, <1>15, <2>3, <3>1, <3>2, SMTT(60)
    <2> QED
      BY <1>2, <2>2, <2>4, <2>5 DEF Account
  <1>17. Calm' => Calm
    BY StepCalm DEF Step
  <1>18. Room(now)'
    BY <1>2, <1>10, <1>12, <1>13, <1>14, <1>16, <1>17, SameFound DEF Room, Funded, AtRest, AskedAgain
  <1> QED
    BY <1>18 DEF RoomInv

\* A callback that returns leaves room, for nodeCount is what it read, plus one.
LEMMA RoomReturns ==
    ASSUME Around, Around', program' = program, mesh' = mesh, NEW past, Room(past),
           NEW t \in Thread, Step(t), CallbackReturns(t), calls[t] # <<>>,
           Moves(t, calls[t][1].back, Tail(calls[t]))
    PROVE  RoomInv'
  <1> DEFINE s == calls[t]
             new == Tail(s)
             back == s[1].back
  <1>a. /\ Stacks(mesh, calls) /\ slow \in Nat /\ nodeCount \in Nat
        /\ pc \in [Thread -> Places \cup MsgPlaces] /\ past \in Seq(Found)
    BY AroundTypes DEF Room
  <1>1. /\ s # <<>> /\ s \in Seq(CallsOf(mesh)) /\ pc' = [pc EXCEPT ![t] = back]
        /\ Restacked(calls', calls, t, new)
    BY <1>a DEF Moves, Stacks, Restacked
  <1>2. UNCHANGED <<request, asked, line, queue, handled, slow>>
    BY DEF CallbackReturns, wireVars, rpcVars, historyVars, boundVars
  <1>3. back # "count"
    <2>1. s[1] \in CallsOf(mesh)
      BY <1>1, Popped
    <2> QED
      BY <2>1 DEF CallsOf, Returns
  <1>4. new \in Seq(CallsOf(mesh)) /\ Len(s) = Len(new) + 1 /\ Len(new) \in Nat
    BY <1>1, Popped
  <1>b. \A i, j : Waiting(mesh, new, i, j) <= Waiting(mesh, s, i, j)
    BY <1>1, WaitingPop
  <1>s. s = calls[t]
    OBVIOUS
  <1> HIDE DEF new, back
  <1>c. /\ Stacks(mesh, calls')
        /\ Opened(calls') + Len(s) = Opened(calls) + Len(new)
        /\ \A i, j : Open(mesh, calls', i, j) + Waiting(mesh, s, i, j)
                        = Open(mesh, calls, i, j) + Waiting(mesh, new, i, j)
        /\ calls'[t] = new /\ \A u \in Thread : u # t => calls'[u] = calls[u]
    BY <1>a, <1>1, <1>4, OpenChange
  <1> HIDE DEF s
  <1>5. Fewer(mesh, calls', calls)
    <2>1. ASSUME NEW i, NEW j \in Nat PROVE Open(mesh, calls', i, j) <= Open(mesh, calls, i, j)
      <3>1. /\ Waiting(mesh, s, i, j) \in Nat /\ Waiting(mesh, new, i, j) \in Nat
            /\ Open(mesh, calls, i, j) \in Nat /\ Open(mesh, calls', i, j) \in Nat
        BY <1>a, <1>1, <1>4, <1>c, WaitingNat, OpenNat
      <3> QED
        BY <1>b, <1>c, <3>1
    <2> QED
      BY <2>1 DEF Fewer
  <1>6. Opened(calls) = Opened(calls') + 1 /\ Opened(calls') \in Nat /\ Opened(calls) \in Nat
    <2>1. Opened(calls') + (Len(new) + 1) = Opened(calls) + Len(new)
      BY <1>4, <1>c
    <2>2. Opened(calls') \in Nat /\ Opened(calls) \in Nat
      BY <1>a, <1>c, OpenNat
    <2>3. \A a, b, e \in Nat : a + (e + 1) = b + e => b = a + 1
      OBVIOUS
    <2> QED
      BY <1>4, <2>1, <2>2, <2>3, Zenon, ZenonT(60)
  <1>7. ASSUME NEW u \in Thread, pc'[u] = "count" PROVE pc[u] = "count" /\ calls'[u] = calls[u]
    BY <1>a, <1>1, <1>3, <1>c, <1>7
  <1>8. ASSUME NEW u \in Thread, program = "dataSendRcv", pc[u] = "count"
        PROVE  calls[u][1].at + Opened(calls') <= Len(past)
    <2>1. calls[u][1].at + Opened(calls) <= Len(past) + 1
      BY <1>8 DEF Room, Account
    <2>2. calls[u] \in Seq(Call) /\ calls[u] # <<>>
      BY <1>8 DEF Around, ThreadsInv, Thread
    <2>3. calls[u][1] \in Call
      BY <2>2, Popped
    <2>4. calls[u][1].at \in Nat /\ Len(past) \in Nat
      BY <1>a, <2>3 DEF Call
    <2> QED
      BY <1>6, <2>1, <2>4
  <1>9. Account(past)'
    <2>1. Nwk' => Len(handled') <= Len(past)
      BY <1>2 DEF Nwk, Room, Account
    <2>2. ASSUME program = "dataSendRcv" PROVE nodeCount' + Opened(calls') <= Len(past)
      <3>1. pc[t] = "count" /\ nodeCount' = calls[t][1].at
        BY <2>2 DEF CallbackReturns
      <3> QED
        BY <1>8, <2>2, <3>1
    <2>3. ASSUME program = "dataSendRcv", NEW u \in Thread, pc'[u] = "count"
          PROVE  calls'[u][1].at + Opened(calls') <= Len(past) + 1
      <3>1. calls[u][1].at + Opened(calls) <= Len(past) + 1 /\ pc[u] = "count"
        BY <1>7, <2>3 DEF Room, Account
      <3>2. calls[u] \in Seq(Call) /\ calls[u] # <<>>
        BY <3>1 DEF Around, ThreadsInv, Thread
      <3>3. calls[u][1] \in Call
        BY <3>2, Popped
      <3>4. calls[u][1].at \in Nat /\ Len(past) \in Nat
        BY <1>a, <3>3 DEF Call
      <3> QED
        BY <1>6, <1>7, <2>3, <3>1, <3>4
    <2> QED
      BY <2>1, <2>2, <2>3 DEF Account
  <1>10. NoMore(mesh, UnderNow', UnderNow)
    BY <1>2, NoMoreSame DEF UnderNow
  <1>11. ~AtRest(mesh, UnderNow, calls)
    BY <1>1 DEF AtRest, Thread, s
  <1>12. Calm' => Calm
    BY StepCalm
  <1>13. slow' >= slow
    BY <1>a, <1>2
  <1> QED
    BY <1>5, <1>9, <1>10, <1>11, <1>12, <1>13, RoomLess

\* Every step of a thread in a request or a callback leaves room.
LEMMA RoomStep ==
    ASSUME Around, Around', program' = program, mesh' = mesh, NEW past, Room(past),
           Tree(program, mesh), NEW t \in Thread, Step(t)
    PROVE  RoomInv'
  <1>a. ThreadsInv
    BY DEF Around
  <1>1. CASE \/ Send(t) \/ SrspGranted(t) \/ SrspTimeout(t) \/ FetchTimeout(t)
             \/ Fetch(t) /\ ~Succeeds(Head(queue))
    BY <1>1, RoomRequest
  <1>2. CASE Fetch(t) /\ Succeeds(Head(queue)) /\ handled' = Append(handled, Head(queue).from)
             /\ \E c \in Call : TopBegins(t, Head(queue).from, c)
    <2>1. PICK c \in Call : TopBegins(t, Head(queue).from, c)
      BY <1>2
    <2>2. PICK f : f = Head(queue).from
      OBVIOUS
    <2>3. TopBegins(t, f, c) /\ handled' = Append(handled, f)
      BY <1>2, <2>1, <2>2
    <2> QED
      BY <1>2, <2>2, <2>3, RoomBegins
  <1>3. CASE BeginEntry(t) /\ \E c \in Call : TopGoesOn(t, "callback", c)
    <2>1. PICK c \in Call : TopGoesOn(t, "callback", c)
      BY <1>3
    <2>2. /\ UNCHANGED <<request, asked, line, queue, handled, slow>>
          /\ program = "dataSendRcv" => nodeCount' = nodeCount
      BY <1>3 DEF BeginEntry, wireVars, rpcVars, historyVars, boundVars
    <2> QED
      BY <2>1, <2>2, RoomGoesOn
  <1>4. CASE PassOver(t) /\ \E c \in Call : TopGoesOn(t, "callback", c)
    <2>1. PICK c \in Call : TopGoesOn(t, "callback", c)
      BY <1>4
    <2>2. UNCHANGED <<request, asked, line, queue, handled, slow, nodeCount>>
      BY <1>4 DEF PassOver, wireVars, rpcVars, historyVars, boundVars, listVars
    <2> QED
      BY <2>1, <2>2, RoomGoesOn
  <1>5. CASE ListChild(t) /\ Neighbour(t).type = "router"
    BY <1>5, RoomAsks
  <1>6. CASE /\ ListChild(t) /\ Neighbour(t).type # "router"
             /\ \E c \in Call : TopGoesOn(t, "callback", c)
    <2>1. PICK c \in Call : TopGoesOn(t, "callback", c)
      BY <1>6
    <2>2. UNCHANGED <<request, asked, line, queue, handled, slow, nodeCount>>
      BY <1>6 DEF ListChild, AskIfRouter, wireVars, rpcVars, historyVars, boundVars
    <2> QED
      BY <2>1, <2>2, RoomGoesOn
  <1>7. CASE CountRead(t) /\ \E c \in Call : c.at = nodeCount + 1 /\ TopGoesOn(t, "count", c)
    <2>1. PICK c \in Call : c.at = nodeCount + 1 /\ TopGoesOn(t, "count", c)
      BY <1>7
    <2>2. UNCHANGED <<request, asked, line, queue, handled, slow, nodeCount>>
      BY <1>7 DEF CountRead, wireVars, rpcVars, historyVars, boundVars, listVars
    <2> QED
      BY <2>1, <2>2, RoomGoesOn
  <1>8. CASE CallbackReturns(t) /\ calls[t] # <<>> /\ Moves(t, calls[t][1].back, Tail(calls[t]))
    BY <1>8, RoomReturns
  <1>9. \/ Send(t) \/ SrspGranted(t) \/ SrspTimeout(t) \/ FetchTimeout(t)
        \/ Fetch(t) /\ ~Succeeds(Head(queue))
        \/ Fetch(t) /\ Succeeds(Head(queue)) /\ handled' = Append(handled, Head(queue).from)
             /\ \E c \in Call : TopBegins(t, Head(queue).from, c)
        \/ BeginEntry(t) /\ \E c \in Call : TopGoesOn(t, "callback", c)
        \/ PassOver(t) /\ \E c \in Call : TopGoesOn(t, "callback", c)
        \/ /\ ListChild(t)
           /\ \E c \in Call : TopGoesOn(t, IF Neighbour(t).type = "router" THEN "send" ELSE "callback", c)
        \/ CountRead(t) /\ \E c \in Call : c.at = nodeCount + 1 /\ TopGoesOn(t, "count", c)
        \/ CallbackReturns(t) /\ calls[t] # <<>> /\ Moves(t, calls[t][1].back, Tail(calls[t]))
    BY <1>a, StepStack, Zenon
  <1> QED
    BY <1>1, <1>2, <1>3, <1>4, <1>5, <1>6, <1>7, <1>8, <1>9

\* Room is left by every step.
LEMMA RoomKept == Around /\ Around' /\ RoomInv /\ [Next]_vars => RoomInv'
  <1> HAVE Around /\ Around' /\ RoomInv /\ [Next]_vars
  <1>1. program' = program /\ mesh' = mesh
    BY ChosenKept DEF Around
  <1> SUFFICES ASSUME Tree(program, mesh), NEW past, Room(past) PROVE RoomInv'
    BY <1>1 DEF RoomInv
  <1>2. CASE WireStep
    BY <1>1, <1>2, RoomWire
  <1>3. CASE OuterStep
    BY <1>1, <1>3, RoomOuter, RoomDiscover, RoomLoopEnd
  <1>4. ASSUME NEW t \in Thread, Step(t) PROVE RoomInv'
    BY <1>1, <1>4, RoomStep
  <1>5. CASE UNCHANGED vars
    <2>1. UNCHANGED <<request, asked, line, queue, calls, nodeCount, slow, handled, pc, phase>>
      BY <1>5 DEF vars, threadVars, wireVars, rpcVars, listVars, boundVars, historyVars, appVars
    <2>2. NoMore(mesh, UnderNow', UnderNow)
      BY <1>1, <2>1, NoMoreSame DEF UnderNow
    <2>3. Calm' => Calm
      BY <2>1 DEF Calm
    <2> QED
      BY <1>1, <2>1, <2>2, <2>3, RoomAside
  <1> QED
    BY <1>2, <1>3, <1>4, <1>5, StepKinds

-----------------------------------------------------------------------------
(* Room in nodeList.                                                       *)

\* At first there is nothing to leave room for.
LEMMA InitRoom ==
    Init => Around /\ SemInv /\ FlagInv /\ ListInv /\ RoomInv
  <1> HAVE Init
  <1>1. Chosen /\ ThreadsInv /\ NwkInv
    BY InitThreads, InitNwk DEF NwkInv
  <1>2. StackInv /\ PhaseInv
    BY DEF Init, StackInv, StackFits, PhaseInv, Thread
  <1>3. WireInv
    <2>1. BagOf(Requests(program, mesh), EmptyBag)
      BY DEF BagOf, EmptyBag, SetToBag
    <2>2. <<>> \in Seq(Messages(program, mesh))
      OBVIOUS
    <2>3. \A t \in Thread : pc[t] = "send" <=> request[t] # NoRequest
      BY DEF Init, Thread
    <2> QED
      BY <2>1, <2>2, <2>3 DEF Init, WireInv
  <1>4. BoundInv
    BY <1>1, BoundsNatural DEF Init, BoundInv, Chosen
  <1>5. Around
    BY <1>1, <1>2, <1>3, <1>4 DEF Around
  <1>6. SemInv
    <2>1. \A t \in Thread : pc[t] # "wait"
      BY DEF Init, Thread
    <2>2. line = <<>> /\ srspSem = 0 /\ sender = {}
      BY DEF Init
    <2>3. Occurrences(line, Srsp) = 0
      BY <2>2, NoMembers
    <2> QED
      BY <2>1, <2>2, <2>3 DEF SemInv
  <1>7. FlagInv
    BY DEF Init, FlagInv
  <1>8. ListInv
    <2>1. Coordinator \in Routers(mesh)
      BY <1>1, RoutersKnown DEF Chosen
    <2>2. NoEntry \in EntryIn(mesh)
      BY <2>1 DEF NoEntry, EntryIn
    <2> QED
      BY <2>2 DEF Init, ListInv
  <1>9. RoomInv
    <2>a. /\ UnderNow \in [Routers(mesh) -> Nat] /\ Coordinator \in Routers(mesh)
          /\ slow = 0 /\ nodeCount = 0 /\ handled = <<>> /\ calls["app"] = <<>> /\ calls["msg"] = <<>>
          /\ request["app"] = NoRequest /\ request["msg"] = NoRequest
          /\ line = <<>> /\ queue = <<>> /\ asked = EmptyBag
          /\ \A t \in Thread : pc[t] # "count"
      BY <1>5, AroundTypes DEF Init, Thread
    <2>1. ASSUME NEW r \in Routers(mesh) PROVE UnderNow[r] = 0
      <3>1. Asks(request, r) = 0
        BY <2>a, OtherWants DEF Asks
      <3>2. Copies(asked, Lqi(r)) = 0
        BY <2>a DEF Copies, EmptyBag, SetToBag
      <3>3. Occurrences(line, Answer(r)) = 0 /\ Occurrences(queue, Answer(r)) = 0
        BY <2>a, NoMembers
      <3> QED
        BY <3>1, <3>2, <3>3 DEF UnderNow, Under, UnderWay
    <2>2. \A x : Occurrences(<<>>, x) = 0
      BY NoMembers
    <2>3. \A n, k : Open(mesh, calls, n, k) = 0
      BY <2>a, NoMembers DEF Open, Waiting
    <2>4. Opened(calls) = 0 /\ Len(<<>>) = 0 /\ <<>> \in Seq(Found)
      BY <2>a DEF Opened
    <2>5. Funded(program, mesh, <<>>, UnderNow, calls)
      BY <2>1, <2>2, <2>3 DEF Funded
    <2>6. AskedAgain(mesh, UnderNow, <<>>, 1 + slow)
      BY <2>a, <2>1, <2>2 DEF AskedAgain
    <2>7. AtRest(mesh, UnderNow, calls)
      BY <2>a, <2>1 DEF AtRest
    <2>8. Account(<<>>)
      BY <2>a, <2>4 DEF Account
    <2> QED
      BY <2>4, <2>5, <2>6, <2>7, <2>8 DEF Room, RoomInv
  <1> QED
    BY <1>5, <1>6, <1>7, <1>8, <1>9

\* No router is handled more often than the coordinator is asked, and that is once and once
\* more for each message loop that ended too early.
LEMMA PastBound ==
    ASSUME Around, NEW past, Room(past), RoomForLateAnswers
    PROVE  Len(past) <= Capacity
  <1> DEFINE b == 1 + slow
             S == {r \in Routers(mesh) : Occurrences(past, r) <= b}
  <1>1. /\ program \in Programs /\ mesh \in Meshes /\ Coordinator \in Routers(mesh)
        /\ UnderNow \in [Routers(mesh) -> Nat] /\ Stacks(mesh, calls)
        /\ past \in Seq(Found) /\ slow \in Nat
    BY AroundTypes DEF Room
  <1>2. b \in Nat /\ Capacity \in Nat
    BY <1>1, BoundsNatural
  <1>3. \A r : Occurrences(past, r) \in Nat
    BY <1>1, OccurrencesNat
  <1>4. Coordinator \in S
    <2>1. UnderNow[Coordinator] + Occurrences(past, Coordinator) <= 1 + slow
      BY DEF Room, AskedAgain
    <2> QED
      BY <1>1, <1>2, <1>3, <2>1
  <1>5. ASSUME NEW n \in S, NEW r \in Routers(mesh), Follows(program, mesh, n, r) PROVE r \in S
    <2>1. PICK k \in DOMAIN Page(mesh, n) : Names(program, Page(mesh, n)[k], r)
      BY <1>5 DEF Follows
    <2>2. UnderNow[r] + Occurrences(past, r) + Open(mesh, calls, n, k) <= Occurrences(past, n)
      BY <1>5, <2>1 DEF Room, Funded
    <2>3. UnderNow[r] \in Nat /\ Open(mesh, calls, n, k) \in Nat
      BY <1>1, OpenNat
    <2>4. Occurrences(past, r) \in Nat /\ Occurrences(past, n) \in Nat /\ Occurrences(past, n) <= b
      BY <1>3
    <2> QED
      BY <1>2, <2>2, <2>3, <2>4
  <1>6. S \in SUBSET Routers(mesh)
    OBVIOUS
  <1> HIDE DEF S
  <1>7. Found \subseteq S /\ Found \subseteq Routers(mesh)
    BY <1>4, <1>5, <1>6 DEF Found
  <1>8. \A r \in Found : Occurrences(past, r) <= b
    BY <1>7 DEF S
  <1>9. /\ IsFiniteSet(Routers(mesh)) /\ Cardinality(Routers(mesh)) * b <= Capacity
    BY <1>1, RoutersKnown DEF RoomForLateAnswers
  <1>10. IsFiniteSet(Found) /\ Cardinality(Found) <= Cardinality(Routers(mesh))
    BY <1>7, <1>9, FS_Subset
  <1>11. Cardinality(Found) \in Nat /\ Cardinality(Routers(mesh)) \in Nat
    BY <1>9, <1>10, FS_CardinalityType
  <1> HIDE DEF b
  <1>12. Len(past) <= Cardinality(Found) * b
    BY <1>1, <1>2, <1>8, <1>10, LengthBound
  <1>13. Cardinality(Found) * b <= Cardinality(Routers(mesh)) * b
    <2>1. \A x, y, z \in Nat : x <= y => x * z <= y * z
      OBVIOUS
    <2> QED
      BY <1>2, <1>10, <1>11, <2>1
  <1>14. Len(past) \in Nat /\ Cardinality(Found) * b \in Nat /\ Cardinality(Routers(mesh)) * b \in Nat
    BY <1>1, <1>2, <1>11
  <1> QED
    BY <1>2, <1>9, <1>12, <1>13, <1>14

\* Whoever is about to write into nodeList writes inside of it.
LEMMA RoomSuffices ==
    ASSUME Around, Nwk => Len(handled) <= Capacity, Dsr => nodeCount + Opened(calls) <= Capacity
    PROVE  nodeCount <= Capacity /\ \A t \in Thread : ~WritesOutside(t)
  <1>1. \A t \in Thread : WritesOutside(t) => pc[t] = "callback" /\ Slot(t) > Capacity
    BY DEF WritesOutside
  <1>2. Capacity \in Nat
    BY BoundsNatural
  <1>3. /\ nodeCount \in Nat /\ Stacks(mesh, calls)
        /\ \A t \in Thread : pc[t] = "callback" => calls[t] # <<>>
    BY AroundTypes DEF Around, ThreadsInv, Thread
  <1>4. CASE Nwk
    <2>1. /\ Entries(program, mesh, calls["app"], handled, nodeCount, nodeList)
          /\ pc["msg"] = "idle"
      BY <1>4 DEF Around, NwkInv, NwkEntries, NwkAlone
    <2>2. nodeCount <= Capacity /\ handled \in Seq(Routers(mesh)) /\ Len(handled) <= Capacity
      BY <1>2, <1>3, <1>4, <2>1 DEF Entries
    <2>3. ASSUME pc["app"] = "callback" PROVE ~(calls["app"][1].at > Capacity)
      <3>1. calls["app"] \in Seq(CallsOf(mesh)) /\ calls["app"] # <<>>
        BY <1>3, <2>3 DEF Stacks, Thread
      <3>2. 1 \in DOMAIN calls["app"]
        BY <3>1, Popped
      <3>3. calls["app"][1].at \in DOMAIN handled
        BY <2>1, <3>2 DEF Entries
      <3> QED
        BY <1>2, <2>2, <3>3
    <2> QED
      BY <1>1, <1>4, <2>1, <2>2, <2>3 DEF Slot, Thread, Nwk
  <1>5. CASE ~Nwk
    <2>2. nodeCount + Opened(calls) <= Capacity /\ Opened(calls) \in Nat
      BY <1>3, <1>5, ProgramsKnown, OpenNat DEF Around, Chosen, Nwk, Dsr
    <2>3. ASSUME NEW t \in Thread, pc[t] = "callback" PROVE Opened(calls) >= 1
      <3>1. calls[t] \in Seq(CallsOf(mesh)) /\ calls[t] # <<>>
        BY <1>3, <2>3 DEF Stacks
      <3>2. Len(calls[t]) \in Nat \ {0}
        BY <3>1, Popped
      <3>3. Len(calls["app"]) \in Nat /\ Len(calls["msg"]) \in Nat
        BY <1>3, OpenNat
      <3>4. \A a, b \in Nat : a \in Nat \ {0} \/ b \in Nat \ {0} => a + b >= 1
        OBVIOUS
      <3>5. Len(calls["app"]) \in Nat \ {0} \/ Len(calls["msg"]) \in Nat \ {0}
        BY <3>2 DEF Thread
      <3>6. Len(calls["app"]) + Len(calls["msg"]) >= 1
        BY <3>3, <3>4, <3>5, Zenon
      <3> QED
        BY <3>6, Zenon DEF Opened
    <2>4. nodeCount <= Capacity
      BY <1>2, <1>3, <2>2
    <2>5. ASSUME NEW t \in Thread, pc[t] = "callback" PROVE ~(nodeCount + 1 > Capacity)
      BY <1>2, <1>3, <2>2, <2>3, <2>5
    <2> QED
      BY <1>1, <1>5, <2>4, <2>5 DEF Slot, Nwk
  <1> QED
    BY <1>4, <1>5

\* The types of all variables are among what is known.
LEMMA TypesKnown ==
    ASSUME Around, SemInv, FlagInv, ListInv
    PROVE  TypeOK
  <1>1. nodeCount \in Nat
    BY DEF Around, ThreadsInv
  <1>2. /\ DOMAIN nodeList = 1..Capacity
        /\ \A i \in 1..Capacity : nodeList[i].type \in Types \ {"end"}
                                  /\ nodeList[i].children \in Seq(Child)
    <2>1. nodeList \in [1..Capacity -> EntryIn(mesh)]
      BY DEF ListInv
    <2>2. ChildOf(mesh) \subseteq Child
      <3> DEFINE A == UNION {{x.addr : x \in Neighbours(mesh, n)} : n \in Routers(mesh)}
                 R == UNION {Routers(m) : m \in Meshes}
                 B == UNION {{mesh[n].table[i].addr : i \in DOMAIN mesh[n].table} :
                                n \in Routers(mesh)}
      <3>1. ASSUME NEW a \in A PROVE a \in B
        <4>1. PICK n \in Routers(mesh) : a \in {x.addr : x \in Neighbours(mesh, n)}
          OBVIOUS
        <4>2. PICK x \in Neighbours(mesh, n) : a = x.addr
          BY <4>1
        <4>3. PICK i \in DOMAIN mesh[n].table : x = mesh[n].table[i]
          BY DEF Neighbours
        <4>4. a \in {mesh[n].table[j].addr : j \in DOMAIN mesh[n].table}
          BY <4>2, <4>3
        <4> QED
          BY <4>4
      <3>2. ChildOf(mesh) = [addr : A, type : Types]
        BY Zenon DEF ChildOf
      <3>3. Child = [addr : R \cup B, type : Types]
        BY Zenon DEF Child
      <3> HIDE DEF A, R, B
      <3> QED
        BY <3>1, <3>2, <3>3
    <2>3. Seq(ChildOf(mesh)) \subseteq Seq(Child)
      BY <2>2
    <2> QED
      BY <2>1, <2>3 DEF EntryIn, Types
  <1>3. /\ pc["app"] \in Places /\ pc["msg"] \in MsgPlaces
        /\ \A t \in Thread : pc[t] \in {"callback", "count"} => calls[t] # <<>>
    BY DEF Around, ThreadsInv, Thread
  <1>4. /\ \A t \in Thread : pc[t] = "send" <=> request[t] # NoRequest
        /\ held \in BOOLEAN
    BY DEF Around, WireInv
  <1>5. phase # "discover" \/ initDone => program = "dataSendRcv"
    BY ProgramsKnown DEF Around, Chosen, NwkInv, NwkAlone, FlagInv, Nwk
  <1>6. sender = {t \in Thread : pc[t] = "wait"} /\ srspSem \in 0..1
    <2>1. Occurrences(line, Srsp) \in Nat
      BY OccurrencesNat DEF Around, WireInv
    <2> QED
      BY <2>1 DEF SemInv
  <1>7. /\ rounds \in 0..MaxRounds /\ data \in 0..MaxData
        /\ slow \in 0..MaxSlow(program, mesh) /\ losses \in 0..MaxLoss(program, mesh)
    BY DEF Around, BoundInv
  <1> QED
    BY <1>1, <1>2, <1>3, <1>4, <1>5, <1>6, <1>7 DEF TypeOK

\* Every step keeps it ...
LEMMA DiscoveryKept == DiscoveryInv /\ [Next]_vars => DiscoveryInv'
  <1> HAVE DiscoveryInv /\ [Next]_vars
  <1>a. /\ Chosen /\ ThreadsInv /\ NwkInv /\ StackInv /\ WireInv /\ BoundInv /\ PhaseInv
        /\ Around /\ SemInv /\ FlagInv /\ ListInv /\ RoomInv
    BY DEF DiscoveryInv, Around
  <1>2. ThreadsInv' /\ NwkInv'
    BY <1>a, ThreadsKept, NwkAloneKept, NwkEntriesKept DEF NwkInv
  <1>3. StackInv' /\ BoundInv' /\ PhaseInv' /\ Chosen'
    BY <1>a, StackKept, BoundKept, PhaseKept, ChosenKept
  <1>4. WireInv'
    BY <1>a, WireKept
  <1>5. Around'
    BY <1>2, <1>3, <1>4 DEF Around
  <1>6. SemInv' /\ FlagInv' /\ ListInv'
    BY <1>a, SemKept, FlagKept, ListKept
  <1>7. RoomInv'
    BY <1>a, <1>5, RoomKept
  <1> QED
    BY <1>5, <1>6, <1>7 DEF DiscoveryInv

\* ... from the first state on.
LEMMA InitDiscovery == Init => DiscoveryInv
  BY InitRoom DEF DiscoveryInv

\* Each entry is counted when its callback returns.
LEMMA CountKept == Chosen /\ ThreadsInv /\ StackInv /\ CountInv /\ [Next]_vars => CountInv'
  <1> SUFFICES ASSUME Chosen, ThreadsInv, StackInv, CountInv, [Next]_vars, Dsr, alone' PROVE CountInv'
    BY ChosenKept DEF CountInv, Dsr
  <1> DEFINE s == calls["app"]
  <1>a. /\ pc \in [Thread -> Places \cup MsgPlaces] /\ nodeCount \in Nat
        /\ calls \in [Thread -> Seq(Call)] /\ s \in Seq(Call) /\ Len(s) \in Nat
        /\ program' = program /\ mesh' = mesh /\ "app" \in Thread /\ "msg" \in Thread
    BY ChosenKept DEF ThreadsInv, Thread
  <1>1. CASE Change
    <2>1. s = <<>> /\ Len(s) = 0
      BY <1>a, <1>1 DEF Change, StackInv, StackFits
    <2>2. /\ calls' = calls /\ calls'["msg"] = <<>> /\ nodeCount' = 0 /\ handled' = <<>>
          /\ pc'["app"] # "count"
      BY <1>a, <1>1 DEF Change, Goes
    <2>3. handled' \in Seq(Routers(mesh')) /\ nodeCount' + Len(calls'["app"]) <= Len(handled')
      BY <2>1, <2>2
    <2> QED
      BY <2>2, <2>3 DEF CountInv
  <1>2. ASSUME alone, calls' = calls, handled' = handled, nodeCount' \in {0, nodeCount},
               pc'["app"] = "count" => pc["app"] = "count" /\ nodeCount' = nodeCount
        PROVE  CountInv'
    <2>1. Len(handled) \in Nat
      BY <1>2 DEF CountInv
    <2> HIDE DEF s
    <2>2. nodeCount' + Len(s) <= Len(handled)
      BY <1>a, <1>2, <2>1 DEF CountInv, s
    <2>3. calls["msg"] = <<>> /\ handled \in Seq(Routers(mesh))
          /\ (pc'["app"] = "count" => s[1].at = nodeCount' + 1)
      BY <1>2 DEF CountInv, s
    <2>4. s = calls'["app"]
      BY <1>2 DEF s
    <2>5. handled' = handled /\ calls'["msg"] = <<>> /\ handled' \in Seq(Routers(mesh'))
      BY <1>a, <1>2, <2>3
    <2>6. /\ nodeCount' + Len(calls'["app"]) <= Len(handled')
          /\ pc'["app"] = "count" => calls'["app"][1].at = nodeCount' + 1
      BY <2>2, <2>3, <2>4, <2>5
    <2> QED
      BY <2>5, <2>6 DEF CountInv
  <1>3. CASE WireStep \/ UNCHANGED vars
    <2>1. UNCHANGED <<alone, calls, handled, nodeCount, pc>>
      BY <1>3 DEF WireStep, RxStep, RxPost, RxLinkSrsp, RxLinkAreq, OnlyRx, NodeAnswers, NodeSilent,
                  OnlyNetwork, vars, threadVars, listVars, historyVars
    <2> QED
      BY <1>2, <2>1
  <1>4. CASE OuterStep /\ ~Change
    <2>1. UNCHANGED <<alone, calls, handled>> /\ nodeCount' \in {0, nodeCount}
      BY <1>4 DEF OuterStep, SendData, Discover, LoopEnd, ShowNext, ShowEnds, DataSent, MsgWait,
                  listVars, historyVars
    <2>2. pc'["app"] # "count" \/ (pc' = pc /\ nodeCount' = nodeCount)
             \/ (pc'["app"] = pc["app"] /\ nodeCount' = nodeCount)
      BY <1>a, <1>4 DEF OuterStep, SendData, Discover, LoopEnd, ShowNext, ShowEnds, DataSent,
                        MsgWait, Ask, AskEndpoints, Goes, listVars
    <2> QED
      BY <1>2, <2>1, <2>2
  <1>5. CASE Step("msg")
    <2>1. alone /\ ~Fetch("msg")
      BY <1>5 DEF Step, Send, SrspGranted, SrspTimeout, Fetch, FetchTimeout, BeginEntry, PassOver,
                  ListChild, CountRead, CallbackReturns, historyVars
    <2>2. pc["msg"] \notin {"callback", "count", "send", "wait"}
      BY <2>1 DEF CountInv, ThreadsInv
    <2>3. FetchTimeout("msg")
      BY <1>5, <2>1, <2>2 DEF Step, Send, SrspGranted, SrspTimeout, BeginEntry, PassOver, ListChild,
                              AtNeighbour, CountRead, CallbackReturns
    <2> QED
      BY <1>a, <1>2, <2>1, <2>3 DEF FetchTimeout, Goes, listVars, historyVars
  <1>6. CASE Step("app")
    <2>a. alone
      BY <1>6 DEF Step, Send, SrspGranted, SrspTimeout, Fetch, FetchTimeout, BeginEntry, PassOver,
                  ListChild, CountRead, CallbackReturns, historyVars
    <2>1. /\ handled \in Seq(Routers(mesh)) /\ Len(handled) \in Nat
          /\ calls["msg"] = <<>> /\ nodeCount + Len(s) <= Len(handled)
          /\ pc["app"] = "count" => s[1].at = nodeCount + 1
      BY <2>a DEF CountInv
    <2>2. ASSUME NEW place, NEW stack, Moves("app", place, stack), handled' \in Seq(Routers(mesh)),
                 nodeCount' + Len(stack) <= Len(handled'),
                 place = "count" => stack[1].at = nodeCount' + 1
          PROVE  CountInv'
      BY <1>a, <2>1, <2>2 DEF CountInv, Moves, Thread
    <2>3. ASSUME handled' = handled, nodeCount' = nodeCount, NEW c \in Call, NEW place,
                 TopGoesOn("app", place, c), place = "count" => c.at = nodeCount + 1
          PROVE  CountInv'
      <3>1. Moves("app", place, [s EXCEPT ![1] = c]) /\ s # <<>>
        BY <2>3 DEF TopGoesOn
      <3>2. Len([s EXCEPT ![1] = c]) = Len(s) /\ [s EXCEPT ![1] = c][1] = c
        BY <1>a, <3>1, Replaced
      <3> HIDE DEF s
      <3> QED
        BY <2>1, <2>2, <2>3, <3>1, <3>2
    <2>4. CASE \/ Send("app") /\ MovesTo("app", "wait")
               \/ SrspGranted("app") /\ MovesTo("app", "fetch")
               \/ SrspTimeout("app") /\ MovesTo("app", After("app", "fetch"))
               \/ FetchTimeout("app") /\ MovesTo("app", After("app", pc["app"]))
               \/ /\ Fetch("app") /\ handled' = handled
                  /\ MovesTo("app", After("app", pc["app"]))
      <3>1. PICK place : MovesTo("app", place) /\ place # "count"
        BY <2>4 DEF After
      <3>2. handled' = handled /\ nodeCount' = nodeCount
        BY <2>4 DEF Send, SrspGranted, SrspTimeout, Fetch, FetchTimeout, listVars, historyVars
      <3> QED
        BY <2>1, <2>2, <3>1, <3>2 DEF MovesTo
    <2>5. CASE /\ Fetch("app") /\ handled' = Append(handled, Head(queue).from)
               /\ \E c \in Call : TopBegins("app", Head(queue).from, c)
      <3>1. PICK c \in Call : TopBegins("app", Head(queue).from, c)
        BY <2>5
      <3>2. /\ handled' \in Seq(Routers(mesh)) /\ Len(handled') = Len(handled) + 1
            /\ Moves("app", "callback", <<c>> \o s) /\ nodeCount' = nodeCount
        BY <2>1, <2>5, <3>1 DEF TopBegins, Fetch, listVars
      <3>3. Len(<<c>> \o s) = Len(s) + 1
        BY <1>a, Pushed
      <3> HIDE DEF s
      <3>4. nodeCount' + Len(<<c>> \o s) <= Len(handled')
        BY <1>a, <2>1, <3>2, <3>3
      <3> QED
        BY <2>2, <3>2, <3>4
    <2>6. CASE BeginEntry("app") \/ PassOver("app") \/ ListChild("app") \/ CountRead("app")
      <3>1. handled' = handled /\ nodeCount' = nodeCount
        BY <2>6 DEF BeginEntry, PassOver, ListChild, CountRead, listVars, historyVars, Dsr
      <3>2. \E c \in Call : \E place :
               TopGoesOn("app", place, c) /\ (place = "count" => c.at = nodeCount + 1)
        BY <1>a, <2>6, CallbackStack
      <3> QED
        BY <2>3, <3>1, <3>2
    <2>7. CASE CallbackReturns("app") /\ s # <<>> /\ Moves("app", s[1].back, Tail(s))
      <3>1. handled' = handled /\ nodeCount' = s[1].at /\ pc["app"] = "count"
        BY <2>7 DEF CallbackReturns, historyVars, Dsr
      <3>2. s[1] \in Call /\ Len(Tail(s)) = Len(s) - 1
        BY <1>a, <2>7, Popped
      <3>3. s[1].back # "count"
        BY <3>2 DEF Call, Returns
      <3> HIDE DEF s
      <3>4. nodeCount' + Len(Tail(s)) <= Len(handled')
        BY <1>a, <2>1, <3>1, <3>2
      <3> QED
        BY <2>1, <2>2, <2>7, <3>1, <3>3, <3>4
    <2>8. \/ Send("app") /\ MovesTo("app", "wait")
          \/ SrspGranted("app") /\ MovesTo("app", "fetch")
          \/ SrspTimeout("app") /\ MovesTo("app", After("app", "fetch"))
          \/ FetchTimeout("app") /\ MovesTo("app", After("app", pc["app"]))
          \/ /\ Fetch("app") /\ handled' = handled
             /\ MovesTo("app", After("app", pc["app"]))
          \/ /\ Fetch("app") /\ handled' = Append(handled, Head(queue).from)
             /\ \E c \in Call : TopBegins("app", Head(queue).from, c)
          \/ BeginEntry("app") \/ PassOver("app") \/ ListChild("app") \/ CountRead("app")
          \/ CallbackReturns("app") /\ s # <<>> /\ Moves("app", s[1].back, Tail(s))
      <3> HIDE DEF s
      <3>1. s = calls["app"]
        BY DEF s
      <3> QED
        BY <1>a, <1>6, <3>1, StepStack, Zenon
    <2> HIDE DEF s
    <2> QED
      BY <2>4, <2>5, <2>6, <2>7, <2>8, Zenon
  <1> QED
    BY <1>1, <1>3, <1>4, <1>5, <1>6, StepKinds DEF Thread

\* nodeList has room for what was handled alone, and on a tree for all.
LEMMA InsideAll == DiscoveryInv /\ CountInv => InsideNodeList
  <1> HAVE DiscoveryInv /\ CountInv
  <1>1. TypeOK /\ Around
    BY TypesKnown DEF DiscoveryInv
  <1>2. CASE RoomForHandled
    <2>1. Dsr => nodeCount + Opened(calls) <= Capacity
      <3>1. Len(handled) \in Nat \/ ~Dsr
        BY <1>2 DEF CountInv, RoomForHandled
      <3>2. nodeCount \in Nat /\ Capacity \in Nat /\ Len(calls["app"]) \in Nat
        BY <1>1, AroundTypes, BoundsNatural DEF Stacks, Thread
      <3>3. Dsr => /\ calls["msg"] = <<>>
                   /\ nodeCount + Len(calls["app"]) <= Len(handled) /\ Len(handled) <= Capacity
        BY <1>2 DEF CountInv, RoomForHandled
      <3>4. calls["msg"] = <<>> => Len(calls["msg"]) = 0
        OBVIOUS
      <3>5. Dsr => Opened(calls) = Len(calls["app"])
        <4> DEFINE a == Len(calls["app"])
                   m == Len(calls["msg"])
        <4>1. a \in Nat /\ (Dsr => m = 0)
          BY <3>2, <3>3, <3>4
        <4>2. Opened(calls) = a + m
          BY DEF Opened
        <4> HIDE DEF a, m
        <4>3. Dsr => Opened(calls) = a
          BY <4>1, <4>2
        <4> QED
          BY <4>3 DEF a
      <3> QED
        BY <3>1, <3>2, <3>3, <3>5
    <2> QED
      BY <1>1, <1>2, <2>1, RoomSuffices DEF InsideNodeList, RoomForHandled
  <1>3. CASE RoomForLateAnswers
    <2>1. PICK past : Room(past)
      BY <1>3 DEF DiscoveryInv, RoomInv, RoomForLateAnswers
    <2>2. Len(past) <= Capacity /\ Len(past) \in Nat /\ Capacity \in Nat
      BY <1>1, <1>3, <2>1, PastBound, BoundsNatural DEF Room
    <2>3. nodeCount + Opened(calls) \in Nat /\ (Nwk => Len(handled) \in Nat)
      BY <1>1, AroundTypes, OpenNat DEF Around, NwkInv, NwkEntries, Entries
    <2>4. /\ Nwk => Len(handled) <= Len(past)
          /\ Dsr => nodeCount + Opened(calls) <= Len(past)
      BY <2>1 DEF Room, Account, Dsr
    <2>5. (Nwk => Len(handled) <= Capacity) /\ (Dsr => nodeCount + Opened(calls) <= Capacity)
      BY <2>2, <2>3, <2>4
    <2> QED
      BY <1>1, <2>5, RoomSuffices DEF InsideNodeList
  <1> QED
    BY <1>1, <1>2, <1>3 DEF InsideNodeList

\* Neither program writes outside of nodeList before it has handled more responses than
\* nodeList has entries, and on a tree with room for all routers never.
THEOREM TopologyInsideNodeList == Spec => []InsideNodeList
  <1>1. Init => CountInv
    <2>1. <<>> \in Seq(Routers(mesh)) /\ 0 + Len(<<>>) <= Len(<<>>)
      OBVIOUS
    <2> QED
      BY <2>1 DEF Init, CountInv, Thread
  <1>2. DiscoveryInv /\ CountInv /\ [Next]_vars => CountInv'
    BY CountKept DEF DiscoveryInv, Around
  <1> QED
    BY <1>1, <1>2, InsideAll, DiscoveryKept, InitDiscovery, PTL DEF Spec

-----------------------------------------------------------------------------
(* dataSendRcv by itself: one thing is under way at a time.                *)

\* One more or one less element of a sequence.
LEMMA LqiAppend ==
    ASSUME NEW S, NEW s \in Seq(S), NEW x \in S
    PROVE  /\ NoLqi(s) /\ ~IsLqi(x) => NoLqi(Append(s, x))
           /\ NoLqi(s) => OneLqi(s) /\ OneLqi(Append(s, x))
           /\ OneLqi(s) /\ ~IsLqi(x) => OneLqi(Append(s, x))
           /\ SrspFirst(s) /\ (x # Srsp \/ NoLqi(s)) => SrspFirst(Append(s, x))
           /\ HasSrsp(Append(s, x)) => x = Srsp \/ HasSrsp(s)
  <1> DEFINE new == Append(s, x)
  <1>1. /\ DOMAIN s = 1..Len(s) /\ Len(s) \in Nat /\ DOMAIN new = 1..(Len(s) + 1)
        /\ \A i \in DOMAIN s : new[i] = s[i]
        /\ new[Len(s) + 1] = x
    OBVIOUS
  <1> HIDE DEF new
  <1>2. ~IsLqi(Srsp)
    BY DEF IsLqi, Srsp
  <1>3. \A i \in DOMAIN new : (i \in DOMAIN s /\ new[i] = s[i]) \/ (i = Len(s) + 1 /\ new[i] = x)
    BY <1>1
  <1>4. \A i \in DOMAIN s : i < Len(s) + 1
    BY <1>1
  <1>5. /\ NoLqi(s) /\ ~IsLqi(x) => NoLqi(new)
        /\ NoLqi(s) => OneLqi(s) /\ OneLqi(new)
        /\ OneLqi(s) /\ ~IsLqi(x) => OneLqi(new)
    BY <1>3 DEF NoLqi, OneLqi
  <1>6. HasSrsp(new) => x = Srsp \/ HasSrsp(s)
    BY <1>3 DEF HasSrsp
  <1>7. SrspFirst(s) /\ (x # Srsp \/ NoLqi(s)) => SrspFirst(new)
    <2> SUFFICES ASSUME SrspFirst(s), x # Srsp \/ NoLqi(s), NEW i \in DOMAIN new, NEW j \in DOMAIN new,
                        new[i] = Srsp, IsLqi(new[j])
                 PROVE  i < j
      BY DEF SrspFirst
    <2>1. CASE i \in DOMAIN s /\ j \in DOMAIN s
      BY <1>1, <2>1 DEF SrspFirst
    <2>2. CASE i \in DOMAIN s /\ j = Len(s) + 1
      BY <1>4, <2>2
    <2>3. CASE i = Len(s) + 1 /\ new[i] = x
      <3>1. j \in DOMAIN s /\ new[j] = s[j]
        BY <1>1, <1>2, <1>3, <2>3
      <3> QED
        BY <2>3, <3>1 DEF NoLqi
    <2> QED
      BY <1>3, <2>1, <2>2, <2>3
  <1> QED
    BY <1>5, <1>6, <1>7 DEF new

\* The first element goes.
LEMMA LqiTail ==
    ASSUME NEW S, NEW s \in Seq(S), s # <<>>
    PROVE  /\ NoLqi(s) => NoLqi(Tail(s)) /\ ~IsLqi(Head(s))
           /\ OneLqi(s) => OneLqi(Tail(s))
           /\ OneLqi(s) /\ IsLqi(Head(s)) => NoLqi(Tail(s))
           /\ SrspFirst(s) => SrspFirst(Tail(s))
           /\ SrspFirst(s) /\ IsLqi(Head(s)) => ~HasSrsp(s)
           /\ HasSrsp(Tail(s)) => HasSrsp(s)
           /\ Head(s) = Srsp => HasSrsp(s)
  <1> DEFINE new == Tail(s)
  <1>1. /\ 1 \in DOMAIN s /\ Head(s) = s[1] /\ \A i \in DOMAIN s : i \in Nat \ {0}
        /\ \A j \in DOMAIN new : new[j] = s[j + 1] /\ j + 1 \in DOMAIN s /\ j \in Nat /\ j + 1 # 1
    BY Popped
  <1>2. \A i, j \in DOMAIN new : i + 1 = j + 1 => i = j
    BY <1>1
  <1>3. \A i, j \in DOMAIN new : i + 1 < j + 1 => i < j
    BY <1>1
  <1> HIDE DEF new
  <1>4. /\ NoLqi(s) => NoLqi(new) /\ ~IsLqi(s[1])
        /\ HasSrsp(new) => HasSrsp(s)
        /\ s[1] = Srsp => HasSrsp(s)
    BY <1>1 DEF NoLqi, HasSrsp
  <1>5. /\ OneLqi(s) => OneLqi(new)
        /\ OneLqi(s) /\ IsLqi(s[1]) => NoLqi(new)
    BY <1>1, <1>2 DEF NoLqi, OneLqi
  <1>6. SrspFirst(s) => SrspFirst(new)
    BY <1>1, <1>3 DEF SrspFirst
  <1>7. SrspFirst(s) /\ IsLqi(s[1]) => ~HasSrsp(s)
    <2>1. \A i \in DOMAIN s : ~(i < 1)
      BY <1>1
    <2> QED
      BY <1>1, <2>1 DEF SrspFirst, HasSrsp
  <1> QED
    BY <1>1, <1>4, <1>5, <1>6, <1>7 DEF new

\* An SRSP is put in front.
LEMMA LqiCons ==
    ASSUME NEW S, NEW s \in Seq(S), Srsp \in S
    PROVE  /\ NoLqi(s) => NoLqi(<<Srsp>> \o s)
           /\ OneLqi(s) => OneLqi(<<Srsp>> \o s)
           /\ <<Srsp>> \o s # <<>> /\ Head(<<Srsp>> \o s) = Srsp
  <1> DEFINE new == <<Srsp>> \o s
  <1>1. /\ \A j \in DOMAIN s : new[j + 1] = s[j]
        /\ \A j \in DOMAIN new : j = 1 \/ j - 1 \in DOMAIN s
        /\ \A j \in DOMAIN new : j \in Nat /\ (j - 1) + 1 = j
        /\ new # <<>> /\ Head(new) = Srsp /\ new[1] = Srsp
    OBVIOUS
  <1> HIDE DEF new
  <1>2. ~IsLqi(new[1])
    BY <1>1 DEF IsLqi, Srsp
  <1>3. \A j \in DOMAIN new : IsLqi(new[j]) => j - 1 \in DOMAIN s /\ new[j] = s[j - 1]
    BY <1>1, <1>2
  <1>4. \A i, j \in DOMAIN new : i - 1 = j - 1 => i = j
    BY <1>1
  <1>5. NoLqi(s) => NoLqi(new)
    BY <1>3 DEF NoLqi
  <1>6. OneLqi(s) => OneLqi(new)
    BY <1>3, <1>4 DEF OneLqi
  <1> QED
    BY <1>1, <1>5, <1>6 DEF new

\* A question is asked, ...
LEMMA LqiAsked ==
    ASSUME NEW Q, NEW bag, BagOf(Q, bag), NEW x \in Q
    PROVE  /\ NoLqiAsked(bag) => OneLqiAsked(bag) /\ OneLqiAsked(bag (+) SetToBag({x}))
           /\ NoLqiAsked(bag) /\ ~IsLqi(x) => NoLqiAsked(bag (+) SetToBag({x}))
           /\ OneLqiAsked(bag) /\ ~IsLqi(x) => OneLqiAsked(bag (+) SetToBag({x}))
  <1> DEFINE new == bag (+) SetToBag({x})
  <1>1. BagOf(Q, new) /\ OneMore(bag, new, x)
    BY CopiesAdd
  <1> HIDE DEF new
  <1>2. /\ \A y : Copies(bag, y) \in Nat /\ (Copies(bag, y) # 0 <=> y \in DOMAIN bag)
        /\ \A y : Copies(new, y) \in Nat /\ (Copies(new, y) # 0 <=> y \in DOMAIN new)
    BY <1>1 DEF BagOf, Copies
  <1>3. \A y : y # x => Copies(new, y) = Copies(bag, y)
    BY <1>1, <1>2 DEF OneMore
  <1>4. Copies(new, x) = Copies(bag, x) + 1
    BY <1>1 DEF OneMore
  <1>5. \A y \in DOMAIN new : y = x \/ y \in DOMAIN bag
    BY <1>2, <1>3
  <1>6. NoLqiAsked(bag) => OneLqiAsked(bag)
    BY DEF NoLqiAsked, OneLqiAsked
  <1>7. NoLqiAsked(bag) /\ IsLqi(x) => Copies(new, x) = 1
    BY <1>2, <1>4 DEF NoLqiAsked
  <1>8. NoLqiAsked(bag) => OneLqiAsked(new)
    BY <1>5, <1>7 DEF NoLqiAsked, OneLqiAsked
  <1>9. NoLqiAsked(bag) /\ ~IsLqi(x) => NoLqiAsked(new)
    BY <1>5 DEF NoLqiAsked
  <1>10. OneLqiAsked(bag) /\ ~IsLqi(x) => OneLqiAsked(new)
    BY <1>3, <1>5 DEF OneLqiAsked
  <1> QED
    BY <1>6, <1>8, <1>9, <1>10 DEF new

\* ... or taken away.
LEMMA LqiTaken ==
    ASSUME NEW Q, NEW bag, BagOf(Q, bag), NEW x \in BagToSet(bag)
    PROVE  /\ NoLqiAsked(bag) => ~IsLqi(x) /\ NoLqiAsked(bag (-) SetToBag({x}))
           /\ OneLqiAsked(bag) => OneLqiAsked(bag (-) SetToBag({x}))
           /\ OneLqiAsked(bag) /\ IsLqi(x) => NoLqiAsked(bag (-) SetToBag({x}))
  <1> DEFINE new == bag (-) SetToBag({x})
  <1>1. BagOf(Q, new) /\ OneMore(new, bag, x)
    BY CopiesTaken
  <1> HIDE DEF new
  <1>2. /\ \A y : Copies(bag, y) \in Nat /\ (Copies(bag, y) # 0 <=> y \in DOMAIN bag)
        /\ \A y : Copies(new, y) \in Nat /\ (Copies(new, y) # 0 <=> y \in DOMAIN new)
        /\ x \in DOMAIN bag
    BY <1>1 DEF BagOf, Copies, BagToSet
  <1>3. \A y : y # x => Copies(new, y) = Copies(bag, y)
    BY <1>1, <1>2 DEF OneMore
  <1>4. Copies(bag, x) = Copies(new, x) + 1
    BY <1>1 DEF OneMore
  <1>5. \A y \in DOMAIN new : y \in DOMAIN bag
    BY <1>2, <1>3
  <1>6. NoLqiAsked(bag) => ~IsLqi(x) /\ NoLqiAsked(new)
    BY <1>2, <1>5 DEF NoLqiAsked
  <1>7. Copies(bag, x) = 1 => x \notin DOMAIN new
    BY <1>2, <1>4
  <1>8. OneLqiAsked(bag) => OneLqiAsked(new)
    BY <1>2, <1>3, <1>5, <1>7 DEF OneLqiAsked
  <1>9. OneLqiAsked(bag) /\ IsLqi(x) => NoLqiAsked(new)
    BY <1>2, <1>5, <1>7 DEF NoLqiAsked, OneLqiAsked
  <1> QED
    BY <1>6, <1>8, <1>9 DEF new

-----------------------------------------------------------------------------
(* What is left of a discovery when its message loop has ended.            *)

\* Between discoveries nobody is inside of a callback: threads are elsewhere.
LEMMA StillElsewhere ==
    ASSUME Around, Still, NEW t \in Thread, Step(t)
    PROVE  /\ calls' = calls /\ Still'
  <1>a. /\ pc[t] \notin {"callback", "count"}
        /\ ThreadsInv /\ request \in [Thread -> Requests(program, mesh) \cup {NoRequest}]
        /\ BagOf(Requests(program, mesh), asked)
        /\ line \in Seq(Messages(program, mesh)) /\ queue \in Seq(Messages(program, mesh))
        /\ Srsp \in Messages(program, mesh) /\ ~IsLqi(Srsp) /\ ~IsLqi(NoRequest)
    BY RequestForms DEF Around, ThreadsInv, WireInv, Still, Thread, IsLqi, Srsp, NoRequest
  <1>1. CASE Send(t)
    <2>1. /\ calls' = calls /\ queue' = queue /\ request' = [request EXCEPT ![t] = NoRequest]
          /\ line' \in {line, Append(line, Srsp)}
          /\ asked' \in {asked, asked (+) SetToBag({request[t]})}
      BY <1>1 DEF Send
    <2>2. request[t] \in Requests(program, mesh) /\ ~IsLqi(request[t])
      BY <1>a, <1>1 DEF Send, Around, WireInv, Still
    <2>3. NoLqiAsked(asked')
      BY <1>a, <2>1, <2>2, LqiAsked DEF Still
    <2>5. NoLqi(line')
      <3>1. NoLqi(Append(line, Srsp))
        BY <1>a, LqiAppend DEF Still
      <3> QED
        BY <2>1, <3>1 DEF Still
    <2>4. \A u \in Thread : ~IsLqi(request'[u])
      BY <1>a, <2>1 DEF Still
    <2> QED
      BY <2>1, <2>3, <2>4, <2>5 DEF Still
  <1>2. CASE SrspGranted(t) \/ SrspTimeout(t) \/ FetchTimeout(t)
    BY <1>2 DEF SrspGranted, SrspTimeout, FetchTimeout, Still, wireVars, rpcVars
  <1>3. CASE Fetch(t)
    <2>1. queue # <<>> /\ queue' = Tail(queue) /\ Handle(t, Head(queue), After(t, pc[t]))
          /\ UNCHANGED <<request, asked, line>>
      BY <1>3 DEF Fetch, wireVars
    <2>2. NoLqi(queue') /\ ~IsLqi(Head(queue))
      BY <1>a, <2>1, LqiTail DEF Still
    <2>3. calls' = calls
      BY <2>1, <2>2 DEF Handle, Succeeds, IsLqi
    <2> QED
      BY <2>1, <2>2, <2>3 DEF Still
  <1>4. ~BeginEntry(t) /\ ~PassOver(t) /\ ~ListChild(t) /\ ~CountRead(t) /\ ~CallbackReturns(t)
    BY <1>a DEF BeginEntry, PassOver, ListChild, AtNeighbour, CountRead, CallbackReturns, Around,
                NwkInv, NwkEntries, Shape
  <1> QED
    BY <1>1, <1>2, <1>3, <1>4 DEF Step

\* The receive thread and the network do not add to it.
LEMMA StillWire == ASSUME Around, Still, WireStep PROVE Still'
  <1>a. /\ BagOf(Requests(program, mesh), asked)
        /\ line \in Seq(Messages(program, mesh)) /\ queue \in Seq(Messages(program, mesh))
        /\ Srsp \in Messages(program, mesh)
    BY RequestForms DEF Around, WireInv
  <1>1. calls' = calls /\ request' = request
    BY DEF WireStep, RxStep, RxPost, RxLinkSrsp, RxLinkAreq, OnlyRx, NodeAnswers, NodeSilent,
           OnlyNetwork, threadVars
  <1>2. NoLqiAsked(asked') /\ NoLqi(line') /\ NoLqi(queue')
    <2>1. CASE RxPost
      BY <1>a, <2>1, LqiTail DEF RxPost, OnlyRx, Still
    <2>2. CASE RxLinkSrsp
      BY <1>a, <2>2, LqiCons DEF RxLinkSrsp, OnlyRx, Still
    <2>3. CASE RxLinkAreq
      <3>1. line # <<>> /\ line' = Tail(line) /\ queue' = Append(queue, Head(line)) /\ asked' = asked
        BY <2>3 DEF RxLinkAreq, OnlyRx
      <3>2. Head(line) \in Messages(program, mesh) /\ ~IsLqi(Head(line)) /\ NoLqi(Tail(line))
        BY <1>a, <3>1, LqiTail DEF Still
      <3> QED
        BY <1>a, <3>1, <3>2, LqiAppend DEF Still
    <2>4. CASE NodeAnswers \/ NodeSilent
      <3>1. PICK x \in BagToSet(asked) :
               /\ asked' = asked (-) SetToBag({x}) /\ queue' = queue
               /\ line' \in {line, Append(line, [kind |-> x.kind, from |-> x.to])}
        BY <2>4 DEF NodeAnswers, NodeSilent, OnlyNetwork, rpcVars
      <3>2. x \in Requests(program, mesh)
        BY <1>a, <3>1, CopiesTaken
      <3>3. [kind |-> x.kind, from |-> x.to] \in Messages(program, mesh)
        BY <3>2, RequestForms
      <3>4. NoLqiAsked(asked') /\ ~IsLqi(x)
        BY <1>a, <3>1, LqiTaken DEF Still
      <3>5. ~IsLqi([kind |-> x.kind, from |-> x.to])
        BY <3>4 DEF IsLqi
      <3>6. NoLqi(line')
        BY <1>a, <3>1, <3>3, <3>5, LqiAppend DEF Still
      <3> QED
        BY <3>1, <3>4, <3>6 DEF Still
    <2> QED
      BY <2>1, <2>2, <2>3, <2>4 DEF WireStep, RxStep
  <1> QED
    BY <1>1, <1>2 DEF Still

\* A step that leaves a discovery ends it, and other steps outside begin none.
LEMMA StillOuter == ASSUME Around, StillInv, OuterStep, Dsr, slow' = 0, Calm' PROVE Still'
  <1>a. /\ pc \in [Thread -> Places \cup MsgPlaces] /\ slow \in Nat /\ DOMAIN request = Thread
        /\ \A t \in Thread : pc[t] = "send" <=> request[t] # NoRequest
        /\ ~IsLqi(NoRequest) /\ program = "dataSendRcv"
    BY AroundTypes DEF IsLqi, NoRequest, Dsr
  <1>1. UNCHANGED <<calls, line, queue, asked>>
    BY DEF OuterStep, Change, SendData, Discover, LoopEnd, ShowNext, ShowEnds, DataSent, MsgWait,
           wireVars, rpcVars
  <1>2. slow = 0
    BY <1>a DEF OuterStep, Change, SendData, Discover, LoopEnd, ShowNext, ShowEnds, DataSent,
                MsgWait, boundVars
  <1>3. CASE LoopEnd /\ ~Calm
    <2>1. Quiet /\ queue = <<>> /\ request' = request /\ pc["app"] = "loop"
      BY <1>a, <1>2, <1>3 DEF LoopEnd
    <2>2. calls["app"] = <<>> /\ calls["msg"] = <<>> /\ pc["msg"] # "send"
      BY <2>1 DEF Quiet, Around, StackInv, StackFits, ThreadsInv, Thread
    <2>3. \A t \in Thread : ~IsLqi(request[t])
      BY <1>a, <2>1, <2>2 DEF Thread
    <2>4. NoLqi(<<>>) /\ NoLqiAsked(EmptyBag)
      BY DEF NoLqi, NoLqiAsked, EmptyBag, SetToBag
    <2> QED
      BY <1>1, <2>1, <2>2, <2>3, <2>4 DEF Still, Quiet
  <1>4. CASE Calm
    <2>1. Still
      BY <1>2, <1>4 DEF StillInv
    <2>2. ~Discover
      <3> SUFFICES ASSUME Discover PROVE FALSE
        OBVIOUS
      <3>1. phase' = "discover" /\ pc' = [pc EXCEPT !["app"] = "send"]
        BY DEF Discover, Ask, Goes
      <3>2. pc'["app"] = "send"
        BY <1>a, <3>1 DEF Thread
      <3> QED
        BY <3>1, <3>2 DEF Calm
    <2>3. \A t \in Thread : ~IsLqi(request'[t])
      <3>1. \/ request' = request
            \/ \E x : request' = [request EXCEPT !["app"] = x] /\ ~IsLqi(x)
        <4>1. CASE SendData
          <5>1. request' = [request EXCEPT !["app"] = [kind |-> "data", to |-> Coordinator]]
            BY <4>1 DEF SendData, Ask
          <5>2. ~IsLqi([kind |-> "data", to |-> Coordinator])
            BY DEF IsLqi
          <5> QED
            BY <5>1, <5>2
        <4>2. CASE ShowNext
          <5>1. \/ request' = request
                \/ \E a : request' = [request EXCEPT !["app"] = [kind |-> "ep", to |-> a]]
            BY <4>2 DEF ShowNext, Ask, AskEndpoints
          <5>2. \A a : ~IsLqi([kind |-> "ep", to |-> a])
            BY DEF IsLqi
          <5> QED
            BY <5>1, <5>2
        <4>3. CASE Change \/ LoopEnd \/ ShowEnds \/ DataSent \/ MsgWait
          BY <4>3 DEF Change, LoopEnd, ShowEnds, DataSent, MsgWait
        <4> QED
          BY <2>2, <4>1, <4>2, <4>3 DEF OuterStep
      <3> QED
        BY <1>a, <2>1, <3>1 DEF Still
    <2> QED
      BY <1>1, <2>1, <2>3 DEF Still
  <1>5. ~LoopEnd => Calm
    BY <1>a DEF OuterStep, Change, SendData, Discover, ShowNext, ShowEnds, DataSent, MsgWait,
                Calm, Around, PhaseInv, Goes, appVars, Thread
  <1> QED
    BY <1>3, <1>4, <1>5

\* The steps inside of a discovery leave alone what belongs to its ends.
LEMMA Inside ==
    WireStep \/ (\E t \in Thread : Step(t)) \/ UNCHANGED vars =>
        UNCHANGED <<program, mesh, phase, slow, rounds>>
  <1>1. CASE WireStep \/ UNCHANGED vars
    BY <1>1 DEF WireStep, RxStep, RxPost, RxLinkSrsp, RxLinkAreq, OnlyRx, NodeAnswers, NodeSilent,
                OnlyNetwork, vars, choice, appVars, boundVars
  <1>2. ASSUME NEW t \in Thread, Step(t) PROVE UNCHANGED <<program, mesh, phase, slow, rounds>>
    BY <1>2 DEF Step, Send, SrspGranted, SrspTimeout, Fetch, FetchTimeout, BeginEntry, PassOver,
                ListChild, CountRead, CallbackReturns, choice, appVars, boundVars
  <1> QED
    BY <1>1, <1>2

\* A step inside of a round neither begins nor ends at the console.
LEMMA AppInside ==
    ASSUME Around, Step("app")
    PROVE  pc["app"] \notin {"console", "display"} /\ pc'["app"] \notin {"console", "display"}
  <1>a. /\ pc \in [Thread -> Places \cup MsgPlaces] /\ calls \in [Thread -> Seq(Call)]
        /\ StackInv /\ ThreadsInv /\ "app" \in Thread
    BY DEF Around, ThreadsInv, Thread
  <1>1. \A place, stack : Moves("app", place, stack) => pc'["app"] = place
    BY <1>a DEF Moves, Thread
  <1>2. \A place : place \in {"wait", "fetch", After("app", "fetch"), After("app", pc["app"])}
                      => place \notin {"console", "display"}
    BY DEF After
  <1>3. calls["app"] # <<>> => calls["app"][1].back \in Returns
    <2>1. calls["app"] # <<>> => calls["app"][1] \in Call
      BY <1>a, Popped DEF Thread
    <2> QED
      BY <2>1 DEF Call
  <1>4. pc'["app"] \notin {"console", "display"}
    BY <1>a, <1>1, <1>2, <1>3, StepMoves DEF MovesTo, TopBegins, TopGoesOn, Returns
  <1>5. pc["app"] \notin {"console", "display"}
    BY DEF Step, Send, SrspGranted, SrspTimeout, Fetch, FetchTimeout, BeginEntry, PassOver,
           ListChild, AtNeighbour, CountRead, CallbackReturns
  <1> QED
    BY <1>4, <1>5

\* A step of a thread or of the network does not leave a discovery.
LEMMA CalmBefore ==
    ASSUME Around, WireStep \/ (\E t \in Thread : Step(t)) \/ UNCHANGED vars, Dsr, Calm'
    PROVE  Calm
  <1>a. /\ pc \in [Thread -> Places \cup MsgPlaces] /\ calls \in [Thread -> Seq(Call)]
        /\ PhaseInv /\ StackInv /\ ThreadsInv
    BY DEF Around, ThreadsInv
  <1>1. phase' = phase
    BY Inside
  <1>2. CASE WireStep \/ UNCHANGED vars
    <2>1. pc' = pc
      BY <1>2 DEF WireStep, RxStep, RxPost, RxLinkSrsp, RxLinkAreq, OnlyRx, NodeAnswers, NodeSilent,
           OnlyNetwork, vars, threadVars
    <2> QED
      BY <1>1, <2>1 DEF Calm
  <1>3. ASSUME NEW t \in Thread, Step(t) PROVE Calm
    <2> SUFFICES ASSUME phase = "discover", pc'["app"] \in {"console", "display"}
                 PROVE  pc["app"] \in {"console", "display"}
      BY <1>1 DEF Calm
    <2>1. t = "app" => pc'["app"] \notin {"console", "display"}
      BY <1>3, AppInside
    <2>2. t = "msg" => pc'["app"] = pc["app"]
      <3> SUFFICES ASSUME t = "msg" PROVE pc'["app"] = pc["app"]
        OBVIOUS
      <3>1. \A place, stack : Moves("msg", place, stack) => pc'["app"] = pc["app"]
        BY <1>a DEF Moves, Thread
      <3> QED
        BY <1>a, <1>3, <3>1, StepMoves DEF MovesTo, TopBegins, TopGoesOn
    <2> QED
      BY <2>1, <2>2 DEF Thread
  <1> QED
    BY <1>2, <1>3

\* Nothing is left where no loop ended early.
LEMMA StillKept == Around /\ StillInv /\ [Next]_vars => StillInv'
  <1> HAVE Around /\ StillInv /\ [Next]_vars
  <1>a. program' = program
    BY ChosenKept DEF Around
  <1> SUFFICES ASSUME Dsr, slow' = 0, Calm' PROVE Still'
    BY <1>a DEF StillInv, Dsr
  <1>1. CASE OuterStep
    BY <1>1, StillOuter
  <1>2. CASE WireStep \/ (\E t \in Thread : Step(t)) \/ UNCHANGED vars
    <2>1. Calm
      BY <1>2, CalmBefore
    <2>2. slow' = slow
      BY <1>2, Inside
    <2>3. Still
      BY <2>1, <2>2 DEF StillInv
    <2>4. CASE UNCHANGED vars
      BY <2>3, <2>4 DEF vars, threadVars, wireVars, rpcVars, Still
    <2> QED
      BY <1>2, <2>3, <2>4, StillWire, StillElsewhere
  <1> QED
    BY <1>1, <1>2, StepKinds

-----------------------------------------------------------------------------
(* One thing at a time.                                                    *)

\* Alone means that it has been since the discovery began.
LEMMA LoneBefore ==
    ASSUME Around, [Next]_vars, Lone'
    PROVE  /\ Dsr /\ ~Forks /\ slow = 0 /\ (Lone \/ Change)
           /\ program' = program /\ mesh' = mesh
  <1>a. program' = program /\ mesh' = mesh /\ slow \in Nat
    BY ChosenKept, AroundTypes DEF Around
  <1>b. Forks' = Forks
    BY <1>a DEF Forks
  <1>1. slow' = 0 => slow = 0
    <2>1. slow' = slow \/ slow' = slow + 1
      <3>1. CASE OuterStep
        BY <3>1 DEF OuterStep, Change, SendData, Discover, LoopEnd, ShowNext, ShowEnds, DataSent,
                    MsgWait, boundVars
      <3> QED
        BY <3>1, Inside, StepKinds
    <2> QED
      BY <1>a, <2>1
  <1>2. alone' => alone \/ Change
    <2>1. CASE WireStep \/ UNCHANGED vars
      BY <2>1 DEF WireStep, RxStep, RxPost, RxLinkSrsp, RxLinkAreq, OnlyRx, NodeAnswers, NodeSilent,
                  OnlyNetwork, vars, historyVars
    <2>2. CASE OuterStep
      BY <2>2 DEF OuterStep, Change, SendData, Discover, LoopEnd, ShowNext, ShowEnds, DataSent,
                  MsgWait, historyVars
    <2>3. ASSUME NEW t \in Thread, Step(t), alone' PROVE alone
      BY <2>3 DEF Step, Send, SrspGranted, SrspTimeout, Fetch, FetchTimeout, BeginEntry, PassOver,
                  ListChild, CountRead, CallbackReturns, historyVars
    <2> QED
      BY <2>1, <2>2, <2>3, StepKinds
  <1> QED
    BY <1>a, <1>b, <1>1, <1>2 DEF Lone, Dsr

\* What is known while it is alone.
LEMMA LoneFacts ==
    ASSUME Around, SemInv, calls["msg"] = <<>>
    PROVE  /\ pc["msg"] \in {"idle", "poll"}
           /\ pc["app"] # "wait" => srspSem = 0 /\ ~HasSrsp(line)
           /\ pc \in [Thread -> Places \cup MsgPlaces] /\ calls \in [Thread -> Seq(Call)]
           /\ request \in [Thread -> Requests(program, mesh) \cup {NoRequest}]
           /\ \A t \in Thread : pc[t] = "send" <=> request[t] # NoRequest
           /\ BagOf(Requests(program, mesh), asked)
           /\ line \in Seq(Messages(program, mesh)) /\ queue \in Seq(Messages(program, mesh))
           /\ Srsp \in Messages(program, mesh) /\ ~IsLqi(Srsp) /\ ~IsLqi(NoRequest)
           /\ \A r : IsLqi([kind |-> "lqi", to |-> r])
           /\ held \in BOOLEAN /\ srspSem \in Nat
  <1>1. /\ pc \in [Thread -> Places \cup MsgPlaces] /\ calls \in [Thread -> Seq(Call)]
        /\ pc["msg"] \in {"idle", "poll"}
    BY DEF Around, ThreadsInv, MsgPlaces
  <1>2. /\ request \in [Thread -> Requests(program, mesh) \cup {NoRequest}]
        /\ \A t \in Thread : pc[t] = "send" <=> request[t] # NoRequest
        /\ BagOf(Requests(program, mesh), asked)
        /\ line \in Seq(Messages(program, mesh)) /\ queue \in Seq(Messages(program, mesh))
        /\ Srsp \in Messages(program, mesh) /\ held \in BOOLEAN
    BY RequestForms DEF Around, WireInv
  <1>3. ASSUME pc["app"] # "wait" PROVE srspSem = 0 /\ ~HasSrsp(line)
    <2>1. sender = {}
      BY <1>1, <1>3 DEF SemInv, Thread
    <2>2. srspSem = 0 /\ Occurrences(line, Srsp) = 0
      BY <2>1 DEF SemInv
    <2>3. \A i \in DOMAIN line : line[i] = Srsp => Occurrences(line, Srsp) > 0
      BY <1>2, OccurrencesNat
    <2>4. ~(0 > 0)
      OBVIOUS
    <2> QED
      BY <2>2, <2>3, <2>4 DEF HasSrsp
  <1>4. ~IsLqi(Srsp) /\ ~IsLqi(NoRequest) /\ \A r : IsLqi([kind |-> "lqi", to |-> r])
    BY DEF IsLqi, Srsp, NoRequest
  <1>5. srspSem \in Nat
    BY DEF SemInv
  <1> QED
    BY <1>1, <1>2, <1>3, <1>4, <1>5

\* Where nothing is left of a discovery, all is in turn.
LEMMA FlowStill ==
    ASSUME Around, SemInv, Still, pc["app"] \in {"console", "display"}
    PROVE  TokenAt("nowhere") /\ SrspFirst(line) /\ srspSem = 0 /\ NoLqi(queue) /\ NoLqi(line)
           /\ calls["msg"] = <<>>
  <1>1. calls["app"] = <<>> /\ calls["msg"] = <<>> /\ srspSem = 0
    BY LoneFacts DEF Still
  <1>2. TokenAt("nowhere")
    BY <1>1 DEF TokenAt, Still, Thread
  <1>3. SrspFirst(line)
    BY DEF SrspFirst, Still, NoLqi
  <1> QED
    BY <1>1, <1>2, <1>3 DEF Still

\* A discovery begins.
LEMMA FlowChange == ASSUME Around, SemInv, StillInv, Dsr, slow = 0, Change, alone' PROVE Flow'
  <1>1. pc["app"] = "console" /\ Calm
    BY DEF Change, Calm
  <1>2. Still
    BY <1>1 DEF StillInv
  <1>3. /\ TokenAt("nowhere") /\ SrspFirst(line) /\ srspSem = 0 /\ NoLqi(queue)
        /\ calls["msg"] = <<>>
    BY <1>1, <1>2, FlowStill
  <1>4. UNCHANGED <<program, mesh, calls, request, asked, line, queue, held, srspSem, phase>>
    BY DEF Change, choice, rpcVars, wireVars
  <1>5. pc'["app"] = "display"
    BY <1>3, LoneFacts DEF Change, Goes, Thread
  <1>6. TokenAt("nowhere")'
    BY <1>3, <1>4 DEF TokenAt, Ahead
  <1>7. InTurn'
    BY <1>3, <1>4, <1>5 DEF InTurn
  <1> QED
    BY <1>3, <1>4, <1>6, <1>7 DEF Flow, Whereabouts

\* The receive thread and the network take what there is along.
LEMMA FlowWire ==
    ASSUME Around, SemInv, Flow, WireStep, program' = program, mesh' = mesh
    PROVE  Flow'
  <1>a. /\ calls["msg"] = <<>> /\ InTurn
        /\ BagOf(Requests(program, mesh), asked)
        /\ line \in Seq(Messages(program, mesh)) /\ queue \in Seq(Messages(program, mesh))
        /\ Srsp \in Messages(program, mesh)
    BY LoneFacts DEF Flow
  <1>b. PICK where \in Whereabouts : TokenAt(where)
    BY DEF Flow
  <1>1. calls' = calls /\ request' = request /\ pc' = pc /\ phase' = phase
    BY DEF WireStep, RxStep, RxPost, RxLinkSrsp, RxLinkAreq, OnlyRx, NodeAnswers, NodeSilent,
           OnlyNetwork, threadVars, appVars
  <1>2. \A j \in DOMAIN calls["app"] : Ahead(calls["app"][j])' = Ahead(calls["app"][j])
    BY <1>1 DEF Ahead
  <1>3. CASE RxPost
    <2>1. line # <<>> /\ Head(line) = Srsp /\ line' = Tail(line) /\ held'
          /\ UNCHANGED <<asked, queue>>
      BY <1>3 DEF RxPost, OnlyRx
    <2>2. /\ NoLqi(queue) /\ SrspFirst(line') /\ (OneLqi(line) => OneLqi(line'))
          /\ (NoLqi(line) => NoLqi(line'))
      BY <1>a, <2>1, LqiTail DEF InTurn
    <2>3. TokenAt(where)'
      BY <1>b, <1>1, <1>2, <2>1, <2>2 DEF TokenAt
    <2>4. InTurn'
      BY <1>a, <1>1, <2>1, <2>2 DEF InTurn
    <2> QED
      BY <1>a, <1>1, <2>3, <2>4 DEF Flow
  <1>4. CASE RxLinkSrsp
    <2>1. held /\ queue' = <<Srsp>> \o queue /\ UNCHANGED <<asked, line>>
      BY <1>4 DEF RxLinkSrsp, OnlyRx
    <2>2. /\ NoLqi(queue) => NoLqi(queue')
          /\ OneLqi(queue) => OneLqi(queue')
          /\ queue' # <<>> /\ Head(queue') = Srsp
      BY <1>a, <2>1, LqiCons
    <2>3. TokenAt(where)'
      BY <1>b, <1>1, <1>2, <2>1, <2>2 DEF TokenAt
    <2>4. InTurn'
      BY <1>a, <1>1, <2>1, <2>2 DEF InTurn
    <2> QED
      BY <1>a, <1>1, <2>3, <2>4 DEF Flow
  <1>5. CASE RxLinkAreq
    <2> DEFINE f == Head(line)
    <2>1. /\ ~held /\ held' = held /\ line # <<>> /\ line' = Tail(line) /\ queue' = Append(queue, f)
          /\ asked' = asked /\ srspSem' = srspSem
      BY <1>5 DEF RxLinkAreq, OnlyRx
    <2>2. f \in Messages(program, mesh)
      BY <1>a, <2>1
    <2> HIDE DEF f
    <2>3. /\ SrspFirst(line') /\ (HasSrsp(line') => HasSrsp(line) /\ ~IsLqi(f))
          /\ NoLqi(line) => NoLqi(line') /\ ~IsLqi(f)
          /\ OneLqi(line) => OneLqi(line')
          /\ OneLqi(line) /\ IsLqi(f) => NoLqi(line')
      BY <1>a, <2>1, LqiTail DEF InTurn, f
    <2>4. /\ NoLqi(queue) /\ ~IsLqi(f) => NoLqi(queue')
          /\ NoLqi(queue) => OneLqi(queue')
          /\ OneLqi(queue) /\ ~IsLqi(f) => OneLqi(queue')
          /\ queue # <<>> => queue' # <<>> /\ Head(queue') = Head(queue)
      <3>1. queue # <<>> => Append(queue, f) # <<>> /\ Head(Append(queue, f)) = Head(queue)
        BY <1>a, <2>2
      <3> QED
        BY <1>a, <2>1, <2>2, <3>1, LqiAppend
    <2>5. CASE IsLqi(f)
      <3>1. where = "line"
        BY <1>b, <2>3, <2>5 DEF TokenAt
      <3>2. TokenAt("queue")'
        BY <1>b, <1>1, <1>2, <2>1, <2>3, <2>4, <2>5, <3>1 DEF TokenAt
      <3> QED
        BY <1>a, <1>1, <2>1, <2>3, <2>4, <2>5, <3>2 DEF Flow, InTurn, Whereabouts
    <2>6. CASE ~IsLqi(f)
      <3>1. TokenAt(where)'
        BY <1>b, <1>1, <1>2, <2>1, <2>3, <2>4, <2>6 DEF TokenAt
      <3> QED
        BY <1>a, <1>1, <2>1, <2>3, <2>4, <2>6, <3>1 DEF Flow, InTurn
    <2> QED
      BY <2>5, <2>6
  <1>6. CASE NodeAnswers \/ NodeSilent
    <2>1. PICK x \in BagToSet(asked) :
             /\ asked' = asked (-) SetToBag({x})
             /\ \/ line' = line
                \/ line' = Append(line, [kind |-> x.kind, from |-> x.to])
      BY <1>6 DEF NodeAnswers, NodeSilent, OnlyNetwork
    <2> DEFINE f == [kind |-> x.kind, from |-> x.to]
    <2>2. UNCHANGED <<queue, held, srspSem>>
      BY <1>6 DEF NodeAnswers, NodeSilent, OnlyNetwork, rpcVars
    <2>3. x \in Requests(program, mesh)
      BY <1>a, <2>1, CopiesTaken
    <2>4. f \in Messages(program, mesh) /\ f # Srsp /\ (IsLqi(f) <=> IsLqi(x))
      BY <2>3, RequestForms DEF IsLqi
    <2> HIDE DEF f
    <2>5. /\ NoLqiAsked(asked) => ~IsLqi(x) /\ NoLqiAsked(asked')
          /\ OneLqiAsked(asked) => OneLqiAsked(asked')
          /\ OneLqiAsked(asked) /\ IsLqi(x) => NoLqiAsked(asked')
      BY <1>a, <2>1, LqiTaken
    <2>6. /\ NoLqi(line) /\ ~IsLqi(f) => NoLqi(Append(line, f))
          /\ NoLqi(line) => OneLqi(Append(line, f))
          /\ OneLqi(line) /\ ~IsLqi(f) => OneLqi(Append(line, f))
          /\ SrspFirst(line) => SrspFirst(Append(line, f))
          /\ HasSrsp(Append(line, f)) => HasSrsp(line)
      BY <1>a, <2>4, LqiAppend
    <2>7. line' \in {line, Append(line, f)}
      BY <2>1 DEF f
    <2>8. InTurn'
      BY <1>a, <1>1, <2>2, <2>6, <2>7 DEF InTurn
    <2>9. CASE IsLqi(x) /\ line' = Append(line, f)
      <3>1. where = "asked"
        BY <1>b, <2>5, <2>9 DEF TokenAt
      <3>2. TokenAt("line")'
        BY <1>b, <1>1, <1>2, <2>2, <2>4, <2>5, <2>6, <2>9, <3>1 DEF TokenAt
      <3> QED
        BY <1>a, <1>1, <2>8, <3>2 DEF Flow, Whereabouts
    <2>10. CASE ~IsLqi(x) \/ line' = line
      <3>1. /\ NoLqi(line) => NoLqi(line')
            /\ OneLqi(line) => OneLqi(line')
        BY <2>4, <2>6, <2>7, <2>10
      <3>2. TokenAt(where)'
        BY <1>b, <1>1, <1>2, <2>2, <2>5, <3>1 DEF TokenAt
      <3> QED
        BY <1>a, <1>1, <2>8, <3>2 DEF Flow
    <2> QED
      BY <2>7, <2>9, <2>10
  <1> QED
    BY <1>3, <1>4, <1>5, <1>6 DEF WireStep, RxStep

\* Between discoveries and at their ends nothing is under way.
LEMMA FlowOuter ==
    ASSUME Around, SemInv, StillInv, Flow, Dsr, slow = 0, OuterStep, program' = program,
           mesh' = mesh
    PROVE  Flow'
  <1>a. /\ calls["msg"] = <<>> /\ InTurn /\ pc["msg"] \in {"idle", "poll"}
        /\ pc \in [Thread -> Places \cup MsgPlaces]
        /\ request \in [Thread -> Requests(program, mesh) \cup {NoRequest}]
        /\ \A r : IsLqi([kind |-> "lqi", to |-> r])
    BY LoneFacts DEF Flow
  <1>b. PICK where \in Whereabouts : TokenAt(where)
    BY DEF Flow
  <1>1. UNCHANGED <<calls, line, queue, asked, held, srspSem>>
    BY DEF OuterStep, Change, SendData, Discover, LoopEnd, ShowNext, ShowEnds, DataSent, MsgWait,
           wireVars, rpcVars
  <1>2. \A j \in DOMAIN calls["app"] : Ahead(calls["app"][j])' = Ahead(calls["app"][j])
    BY <1>1 DEF Ahead
  <1>3. ASSUME UNCHANGED request, pc'["app"] \notin {"send", "fetch"} PROVE Flow'
    <2>1. TokenAt(where)'
      BY <1>b, <1>1, <1>2, <1>3 DEF TokenAt
    <2>2. InTurn'
      <3>1. srspSem = 0 \/ pc["app"] = "wait"
        BY <1>a, LoneFacts
      <3> QED
        BY <1>a, <1>1, <1>3, <3>1 DEF InTurn
    <2> QED
      BY <1>a, <1>1, <2>1, <2>2 DEF Flow
  <1>4. CASE Change \/ LoopEnd \/ ShowEnds \/ DataSent
    <2>1. UNCHANGED request
      BY <1>4 DEF Change, LoopEnd, ShowEnds, DataSent
    <2>2. \E place \in {"display", "console", "show"} : pc' = [pc EXCEPT !["app"] = place]
      BY <1>4 DEF Change, LoopEnd, ShowEnds, DataSent, Goes
    <2> QED
      BY <1>a, <1>3, <2>1, <2>2 DEF Thread
  <1>5. CASE MsgWait
    <2>1. UNCHANGED <<request, phase>> /\ pc' = [pc EXCEPT !["msg"] = "poll"]
      BY <1>5 DEF MsgWait, Goes, appVars
    <2>2. pc'["app"] = pc["app"]
      BY <1>a, <2>1 DEF Thread
    <2>3. TokenAt(where)' /\ InTurn'
      BY <1>a, <1>b, <1>1, <1>2, <2>1, <2>2 DEF TokenAt, InTurn
    <2> QED
      BY <1>a, <1>1, <2>3 DEF Flow
  <1>6. CASE SendData \/ ShowNext \/ Discover
    <2>1. Calm /\ pc["app"] # "wait"
      BY <1>6 DEF SendData, ShowNext, Discover, Calm, Around, PhaseInv
    <2>2. Still /\ srspSem = 0
      BY <1>a, <2>1, LoneFacts DEF StillInv
    <2>3. NoLqi(line) /\ NoLqi(queue) /\ SrspFirst(line) /\ NoLqiAsked(asked) /\ calls["app"] = <<>>
      BY <2>2 DEF Still, SrspFirst, NoLqi
    <2>4. \/ UNCHANGED <<request, phase>> /\ pc' = pc /\ pc["app"] \notin {"send", "fetch"}
          \/ /\ pc' = [pc EXCEPT !["app"] = "send"]
             /\ \E kind, a : /\ request' = [request EXCEPT !["app"] = [kind |-> kind, to |-> a]]
                             /\ phase' = "discover" => kind = "lqi"
      <3>1. CASE SendData
        BY <3>1 DEF SendData, Ask, Goes
      <3>2. CASE ShowNext
        <4>1. phase' = phase /\ phase # "discover" /\ pc["app"] = "show"
          BY <3>2 DEF ShowNext, appVars, Around, PhaseInv
        <4> QED
          BY <3>2, <4>1 DEF ShowNext, Ask, AskEndpoints, Goes
      <3>3. CASE Discover
        BY <3>3 DEF Discover, Ask, Goes
      <3> QED
        BY <1>6, <3>1, <3>2, <3>3
    <2>5. CASE UNCHANGED <<request, phase>> /\ pc' = pc /\ pc["app"] \notin {"send", "fetch"}
      BY <1>3, <2>5
    <2>6. CASE /\ pc' = [pc EXCEPT !["app"] = "send"]
               /\ \E kind, a : /\ request' = [request EXCEPT !["app"] = [kind |-> kind, to |-> a]]
                               /\ phase' = "discover" => kind = "lqi"
      <3>1. pc'["app"] = "send" /\ (phase' = "discover" => IsLqi(request'["app"]))
        BY <1>a, <2>6 DEF Thread
      <3>2. TokenAt("request")'
        BY <1>1, <2>3 DEF TokenAt
      <3>3. InTurn'
        BY <1>1, <2>2, <2>3, <3>1 DEF InTurn
      <3> QED
        BY <1>a, <1>1, <3>2, <3>3 DEF Flow, Whereabouts
    <2> QED
      BY <2>4, <2>5, <2>6
  <1> QED
    BY <1>4, <1>5, <1>6 DEF OuterStep

\* A request goes out when there is nothing else.
LEMMA FlowSend ==
    ASSUME Around, SemInv, StillInv, Flow, Dsr, slow = 0, Send("app"), program' = program,
           mesh' = mesh
    PROVE  Flow'
  <1> DEFINE x == request["app"]
  <1>a. /\ calls["msg"] = <<>> /\ InTurn /\ pc["app"] = "send"
        /\ pc \in [Thread -> Places \cup MsgPlaces]
        /\ request \in [Thread -> Requests(program, mesh) \cup {NoRequest}]
        /\ \A t \in Thread : pc[t] = "send" <=> request[t] # NoRequest
        /\ BagOf(Requests(program, mesh), asked)
        /\ line \in Seq(Messages(program, mesh)) /\ Srsp \in Messages(program, mesh)
        /\ ~IsLqi(Srsp) /\ ~IsLqi(NoRequest) /\ srspSem = 0
    BY LoneFacts DEF Flow, Send
  <1>b. PICK where \in Whereabouts : TokenAt(where)
    BY DEF Flow
  <1>1. /\ UNCHANGED <<calls, queue, held, srspSem, phase>>
        /\ request' = [request EXCEPT !["app"] = NoRequest]
        /\ pc' = [pc EXCEPT !["app"] = "wait"]
        /\ line' = line \/ line' = Append(line, Srsp)
        /\ asked' = asked \/ asked' = asked (+) SetToBag({x})
    BY DEF Send, appVars, Goes
  <1>2. \A j \in DOMAIN calls["app"] : Ahead(calls["app"][j])' = Ahead(calls["app"][j])
    BY <1>1 DEF Ahead
  <1>3. x \in Requests(program, mesh)
    BY <1>a DEF Thread
  <1>4. NoLqi(line) /\ NoLqi(queue) /\ NoLqiAsked(asked)
    <2>1. CASE phase = "discover"
      <3>1. where = "request"
        BY <1>a, <1>b, <2>1 DEF InTurn, TokenAt
      <3> QED
        BY <1>b, <3>1 DEF TokenAt
    <2>2. CASE phase # "discover"
      BY <2>2 DEF StillInv, Calm, Still
    <2> QED
      BY <2>1, <2>2
  <1>5. pc'["app"] = "wait" /\ ~IsLqi(request'["app"])
    BY <1>a, <1>1 DEF Thread
  <1>6. NoLqi(line') /\ SrspFirst(line')
    <2>1. SrspFirst(line)
      BY <1>a DEF InTurn
    <2>2. NoLqi(Append(line, Srsp)) /\ SrspFirst(Append(line, Srsp))
      BY <1>a, <1>4, <2>1, LqiAppend
    <2> QED
      BY <1>1, <1>4, <2>1, <2>2
  <1>7. InTurn'
    BY <1>a, <1>1, <1>4, <1>5, <1>6 DEF InTurn
  <1> HIDE DEF x
  <1>8. OneLqiAsked(asked') /\ (~IsLqi(x) => NoLqiAsked(asked'))
    <2>1. /\ OneLqiAsked(asked) /\ OneLqiAsked(asked (+) SetToBag({x}))
          /\ ~IsLqi(x) => NoLqiAsked(asked (+) SetToBag({x}))
      BY <1>a, <1>3, <1>4, LqiAsked
    <2> QED
      BY <1>1, <1>4, <2>1
  <1>9. CASE IsLqi(x)
    <2>1. where = "request"
      BY <1>b, <1>9 DEF TokenAt, x
    <2>2. TokenAt("asked")'
      BY <1>b, <1>1, <1>2, <1>4, <1>5, <1>6, <1>8, <2>1 DEF TokenAt
    <2> QED
      BY <1>a, <1>1, <1>7, <2>2 DEF Flow, Whereabouts
  <1>10. CASE ~IsLqi(x)
    <2>1. where = "callback" \/ \A j \in DOMAIN calls["app"] : ~Ahead(calls["app"][j])
      BY <1>b DEF TokenAt
    <2>2. TokenAt("callback")'
      BY <1>1, <1>4, <1>5, <1>6, <1>8, <1>10 DEF TokenAt
    <2> QED
      BY <1>a, <1>1, <1>7, <2>2 DEF Flow, Whereabouts
  <1> QED
    BY <1>9, <1>10

\* The SRSP is waited for, and another message or none taken for it.
LEMMA FlowWaits ==
    ASSUME Around, SemInv, Flow, program' = program, mesh' = mesh,
           SrspGranted("app") \/ SrspTimeout("app") \/ FetchTimeout("app")
    PROVE  Flow'
  <1>a. /\ calls["msg"] = <<>> /\ InTurn
        /\ pc \in [Thread -> Places \cup MsgPlaces]
        /\ pc["app"] # "wait" => srspSem = 0
        /\ srspSem \in Nat
    BY LoneFacts DEF Flow
  <1>b. PICK where \in Whereabouts : TokenAt(where)
    BY DEF Flow
  <1>1. UNCHANGED <<calls, request, asked, line, queue, held, phase>>
    BY DEF SrspGranted, SrspTimeout, FetchTimeout, rpcVars, wireVars, appVars
  <1>2. \A j \in DOMAIN calls["app"] : Ahead(calls["app"][j])' = Ahead(calls["app"][j])
    BY <1>1 DEF Ahead
  <1>3. TokenAt(where)'
    BY <1>b, <1>1, <1>2 DEF TokenAt
  <1>4. CASE SrspGranted("app")
    <2>1. srspSem > 0 /\ pc'["app"] = "fetch"
      BY <1>a, <1>4 DEF SrspGranted, Goes, Thread
    <2> QED
      BY <1>a, <1>1, <1>3, <2>1 DEF Flow, InTurn
  <1>5. CASE SrspTimeout("app") \/ FetchTimeout("app")
    <2>1. srspSem = 0 /\ srspSem' = srspSem
      BY <1>a, <1>5 DEF SrspTimeout, FetchTimeout, rpcVars
    <2>2. pc'["app"] \notin {"send", "fetch"}
      BY <1>a, <1>5 DEF SrspTimeout, FetchTimeout, Goes, After, Thread
    <2> QED
      BY <1>a, <1>1, <1>3, <2>1, <2>2 DEF Flow, InTurn
  <1> QED
    BY <1>4, <1>5

\* A response is handled where no other is.
LEMMA FlowFetch ==
    ASSUME Around, SemInv, Flow, program' = program, mesh' = mesh, Fetch("app")
    PROVE  /\ Flow' /\ (Succeeds(Head(queue)) => calls["app"] = <<>>)
  <1> DEFINE f == Head(queue)
             s == calls["app"]
  <1>a. /\ calls["msg"] = <<>> /\ InTurn
        /\ pc \in [Thread -> Places \cup MsgPlaces] /\ calls \in [Thread -> Seq(Call)]
        /\ pc["app"] # "wait" => srspSem = 0
        /\ queue \in Seq(Messages(program, mesh)) /\ ~IsLqi(Srsp)
    BY LoneFacts DEF Flow
  <1>b. PICK where \in Whereabouts : TokenAt(where)
    BY DEF Flow
  <1>1. /\ pc["app"] \in {"fetch", "loop", "get", "confirm", "poll"} /\ queue # <<>>
        /\ queue' = Tail(queue) /\ UNCHANGED <<request, asked, line, held, srspSem, phase>>
    BY DEF Fetch, wireVars, appVars
  <1>2. /\ srspSem = 0
        /\ NoLqi(queue) => NoLqi(queue') /\ ~IsLqi(f)
        /\ OneLqi(queue) => OneLqi(queue')
        /\ OneLqi(queue) /\ IsLqi(f) => NoLqi(queue')
    BY <1>a, <1>1, LqiTail
  <1> HIDE DEF f
  <1>3. CASE ~Succeeds(f)
    <2>1. calls' = calls /\ pc' = [pc EXCEPT !["app"] = After("app", pc["app"])]
      BY <1>3 DEF Fetch, Handle, Goes, f
    <2>2. pc'["app"] \notin {"send", "fetch"}
      BY <1>a, <2>1 DEF After, Thread
    <2>3. \A j \in DOMAIN calls["app"] : Ahead(calls["app"][j])' = Ahead(calls["app"][j])
      BY <2>1 DEF Ahead
    <2>4. TokenAt(where)'
      BY <1>b, <1>1, <1>2, <2>1, <2>3 DEF TokenAt
    <2>5. InTurn'
      BY <1>a, <1>1, <1>2, <2>2 DEF InTurn
    <2> QED
      BY <1>a, <1>3, <2>1, <2>4, <2>5 DEF Flow, f
  <1>4. CASE Succeeds(f)
    <2>1. IsLqi(f)
      BY <1>4 DEF Succeeds, IsLqi
    <2>2. where = "queue"
      BY <1>b, <1>2, <2>1 DEF TokenAt
    <2>3. NoLqi(queue') /\ ~NoLqi(queue)
      BY <1>b, <1>2, <2>1, <2>2 DEF TokenAt
    <2>4. s = <<>>
      <3>1. pc["app"] # "fetch"
        <4> SUFFICES ASSUME pc["app"] = "fetch" PROVE FALSE
          OBVIOUS
        <4>1. held => NoLqi(queue)
          BY <1>a DEF InTurn
        <4>2. Head(queue) = Srsp
          BY <1>a, <2>3, <4>1 DEF InTurn
        <4> QED
          BY <1>a, <2>1, <4>2 DEF f
      <3> QED
        BY <1>1, <3>1 DEF Around, StackInv, StackFits, Thread
    <2>5. /\ pc' = [pc EXCEPT !["app"] = "callback"]
          /\ \E c : calls' = [calls EXCEPT !["app"] = <<c>> \o s]
      BY <1>4 DEF Fetch, Handle, Begins, Goes, f
    <2>6. pc'["app"] = "callback" /\ calls'["msg"] = <<>>
      BY <1>a, <2>5 DEF Thread
    <2>7. TokenAt("callback")'
      BY <1>b, <1>1, <2>2, <2>3 DEF TokenAt
    <2>8. InTurn'
      BY <1>a, <1>1, <1>2, <2>3, <2>6 DEF InTurn
    <2> QED
      BY <2>4, <2>6, <2>7, <2>8 DEF Flow, Whereabouts
  <1> QED
    BY <1>3, <1>4

\* A callback that goes on does not have a router before it that it had not.
LEMMA AheadGoesOn ==
    ASSUME Around, program' = program, mesh' = mesh, NEW place, NEW c, TopGoesOn("app", place, c)
    PROVE  /\ calls'["app"] = [calls["app"] EXCEPT ![1] = c] /\ calls'["msg"] = calls["msg"]
           /\ DOMAIN calls'["app"] = DOMAIN calls["app"] /\ pc'["app"] = place
           /\ pc'["msg"] = pc["msg"] /\ calls'["app"][1] = c
           /\ \A j \in DOMAIN calls'["app"] : Ahead(calls["app"][j])' => Ahead(calls["app"][j])
  <1> DEFINE s == calls["app"]
             new == [s EXCEPT ![1] = c]
             A(x) == \E i \in DOMAIN Page(mesh, x.node) :
                        /\ x.next <= i
                        /\ Names(program, Page(mesh, x.node)[i], Page(mesh, x.node)[i].addr)
  <1>1. /\ pc \in [Thread -> Places \cup MsgPlaces] /\ calls \in [Thread -> Seq(Call)]
        /\ s \in Seq(Call) /\ s # <<>> /\ c \in Call
    BY DEF Around, ThreadsInv, TopGoesOn, Thread
  <1>2. /\ calls'["app"] = new /\ calls'["msg"] = calls["msg"] /\ pc'["app"] = place
        /\ pc'["msg"] = pc["msg"]
    BY <1>1 DEF TopGoesOn, Moves, Thread
  <1>3. /\ DOMAIN new = DOMAIN s /\ new[1] = c /\ s[1] \in Call
        /\ \A j \in DOMAIN s : j # 1 => new[j] = s[j]
    BY <1>1, Replaced, Popped
  <1>a. calls'["app"] = [calls["app"] EXCEPT ![1] = c] /\ DOMAIN calls'["app"] = DOMAIN s
    BY <1>2, <1>3
  <1>4. /\ \A j : Ahead(calls["app"][j])' <=> A(calls'["app"][j])
        /\ \A j : Ahead(calls["app"][j]) <=> A(calls["app"][j])
    BY DEF Ahead
  <1>5. A(c) => A(s[1])
    <2>1. /\ c.node = s[1].node /\ c.next >= s[1].next /\ c.next \in Nat /\ s[1].next \in Nat
          /\ c.node \in Routers(mesh) /\ mesh \in Meshes
      BY <1>1, <1>3 DEF TopGoesOn, Call, Around, Chosen
    <2>2. \A i \in DOMAIN Page(mesh, c.node) : i \in Nat
      BY <2>1, PageIndex
    <2>3. \A i \in Nat : c.next <= i => s[1].next <= i
      BY <2>1
    <2> QED
      BY <2>1, <2>2, <2>3
  <1> HIDE DEF new, A
  <1>6. \A j \in DOMAIN new : A(new[j]) => A(s[j])
    BY <1>3, <1>5
  <1> QED
    BY <1>a, <1>2, <1>3, <1>4, <1>6

\* A callback asks the one router of its response, or goes past the others.
LEMMA FlowCallback ==
    ASSUME Around, SemInv, Flow, Lone, Len(calls["app"]) <= 1, program' = program, mesh' = mesh,
           \/ BeginEntry("app") \/ PassOver("app") \/ ListChild("app") \/ CountRead("app")
           \/ CallbackReturns("app")
    PROVE  Flow'
  <1> DEFINE s == calls["app"]
  <1>a. /\ calls["msg"] = <<>> /\ InTurn /\ Step("app") /\ "app" \in Thread
        /\ pc \in [Thread -> Places \cup MsgPlaces] /\ calls \in [Thread -> Seq(Call)]
        /\ pc["app"] # "wait" => srspSem = 0
        /\ request \in [Thread -> Requests(program, mesh) \cup {NoRequest}]
        /\ \A r : IsLqi([kind |-> "lqi", to |-> r])
    BY LoneFacts DEF Flow, Step, Thread
  <1>b. PICK where \in Whereabouts : TokenAt(where)
    BY DEF Flow
  <1>1. /\ UNCHANGED <<asked, line, queue, held, srspSem, phase>>
        /\ pc["app"] \in {"callback", "count"}
    BY DEF BeginEntry, PassOver, ListChild, AtNeighbour, CountRead, CallbackReturns, rpcVars,
           wireVars, appVars
  <1>2. srspSem' = 0
    BY <1>a, <1>1
  <1>3. ASSUME request' = request, pc'["app"] \notin {"send", "fetch"}, calls'["msg"] = <<>>,
               where # "callback" => \A j \in DOMAIN calls'["app"] : ~Ahead(calls["app"][j])'
        PROVE  Flow'
    <2>1. TokenAt(where)'
      BY <1>b, <1>1, <1>3 DEF TokenAt
    <2>2. InTurn'
      BY <1>a, <1>1, <1>2, <1>3 DEF InTurn
    <2> QED
      BY <1>3, <2>1, <2>2 DEF Flow
  <1>4. CASE CallbackReturns("app")
    <2>1. s # <<>> /\ Moves("app", s[1].back, Tail(s)) /\ request' = request
      BY <1>1, <1>4 DEF CallbackReturns, Moves, Goes, Around, ThreadsInv, Thread
    <2>2. pc'["app"] = s[1].back /\ calls'["app"] = Tail(s) /\ calls'["msg"] = <<>>
      BY <1>a, <2>1 DEF Moves, Thread
    <2>3. s[1] \in Call /\ \A j \in DOMAIN Tail(s) : Tail(s)[j] = s[j + 1] /\ j + 1 \in DOMAIN s
      BY <1>a, <2>1, Popped
    <2>4. pc'["app"] \notin {"send", "fetch"}
      BY <2>2, <2>3 DEF Call, Returns
    <2>5. \A j \in DOMAIN calls'["app"] : Ahead(calls["app"][j])' => Ahead(calls["app"][j + 1])
      BY <2>2, <2>3 DEF Ahead
    <2>6. where # "callback" => \A j \in DOMAIN calls'["app"] : ~Ahead(calls["app"][j])'
      BY <1>b, <2>2, <2>3, <2>5 DEF TokenAt
    <2> QED
      BY <1>3, <2>1, <2>2, <2>4, <2>6
  <1>5. CASE \/ BeginEntry("app") \/ PassOver("app") \/ CountRead("app")
             \/ ListChild("app") /\ Neighbour("app").type # "router"
    <2>1. PICK place \in {"callback", "count"}, c \in Call : TopGoesOn("app", place, c)
      BY <1>5, CallbackStack DEF Around, Thread
    <2>2. request' = request
      BY <1>5 DEF BeginEntry, PassOver, CountRead, ListChild, AskIfRouter
    <2> QED
      BY <1>a, <1>b, <1>3, <2>1, <2>2, AheadGoesOn DEF TokenAt
  <1>6. CASE ListChild("app") /\ Neighbour("app").type = "router"
    <2> DEFINE n == s[1].node
               k == s[1].next
    <2>1. PICK c \in Call : c.next = k + 1 /\ TopGoesOn("app", "send", c)
      BY <1>6, CallbackStack DEF Around, Thread
    <2>2. /\ calls'["msg"] = <<>> /\ DOMAIN calls'["app"] = DOMAIN s /\ pc'["app"] = "send"
          /\ calls'["app"][1] = c /\ c.node = n
      BY <1>a, <2>1, AheadGoesOn DEF TopGoesOn
    <2>3. DOMAIN s = {1}
      <3>1. s \in Seq(Call) /\ s # <<>>
        BY <1>a, <2>1 DEF TopGoesOn, Thread
      <3> QED
        BY <3>1
    <2>4. /\ k \in DOMAIN Page(mesh, n) /\ n \in Routers(mesh) /\ mesh \in Meshes
          /\ Names(program, Page(mesh, n)[k], Page(mesh, n)[k].addr) /\ k \in Nat
      <3>1. k \in DOMAIN Page(mesh, n) /\ Names(program, Page(mesh, n)[k], Page(mesh, n)[k].addr)
        BY <1>6 DEF ListChild, AtNeighbour, Neighbour, Names
      <3>2. s[1] \in Call
        BY <1>a, <2>3, Popped DEF Thread
      <3> QED
        BY <3>1, <3>2 DEF Call, Around, Chosen
    <2>5. Ahead(calls["app"][1])
      BY <2>4 DEF Ahead
    <2>6. where = "callback"
      BY <1>b, <2>3, <2>5 DEF TokenAt
    <2>7. ~Ahead(calls["app"][1])'
      <3> SUFFICES ASSUME NEW i \in DOMAIN Page(mesh, n), c.next <= i,
                          Names(program, Page(mesh, n)[i], Page(mesh, n)[i].addr)
                   PROVE  FALSE
        BY <2>2 DEF Ahead
      <3>1. i # k
        <4>1. i \in Nat
          BY <2>4, PageIndex
        <4> QED
          BY <2>1, <2>4, <4>1
      <3> QED
        BY <2>4, <3>1 DEF Lone, Forks
    <2>8. IsLqi(request'["app"])
      BY <1>a, <1>6 DEF ListChild, AskIfRouter, Ask, Thread
    <2>9. TokenAt("request")'
      BY <1>b, <1>1, <2>2, <2>3, <2>6, <2>7 DEF TokenAt
    <2>10. InTurn'
      BY <1>a, <1>1, <1>2, <2>2, <2>8 DEF InTurn
    <2> QED
      BY <2>2, <2>9, <2>10 DEF Flow, Whereabouts
  <1> QED
    BY <1>4, <1>5, <1>6

\* What appMsgProcess does while it has dispatched nothing.
LEMMA FlowMsg ==
    ASSUME Around, SemInv, Flow, Step("msg"), alone', program' = program, mesh' = mesh
    PROVE  /\ Flow' /\ pc'["app"] = pc["app"]
           /\ UNCHANGED <<calls, request, asked, line, queue, handled, nodeCount, nodeList, shown,
                          cursor, phase>>
  <1>a. /\ calls["msg"] = <<>> /\ InTurn /\ pc["msg"] \in {"idle", "poll"}
        /\ pc \in [Thread -> Places \cup MsgPlaces]
    BY LoneFacts DEF Flow
  <1>b. PICK where \in Whereabouts : TokenAt(where)
    BY DEF Flow
  <1>1. FetchTimeout("msg")
    BY <1>a DEF Step, Send, SrspGranted, SrspTimeout, Fetch, BeginEntry, PassOver, ListChild,
                AtNeighbour, CountRead, CallbackReturns
  <1>2. /\ UNCHANGED <<calls, request, asked, line, queue, held, srspSem, phase, handled,
                       nodeCount, nodeList, shown, cursor>>
        /\ pc' = [pc EXCEPT !["msg"] = After("msg", pc["msg"])]
    BY <1>1 DEF FetchTimeout, Goes, rpcVars, wireVars, appVars, listVars, historyVars
  <1>3. pc'["app"] = pc["app"]
    BY <1>a, <1>2 DEF Thread
  <1>4. \A j \in DOMAIN calls["app"] : Ahead(calls["app"][j])' = Ahead(calls["app"][j])
    BY <1>2 DEF Ahead
  <1>5. TokenAt(where)' /\ InTurn'
    BY <1>a, <1>b, <1>2, <1>3, <1>4 DEF TokenAt, InTurn
  <1> QED
    BY <1>a, <1>2, <1>3, <1>5 DEF Flow

\* One thing at a time stays so.
LEMMA FlowKept ==
    ASSUME Around, SemInv, StillInv, LoneInv, [Next]_vars, Lone'
    PROVE  Flow'
  <1>1. /\ Dsr /\ ~Forks /\ slow = 0 /\ (Lone \/ Change) /\ alone'
        /\ program' = program /\ mesh' = mesh
    BY LoneBefore DEF Lone
  <1>2. CASE Change
    BY <1>1, <1>2, FlowChange
  <1>3. CASE Lone
    <2>1. Flow /\ Len(calls["app"]) <= 1
      BY <1>3 DEF LoneInv, Flow, Listing, ListedAt
    <2>2. CASE OuterStep
      BY <1>1, <2>1, <2>2, FlowOuter
    <2>3. CASE WireStep
      BY <1>1, <2>1, <2>3, FlowWire
    <2>4. CASE UNCHANGED vars
      <3>1. PICK where \in Whereabouts : TokenAt(where)
        BY <2>1 DEF Flow
      <3>2. UNCHANGED <<program, mesh, calls, request, asked, line, queue, held, srspSem, phase,
                        pc>>
        BY <2>4 DEF vars, choice, threadVars, rpcVars, wireVars, appVars
      <3>3. TokenAt(where)' /\ InTurn'
        BY <2>1, <3>1, <3>2 DEF TokenAt, InTurn, Flow, Ahead
      <3> QED
        BY <2>1, <3>2, <3>3 DEF Flow
    <2>5. CASE Step("msg")
      BY <1>1, <2>1, <2>5, FlowMsg
    <2>6. CASE Step("app")
      BY <1>1, <1>3, <2>1, <2>6, FlowSend, FlowWaits, FlowFetch, FlowCallback DEF Step
    <2> QED
      BY <2>2, <2>3, <2>4, <2>5, <2>6, StepKinds DEF Thread
  <1> QED
    BY <1>1, <1>2, <1>3

\* Where Listing comes from when the callbacks or the list change, ...
LEMMA ListingFrom ==
    ASSUME ThreadsInv, program' = program, mesh' = mesh, NEW place, NEW stack,
           Moves("app", place, stack),
           ListedAt(program, mesh, stack, handled', nodeCount', nodeList'),
           Ready(mesh, place, stack, handled', nodeCount')
    PROVE  Listing'
  <1>1. pc'["app"] = place /\ calls'["app"] = stack
    BY DEF ThreadsInv, Moves, Thread
  <1> QED
    BY <1>1 DEF Listing

\* ... and when they do not.
LEMMA ListingAside ==
    ASSUME Listing, program' = program, mesh' = mesh, calls'["app"] = calls["app"],
           UNCHANGED <<handled, nodeCount, nodeList>>,
           pc'["app"] = pc["app"] \/ pc'["app"] \notin {"count", "display"}
    PROVE  Listing'
  BY DEF Listing, Ready

\* Nothing is listed when a discovery begins.
LEMMA ListingChange ==
    ASSUME Around, ListInv, StillInv, Dsr, slow = 0, Change, program' = program, mesh' = mesh
    PROVE  Listing'
  <1>1. Calm
    BY DEF Change, Calm
  <1>2. calls["app"] = <<>> /\ calls["msg"] = <<>>
    BY <1>1 DEF StillInv, Still
  <1>3. /\ calls' = calls /\ nodeList' = nodeList /\ handled' = <<>> /\ nodeCount' = 0
        /\ pc' = [pc EXCEPT !["app"] = "display"]
    BY DEF Change, Goes
  <1>4. pc'["app"] = "display"
    BY <1>3 DEF Around, ThreadsInv, Thread
  <1>5. Begun(<<>>) = 0 /\ Len(<<>>) <= 1
    BY DEF Begun
  <1>6. DOMAIN nodeList = 1..Capacity
    BY DEF ListInv
  <1>7. ListedAt(program, mesh, <<>>, <<>>, 0, nodeList)
    BY <1>5, <1>6, EmptyEntries DEF ListedAt
  <1> QED
    BY <1>2, <1>3, <1>4, <1>7 DEF Listing, Ready

\* Other steps outside of a discovery leave the list alone.
LEMMA ListingOuter ==
    ASSUME Around, Listing, OuterStep, ~Change, program' = program, mesh' = mesh
    PROVE  Listing'
  <1>a. pc \in [Thread -> Places \cup MsgPlaces]
    BY DEF Around, ThreadsInv
  <1>1. UNCHANGED <<calls, handled, nodeList>>
    BY DEF OuterStep, SendData, Discover, LoopEnd, ShowNext, ShowEnds, DataSent, MsgWait,
           listVars, historyVars
  <1>2. nodeCount' = nodeCount
    BY DEF OuterStep, SendData, Discover, LoopEnd, ShowNext, ShowEnds, DataSent, MsgWait,
           listVars, Listing, Ready
  <1>3. \/ pc' = pc
        \/ pc' = [pc EXCEPT !["msg"] = "poll"]
        \/ \E place \in {"send", "console", "show"} : pc' = [pc EXCEPT !["app"] = place]
    BY DEF OuterStep, SendData, Discover, LoopEnd, ShowNext, ShowEnds, DataSent, MsgWait,
           Ask, AskEndpoints, Goes
  <1>4. pc'["app"] = pc["app"] \/ pc'["app"] \notin {"count", "display"}
    BY <1>a, <1>3 DEF Thread
  <1> QED
    BY <1>1, <1>2, <1>4, ListingAside

\* A response is handled, or a message of another kind.
LEMMA ListingFetch ==
    ASSUME Around, SemInv, StillInv, Flow, Lone, Listing, Fetch("app"), program' = program,
           mesh' = mesh
    PROVE  Listing'
  <1> DEFINE f == Head(queue)
             n == f.from
  <1>a. /\ pc \in [Thread -> Places \cup MsgPlaces] /\ calls \in [Thread -> Seq(Call)]
        /\ mesh \in Meshes /\ ThreadsInv /\ nodeCount \in Nat
        /\ queue \in Seq(Messages(program, mesh)) /\ queue # <<>>
    BY AroundTypes, LoneFacts DEF Around, Flow, Chosen, Fetch
  <1>1. /\ nodeCount' = nodeCount /\ nodeList' = nodeList /\ Handle("app", f, After("app", pc["app"]))
        /\ pc["app"] \in {"fetch", "loop", "get", "confirm", "poll"}
    BY DEF Fetch, listVars
  <1>2. CASE ~Succeeds(f)
    <2>1. calls' = calls /\ handled' = handled /\ pc' = [pc EXCEPT !["app"] = After("app", pc["app"])]
      BY <1>1, <1>2 DEF Handle, Goes
    <2>2. After("app", pc["app"]) \notin {"count", "display"}
      BY <1>1 DEF After
    <2>3. pc'["app"] = After("app", pc["app"])
      BY <1>a, <2>1 DEF Thread
    <2> QED
      BY <1>1, <2>1, <2>2, <2>3, ListingAside
  <1>3. CASE Succeeds(f)
    <2> DEFINE c == [node |-> n, next |-> 0, at |-> nodeCount + 1, back |-> "loop"]
    <2>1. calls["app"] = <<>>
      BY <1>3, FlowFetch
    <2>2. phase = "discover"
      <3>1. ~Still
        BY <1>a, <1>3, LqiTail DEF Still, Succeeds, IsLqi
      <3> QED
        BY <3>1 DEF StillInv, Calm, Lone
    <2>3. After("app", pc["app"]) = "loop"
      <3>1. pc["app"] \in {"fetch", "loop"}
        BY <1>1, <2>2 DEF Around, PhaseInv, ThreadsInv, Places
      <3> QED
        BY <2>1, <2>2, <3>1 DEF After
    <2>4. /\ n \in Routers(mesh) /\ handled' = Append(handled, n)
          /\ calls' = [calls EXCEPT !["app"] = <<c>> \o @]
          /\ pc' = [pc EXCEPT !["app"] = "callback"]
      BY <1>1, <1>3, <2>3 DEF Handle, Begins, Goes, Succeeds
    <2>5. Moves("app", "callback", <<c>> \o <<>>)
      BY <1>a, <2>1, <2>4 DEF Moves, Thread
    <2>6. Begun(<<>>) = 0 /\ Shape(mesh, "loop", <<>>)
      BY DEF Begun, Shape
    <2>7. Entries(program, mesh, <<>>, handled, nodeCount, nodeList)
      <3>1. Entries(program, mesh, <<>>, handled, nodeCount + 0, nodeList)
        BY <2>1, <2>6 DEF Listing, ListedAt
      <3>2. nodeCount + 0 = nodeCount
        BY <1>a
      <3> QED
        BY <3>1, <3>2
    <2>8. c.next = 0 /\ c.at = nodeCount + 1
      OBVIOUS
    <2>9. c = [node |-> n, next |-> 0, at |-> nodeCount + 1,
               back |-> IF <<>> = <<>> THEN "loop" ELSE "callback"]
      OBVIOUS
    <2> HIDE DEF c, n
    <2>10. /\ Shape(mesh, "callback", <<c>> \o <<>>)
           /\ Entries(program, mesh, <<c>> \o <<>>, Append(handled, n), nodeCount, nodeList)
      BY <1>a, <2>4, <2>6, <2>7, <2>9, PushKeeps
    <2>11. Len(<<c>> \o <<>>) = 1 /\ (<<c>> \o <<>>)[1] = c
      OBVIOUS
    <2>12. Begun(<<c>> \o <<>>) = 0 /\ nodeCount + 0 = nodeCount
      BY <1>a, <2>8, <2>11 DEF Begun
    <2>13. ListedAt(program, mesh, <<c>> \o <<>>, handled', nodeCount', nodeList')
      BY <1>1, <2>4, <2>8, <2>10, <2>11, <2>12 DEF ListedAt
    <2> QED
      BY <1>a, <2>5, <2>13, ListingFrom DEF Ready
  <1> QED
    BY <1>2, <1>3

\* A callback begins its entry, goes past its neighbours, and counts it.
LEMMA ListingCallback ==
    ASSUME Around, Listing, Dsr, program' = program, mesh' = mesh,
           \/ BeginEntry("app") \/ PassOver("app") \/ ListChild("app") \/ CountRead("app")
           \/ CallbackReturns("app")
    PROVE  Listing'
  <1> DEFINE s == calls["app"]
             c == s[1]
             n == c.node
  <1>a. /\ pc \in [Thread -> Places \cup MsgPlaces] /\ calls \in [Thread -> Seq(Call)]
        /\ mesh \in Meshes /\ ThreadsInv /\ nodeCount \in Nat /\ program = "dataSendRcv"
        /\ calls = [calls EXCEPT !["app"] = s] /\ pc = [pc EXCEPT !["app"] = pc["app"]]
    BY AroundTypes DEF Around, Chosen, Dsr, ThreadsInv
  <1>1. pc["app"] \in {"callback", "count"} /\ s # <<>>
    BY DEF BeginEntry, PassOver, ListChild, AtNeighbour, CountRead, CallbackReturns, Around,
           ThreadsInv
  <1>2. /\ Shape(mesh, "callback", s) /\ c.at = nodeCount + 1 /\ Len(s) <= 1
        /\ Entries(program, mesh, s, handled, nodeCount + Begun(s), nodeList)
        /\ ListedAt(program, mesh, s, handled, nodeCount, nodeList)
    BY <1>1 DEF Listing, ListedAt
  <1>3. /\ c \in CallsOf(mesh) /\ c.at \in Nat \ {0}
        /\ c.at <= Capacity => c.at \in DOMAIN nodeList
        /\ c.next # 0 => /\ c.at \in DOMAIN nodeList
                         /\ nodeList[c.at] = EntryOf(program, mesh, n, c.next - 1)
    <2> HIDE DEF s
    <2> QED
      BY <1>a, <1>2, TopEntry
  <1>4. n \in Routers(mesh) /\ c.next \in Nat /\ c.back \in Returns
    BY <1>3 DEF CallsOf
  <1>5. Slot("app") = c.at
    BY <1>a, <1>2 DEF Slot
  <1>6. /\ c.next = 0 => Entries(program, mesh, s, handled, nodeCount, nodeList)
        /\ c.next # 0 => Entries(program, mesh, s, handled, nodeCount + 1, nodeList)
    <2>1. nodeCount + 0 = nodeCount
      BY <1>a
    <2> QED
      BY <1>1, <1>2, <2>1 DEF Begun
  <1>7. ASSUME NEW k \in Nat, NEW new, GoesOn(s, new, k), k # 0, NEW after,
               Shape(mesh, "callback", new),
               Entries(program, mesh, new, handled, nodeCount + 1, after)
        PROVE  ListedAt(program, mesh, new, handled, nodeCount, after)
    <2>1. Len(new) = Len(s) /\ new # <<>> /\ 1 \in DOMAIN s /\ new[1].at = c.at /\ new[1].next = k
      <3> HIDE DEF s
      <3>1. /\ new # <<>> /\ Len(new) = Len(s) /\ 1 \in DOMAIN s
            /\ \A j \in DOMAIN s : new[j].at = s[j].at /\ new[j].next = IF j = 1 THEN k ELSE s[j].next
        BY <1>a, <1>1, <1>2, <1>7, OthersStay
      <3> QED
        BY <3>1
    <2>2. Begun(new) = 1
      BY <1>7, <2>1 DEF Begun
    <2> QED
      BY <1>2, <1>7, <2>1, <2>2 DEF ListedAt
  <1>8. CASE BeginEntry("app")
    <2> DEFINE new == [s EXCEPT ![1].next = 1]
    <2>1. /\ pc["app"] = "callback" /\ c.next = 0 /\ c.at <= Capacity
          /\ nodeList' = [nodeList EXCEPT ![c.at] =
                             [addr |-> n,
                              type |-> IF n = Coordinator THEN "coordinator" ELSE "router",
                              children |-> <<>>]]
          /\ nodeCount' = nodeCount /\ pc' = pc /\ handled' = handled
          /\ calls' = [calls EXCEPT !["app"] = new]
      BY <1>5, <1>8, <1>a DEF BeginEntry, historyVars
    <2>2. GoesOn(s, new, 1) /\ Moves("app", "callback", new)
      BY <1>a, <2>1 DEF GoesOn, Moves
    <2>3. OneEntry(nodeList, nodeList', c.at, EntryOf(program, mesh, n, 0))
      <3>1. EntryOf(program, mesh, n, 0) = [addr |-> n,
                              type |-> IF n = Coordinator THEN "coordinator" ELSE "router",
                              children |-> <<>>]
        BY <1>a, <1>4, EntryBegins
      <3> HIDE DEF c
      <3> QED
        BY <1>3, <2>1, <3>1 DEF OneEntry
    <2>4. /\ Shape(mesh, "callback", new)
          /\ Entries(program, mesh, new, handled, nodeCount + 1, nodeList')
      <3>1. Entries(program, mesh, s, handled, nodeCount, nodeList)
        BY <1>6, <2>1
      <3>2. c.next = 0 /\ c.at <= Capacity
        BY <2>1
      <3> HIDE DEF s, new
      <3> QED
        BY <1>a, <1>2, <2>2, <2>3, <3>1, <3>2, BeginKeeps
    <2>5. ListedAt(program, mesh, new, handled, nodeCount, nodeList')
      <3> HIDE DEF s, new
      <3> QED
        BY <1>7, <2>2, <2>4
    <2> QED
      BY <1>a, <2>1, <2>2, <2>5, ListingFrom DEF Ready
  <1>9. CASE PassOver("app") \/ ListChild("app")
    <2> DEFINE new == [s EXCEPT ![1].next = @ + 1]
    <2>1. /\ pc["app"] = "callback" /\ c.next \in DOMAIN Page(mesh, n)
          /\ calls' = [calls EXCEPT !["app"] = new]
          /\ UNCHANGED <<handled, nodeCount>>
      BY <1>9 DEF PassOver, ListChild, AtNeighbour, listVars, historyVars
    <2>2. c.next \in 1..Len(Page(mesh, n)) /\ c.next # 0 /\ c.next + 1 \in Nat /\ c.next + 1 # 0
      <3>1. Page(mesh, n) \in Seq(Neighbours(mesh, n))
        BY <1>a, <1>4, PageIsSequence
      <3> QED
        BY <1>4, <2>1, <3>1
    <2>3. GoesOn(s, new, c.next + 1)
      BY DEF GoesOn
    <2>4. PICK place \in {"callback", "send"} : Moves("app", place, new)
      BY <1>a, <1>9, <2>1 DEF PassOver, ListChild, AskIfRouter, Ask, Goes, Moves
    <2>5. OneEntry(nodeList, nodeList', c.at, EntryOf(program, mesh, n, c.next))
      BY <1>a, <1>3, <1>4, <1>5, <1>9, <2>2, ChildListed
    <2>6. /\ Shape(mesh, "callback", new)
          /\ Entries(program, mesh, new, handled, nodeCount + 1, nodeList')
      <3> HIDE DEF s, new
      <3> QED
        BY <1>a, <1>2, <1>6, <2>2, <2>3, <2>5, PassKeeps
    <2>7. ListedAt(program, mesh, new, handled, nodeCount, nodeList')
      <3> HIDE DEF s, new
      <3> QED
        BY <1>7, <2>2, <2>3, <2>6
    <2> QED
      BY <1>a, <2>1, <2>4, <2>7, ListingFrom DEF Ready
  <1>10. CASE CountRead("app")
    <2> DEFINE new == [s EXCEPT ![1].at = nodeCount + 1]
    <2>1. /\ c.next > Len(Page(mesh, n)) /\ calls' = [calls EXCEPT !["app"] = new]
          /\ pc' = [pc EXCEPT !["app"] = "count"] /\ UNCHANGED <<handled, nodeCount, nodeList>>
      BY <1>10 DEF CountRead, Goes, listVars, historyVars
    <2>2. new = s
      <3>1. s \in Seq(CallsOf(mesh)) /\ 1 \in DOMAIN s
        BY <1>1, <1>2, Popped DEF Shape
      <3>2. [c EXCEPT !.at = nodeCount + 1] = c
        <4> HIDE DEF c
        <4> QED
          BY <1>2, <1>3 DEF CallsOf
      <3> QED
        BY <3>1, <3>2
    <2> HIDE DEF new
    <2>3. Moves("app", "count", s)
      BY <2>1, <2>2 DEF Moves
    <2> QED
      BY <1>a, <1>2, <2>1, <2>3, ListingFrom DEF Ready
  <1>11. CASE CallbackReturns("app")
    <2>1. /\ pc["app"] = "count" /\ nodeCount' = c.at /\ Moves("app", c.back, Tail(s))
          /\ nodeList' = nodeList /\ handled' = handled
      BY <1>a, <1>11 DEF CallbackReturns, Goes, Moves, historyVars
    <2>2. c.next > Len(Page(mesh, n)) /\ c.next # 0
      <3>1. c.next > Len(Page(mesh, n))
        BY <2>1 DEF Listing, Ready
      <3>2. Len(Page(mesh, n)) \in Nat
        BY <1>a, <1>4, PageIsSequence
      <3> QED
        BY <1>4, <3>1, <3>2
    <2>3. Entries(program, mesh, Tail(s), handled, nodeCount + 1, nodeList)
      <3> HIDE DEF s
      <3> QED
        BY <1>a, <1>2, <1>6, <2>2, PopKeeps
    <2>4. Tail(s) = <<>>
      <3>1. s \in Seq(Call) /\ s # <<>>
        BY <1>a, <1>1 DEF Thread
      <3>2. Len(Tail(s)) = 0 /\ Tail(s) \in Seq(Call)
        <4>1. /\ Tail(s) \in Seq(Call) /\ Len(Tail(s)) = Len(s) - 1 /\ Len(s) \in Nat \ {0}
          BY <3>1, Popped
        <4> HIDE DEF s
        <4> QED
          BY <1>2, <4>1
      <3> QED
        BY <3>2, EmptyLength
    <2>5. Begun(<<>>) = 0 /\ Len(<<>>) <= 1 /\ nodeCount' + 0 = nodeCount + 1
      BY <1>a, <1>2, <2>1 DEF Begun
    <2>6. ListedAt(program, mesh, <<>>, handled, nodeCount', nodeList)
      BY <2>3, <2>4, <2>5 DEF ListedAt
    <2>7. c.back \notin {"count", "display"}
      BY <1>4 DEF Returns
    <2> QED
      BY <1>a, <2>1, <2>4, <2>6, <2>7, ListingFrom DEF Ready
  <1> QED
    BY <1>8, <1>9, <1>10, <1>11

\* The list stays what its callback makes of it.
LEMMA ListingKept ==
    ASSUME Around, SemInv, ListInv, StillInv, LoneInv, [Next]_vars, Lone'
    PROVE  Listing'
  <1>1. /\ Dsr /\ ~Forks /\ slow = 0 /\ (Lone \/ Change) /\ alone'
        /\ program' = program /\ mesh' = mesh
    BY LoneBefore DEF Lone
  <1>2. CASE Change
    BY <1>1, <1>2, ListingChange
  <1>3. CASE Lone /\ ~Change
    <2>1. Flow /\ Listing
      BY <1>3 DEF LoneInv, Flow
    <2>2. CASE OuterStep
      BY <1>1, <1>3, <2>1, <2>2, ListingOuter
    <2>3. CASE WireStep \/ UNCHANGED vars
      <3>1. UNCHANGED <<calls, pc, handled, nodeCount, nodeList>>
        BY <2>3 DEF WireStep, RxStep, RxPost, RxLinkSrsp, RxLinkAreq, OnlyRx, NodeAnswers,
                    NodeSilent, OnlyNetwork, vars, listVars, threadVars, historyVars
      <3> QED
        BY <1>1, <2>1, <3>1, ListingAside
    <2>4. CASE Step("msg")
      BY <1>1, <2>1, <2>4, FlowMsg, ListingAside
    <2>5. CASE \/ Send("app") \/ SrspGranted("app") \/ SrspTimeout("app")
               \/ FetchTimeout("app")
      <3>1. UNCHANGED <<calls, handled, nodeCount, nodeList>>
        BY <2>5 DEF Send, SrspGranted, SrspTimeout, FetchTimeout, listVars, historyVars
      <3>2. PICK place \in {"wait", "fetch", After("app", "fetch"), After("app", pc["app"])} :
               pc' = [pc EXCEPT !["app"] = place]
        BY <2>5 DEF Send, SrspGranted, SrspTimeout, FetchTimeout, Goes
      <3>3. place \notin {"count", "display"}
        BY DEF After
      <3>4. pc'["app"] = place
        BY <3>2 DEF Around, ThreadsInv, Thread
      <3> QED
        BY <1>1, <2>1, <3>1, <3>3, <3>4, ListingAside
    <2>6. CASE Fetch("app")
      BY <1>1, <1>3, <2>1, <2>6, ListingFetch
    <2>7. CASE \/ BeginEntry("app") \/ PassOver("app") \/ ListChild("app") \/ CountRead("app")
               \/ CallbackReturns("app")
      BY <1>1, <2>1, <2>7, ListingCallback
    <2> QED
      BY <2>2, <2>3, <2>4, <2>5, <2>6, <2>7, StepKinds DEF Thread, Step
  <1> QED
    BY <1>1, <1>2, <1>3

\* One discovery at a time is one callback at a time.
LEMMA LoneKept == DiscoveryInv /\ StillInv /\ LoneInv /\ [Next]_vars => LoneInv'
  <1> HAVE DiscoveryInv /\ StillInv /\ LoneInv /\ [Next]_vars
  <1> SUFFICES ASSUME Lone' PROVE (Flow /\ Listing)'
    BY DEF LoneInv, Flow
  <1> QED
    BY FlowKept, ListingKept DEF DiscoveryInv

\* At first nothing is under way.
LEMMA InitLone == Init => StillInv /\ LoneInv
  <1> HAVE Init
  <1>1. /\ calls["app"] = <<>> /\ calls["msg"] = <<>> /\ handled = <<>> /\ nodeCount = 0
        /\ line = <<>> /\ queue = <<>> /\ asked = EmptyBag /\ ~held /\ srspSem = 0
        /\ pc["app"] = "console" /\ \A t \in Thread : request[t] = NoRequest
        /\ DOMAIN nodeList = 1..Capacity
    BY DEF Init, Thread
  <1>2. NoLqi(<<>>) /\ SrspFirst(<<>>) /\ ~HasSrsp(<<>>) /\ NoLqiAsked(EmptyBag)
    BY DEF NoLqi, SrspFirst, HasSrsp, NoLqiAsked, EmptyBag, SetToBag
  <1>3. ~IsLqi(NoRequest)
    BY DEF IsLqi, NoRequest
  <1>4. Still
    BY <1>1, <1>2, <1>3 DEF Still
  <1>5. TokenAt("nowhere")
    BY <1>1, <1>2, <1>3 DEF TokenAt, Thread
  <1>6. InTurn
    BY <1>1, <1>2 DEF InTurn
  <1>7. Listing
    <2>1. Begun(<<>>) = 0 /\ Len(<<>>) <= 1 /\ 0 + 0 = 0
      BY DEF Begun
    <2>2. Entries(program, mesh, <<>>, <<>>, 0, nodeList)
      BY <1>1, EmptyEntries
    <2>3. ListedAt(program, mesh, <<>>, <<>>, 0, nodeList)
      BY <2>1, <2>2 DEF ListedAt
    <2> QED
      BY <1>1, <2>3 DEF Listing, Ready
  <1> QED
    BY <1>1, <1>4, <1>5, <1>6, <1>7 DEF StillInv, LoneInv, Whereabouts

\* Each entry of nodeList is that of one response handled in the round, and has its own
\* neighbours: in nwkTopology always, in dataSendRcv where one response is handled at a time.
THEOREM TopologyEntriesOwn == Spec => []EntriesOwn
  <1> DEFINE Inv == DiscoveryInv /\ StillInv /\ LoneInv
  <1>1. Inv => EntriesOwn
    <2> SUFFICES ASSUME Inv, alone, calls["app"] = <<>>, Nwk \/ (~Forks /\ slow = 0)
                 PROVE  /\ nodeCount = Len(handled)
                        /\ \A i \in 1..nodeCount : nodeList[i] = Plain(handled[i])
      BY DEF EntriesOwn, Nwk
    <2>1. Entries(program, mesh, <<>>, handled, nodeCount, nodeList)
      <3>1. CASE Nwk
        BY <3>1 DEF DiscoveryInv, Around, NwkInv, NwkEntries
      <3>2. CASE ~Nwk
        <4>1. Lone
          BY <3>2, ProgramsKnown DEF Lone, Nwk, Dsr, DiscoveryInv, Around, Chosen
        <4>2. Entries(program, mesh, <<>>, handled, nodeCount + Begun(<<>>), nodeList)
          BY <4>1 DEF LoneInv, Listing, ListedAt
        <4>3. nodeCount + Begun(<<>>) = nodeCount
          BY AroundTypes DEF Begun, DiscoveryInv
        <4> QED
          BY <4>2, <4>3
      <3> QED
        BY <3>1, <3>2
    <2> QED
      BY <2>1, EntriesListed
  <1>2. Inv /\ [Next]_vars => Inv'
    BY DiscoveryKept, LoneKept, StillKept DEF DiscoveryInv
  <1>3. Init => Inv
    BY InitDiscovery, InitLone
  <1> HIDE DEF Inv
  <1> QED
    BY <1>1, <1>2, <1>3, PTL DEF Spec

-----------------------------------------------------------------------------
(* displayDevices asks every device once: what its discovery finds, ...    *)

\* What is under way has the form the balance is about.
LEMMA AroundKinds == Around => Kinds(mesh, pc["app"], request["app"], asked, line, queue)
  <1> HAVE Around
  <1>1. /\ pc["app"] = "send" <=> request["app"] # NoRequest
        /\ request["app"] \in Requests(program, mesh) \cup {NoRequest}
        /\ BagOf(Requests(program, mesh), asked)
        /\ line \in Seq(Messages(program, mesh)) /\ queue \in Seq(Messages(program, mesh))
    BY DEF Around, WireInv, Thread
  <1>2. Requests(program, mesh) \subseteq Questions(mesh)
    BY DEF Requests, Questions, Askable
  <1>3. Messages(program, mesh) \subseteq Frames(mesh)
    BY DEF Messages, Frames, Askable
  <1>4. line \in Seq(Frames(mesh)) /\ queue \in Seq(Frames(mesh))
    BY <1>1, <1>3
  <1> HIDE DEF Requests, Questions
  <1>5. BagOf(Questions(mesh), asked)
    BY <1>1, <1>2 DEF BagOf
  <1> QED
    BY <1>1, <1>2, <1>4, <1>5 DEF Kinds

\* Where nothing asks a router there is no token.
LEMMA NoTokens ==
    ASSUME Around, NoLqiAsked(asked), NoLqi(line), NoLqi(queue), NEW r
    PROVE  /\ Copies(asked, Lqi(r)) = 0
           /\ Occurrences(line, Answer(r)) = 0 /\ Occurrences(queue, Answer(r)) = 0
  <1>1. line \in Seq(Messages(program, mesh)) /\ queue \in Seq(Messages(program, mesh))
    BY DEF Around, WireInv
  <1>2. IsLqi(Lqi(r)) /\ IsLqi(Answer(r))
    BY Different DEF IsLqi
  <1>3. Copies(asked, Lqi(r)) = 0
    BY <1>2 DEF NoLqiAsked, Copies
  <1>4. \A i \in DOMAIN line : line[i] # Answer(r)
    BY <1>2 DEF NoLqi
  <1>5. \A i \in DOMAIN queue : queue[i] # Answer(r)
    BY <1>2 DEF NoLqi
  <1> QED
    BY <1>1, <1>3, <1>4, <1>5, OccurrencesPlaces

\* The conditions have held since the discovery began.
LEMMA CertainBefore ==
    ASSUME Around, UsedInv, [Next]_vars, Certain', rounds' > 0, pc'["app"] # "display"
    PROVE  /\ Certain /\ rounds > 0 /\ ~Change /\ losses' = losses
           /\ Dsr /\ program' = program /\ mesh' = mesh
  <1>1. /\ Dsr /\ ~Forks /\ slow = 0 /\ (Lone \/ Change) /\ program' = program /\ mesh' = mesh
    BY LoneBefore DEF Certain
  <1>2. ~Change
    BY DEF Change, Goes, Around, ThreadsInv, Thread
  <1>3. losses = 0 /\ losses' = losses
    BY UsedKept DEF Certain, Lone, Undisturbed
  <1>4. rounds' = rounds
    <2>1. CASE OuterStep
      BY <1>2, <2>1 DEF OuterStep, SendData, Discover, LoopEnd, ShowNext, ShowEnds, DataSent,
                        MsgWait, boundVars
    <2> QED
      BY <2>1, Inside, StepKinds
  <1> QED
    BY <1>1, <1>2, <1>3, <1>4 DEF Certain

\* What the balance is about when it is kept by a step.
LEMMA BalanceFrom ==
    ASSUME ThreadsInv, program' = program, mesh' = mesh, HandledFound',
           NEW place, NEW stack, Moves("app", place, stack), NEW ask, request'["app"] = ask,
           Balanced(program, mesh, place, ask, asked', line', queue', handled', stack)
    PROVE  AskedOnceInv'
  <1>1. pc'["app"] = place /\ calls'["app"] = stack
    BY DEF ThreadsInv, Moves, Thread
  <1> QED
    BY <1>1 DEF AskedOnceInv

\* Those handled stay to be found.
LEMMA HandledStay ==
    ASSUME HandledFound, program' = program, mesh' = mesh, handled' = handled
    PROVE  HandledFound'
  <1>1. Found' = Found
    BY DEF Found
  <1> QED
    BY <1>1 DEF HandledFound

\* A request of another kind, or none, does not count.
LEMMA BalancedAside ==
    ASSUME NEW p, NEW m, NEW place, NEW ask, NEW bag, NEW l, NEW q, NEW h, NEW stack,
           Balanced(p, m, place, ask, bag, l, q, h, stack), NEW there, NEW other,
           \A r : About(place, ask, r) = 0 /\ About(there, other, r) = 0
    PROVE  Balanced(p, m, there, other, bag, l, q, h, stack)
  BY DEF Balanced, Tokens

\* The coordinator is asked when nothing else is.
LEMMA AskedOnceBegins ==
    ASSUME DiscoveryInv, StillInv, LoneInv, Certain, Discover, program' = program, mesh' = mesh
    PROVE  AskedOnceInv'
  <1>1. /\ pc' = [pc EXCEPT !["app"] = "send"] /\ pc["app"] = "display"
        /\ request' = [request EXCEPT !["app"] = Lqi(Coordinator)]
        /\ UNCHANGED <<calls, asked, line, queue, handled>>
    BY DEF Discover, Ask, Goes, Lqi, rpcVars, wireVars, historyVars
  <1>2. Still
    BY <1>1 DEF StillInv, Calm, Certain, Lone
  <1>3. calls["app"] = <<>> /\ handled = <<>>
    BY <1>1, <1>2 DEF Still, LoneInv, Listing, Ready, Certain
  <1>4. \A r : /\ Copies(asked, Lqi(r)) = 0
               /\ Occurrences(line, Answer(r)) = 0 /\ Occurrences(queue, Answer(r)) = 0
    BY <1>2, NoTokens DEF Still, DiscoveryInv
  <1>5. ASSUME NEW r PROVE Occurrences(<<>>, r) = 0 /\ ~Passed(program, mesh, <<>>, <<>>, r)
    <2>1. <<>> \in Seq({}) /\ DOMAIN <<>> = {}
      OBVIOUS
    <2>2. Occurrences(<<>>, r) = 0
      BY <2>1, OccurrencesPlaces
    <2> QED
      BY <2>1, <2>2 DEF Passed
  <1>6. Balanced(program, mesh, "send", Lqi(Coordinator), asked, line, queue, <<>>, <<>>)
    BY <1>4, <1>5, Different DEF Balanced, Tokens, Due, About
  <1>7. HandledFound'
    BY <1>1, <1>3 DEF HandledFound
  <1>8. Moves("app", "send", <<>>) /\ request'["app"] = Lqi(Coordinator)
    BY <1>1, <1>3 DEF Moves, DiscoveryInv, Around, ThreadsInv, WireInv, Thread
  <1> QED
    BY <1>1, <1>3, <1>6, <1>7, <1>8, BalanceFrom DEF DiscoveryInv, Around

\* The steps between discoveries do not ask a router.
LEMMA AskedOnceOuter ==
    ASSUME DiscoveryInv, StillInv, Certain, AskedOnceInv, rounds > 0,
           OuterStep, ~Change, ~Discover, program' = program, mesh' = mesh
    PROVE  AskedOnceInv'
  <1>a. /\ pc \in [Thread -> Places \cup MsgPlaces] /\ DOMAIN request = Thread
        /\ request = [request EXCEPT !["app"] = request["app"]]
        /\ pc = [pc EXCEPT !["app"] = pc["app"]]
        /\ pc["app"] = "send" <=> request["app"] # NoRequest
        /\ ThreadsInv /\ "app" \in Thread
    BY AroundTypes DEF DiscoveryInv, Around, ThreadsInv, WireInv, Thread
  <1>1. UNCHANGED <<calls, asked, line, queue, handled>>
    BY DEF OuterStep, SendData, LoopEnd, ShowNext, ShowEnds, DataSent, MsgWait, rpcVars, wireVars,
           historyVars
  <1>2. CASE MsgWait
    <2>1. pc' = [pc EXCEPT !["msg"] = "poll"] /\ request' = request
      BY <1>2 DEF MsgWait, Goes
    <2>2. pc'["app"] = pc["app"]
      BY <1>a, <2>1 DEF Thread
    <2> QED
      BY <1>1, <2>1, <2>2, HandledStay DEF AskedOnceInv, Certain, Lone, MsgWait, boundVars,
                                           historyVars
  <1>3. CASE LoopEnd \/ ShowEnds \/ DataSent \/ SendData \/ ShowNext
    <2>1. pc["app"] \notin {"send", "display"}
      BY <1>3 DEF LoopEnd, ShowEnds, DataSent, SendData, ShowNext
    <2>2. HandledFound /\ Balanced(program, mesh, pc["app"], request["app"], asked, line, queue,
                                   handled, calls["app"])
      BY <2>1 DEF AskedOnceInv
    <2> DEFINE Sets(place, x) == /\ pc' = [pc EXCEPT !["app"] = place]
                                 /\ request' = [request EXCEPT !["app"] = x]
    <2>3. \E place \in {"console", "show", "send"} : \E x :
             Sets(place, x) /\ (place = "send" => ~IsLqi(x))
      <3>1. CASE LoopEnd \/ ShowEnds \/ DataSent
        <4>1. PICK place \in {"console", "show"} : pc' = [pc EXCEPT !["app"] = place]
          BY <3>1 DEF LoopEnd, ShowEnds, DataSent, Goes
        <4>2. Sets(place, request["app"])
          BY <1>a, <3>1, <4>1 DEF LoopEnd, ShowEnds, DataSent
        <4> HIDE DEF Sets
        <4> QED
          BY <4>1, <4>2
      <3>2. CASE SendData
        <4> DEFINE x == [kind |-> "data", to |-> Coordinator]
        <4>1. Sets("send", x)
          BY <3>2 DEF SendData, Ask, Goes
        <4>2. ~IsLqi(x)
          BY DEF IsLqi
        <4> HIDE DEF Sets, x
        <4> QED
          BY <4>1, <4>2
      <3>3. CASE ShowNext /\ UNCHANGED <<pc, request>>
        <4>1. Sets("show", request["app"])
          BY <1>a, <3>3 DEF ShowNext
        <4> HIDE DEF Sets
        <4> QED
          BY <4>1
      <3>4. CASE ShowNext /\ ~UNCHANGED <<pc, request>>
        <4>1. PICK a : Ask("app", "ep", a)
          BY <3>4 DEF ShowNext, AskEndpoints
        <4> DEFINE x == [kind |-> "ep", to |-> a]
        <4>2. Sets("send", x)
          BY <4>1 DEF Ask, Goes
        <4>3. ~IsLqi(x)
          BY DEF IsLqi
        <4> HIDE DEF Sets, x
        <4> QED
          BY <4>2, <4>3
      <3> QED
        BY <1>3, <3>1, <3>2, <3>3, <3>4
    <2> HIDE DEF Sets
    <2>4. PICK place \in {"console", "show", "send"} : \E x :
             Sets(place, x) /\ (place = "send" => ~IsLqi(x))
      BY <2>3
    <2>5. PICK x : Sets(place, x) /\ (place = "send" => ~IsLqi(x))
      BY <2>4
    <2>6. \A r : About(pc["app"], request["app"], r) = 0 /\ About(place, x, r) = 0
      BY <2>1, <2>5, Different DEF About, IsLqi
    <2>7. Balanced(program, mesh, place, x, asked, line, queue, handled, calls["app"])
      BY <2>2, <2>6, BalancedAside
    <2>8. Moves("app", place, calls["app"]) /\ request'["app"] = x
      BY <1>a, <1>1, <2>5 DEF Moves, ThreadsInv, Sets
    <2> QED
      BY <1>a, <1>1, <2>2, <2>7, <2>8, HandledStay, BalanceFrom
  <1> QED
    BY <1>2, <1>3 DEF OuterStep

\* The receive thread and the network pass on what there is.
LEMMA AskedOnceWire ==
    ASSUME DiscoveryInv, LoneInv, Certain, AskedOnceInv, rounds > 0, pc["app"] # "display",
           WireStep, losses' = losses, program' = program, mesh' = mesh
    PROVE  AskedOnceInv'
  <1> DEFINE P == pc["app"]
             A == request["app"]
             s == calls["app"]
             B(bag, l, q) == Balanced(program, mesh, P, A, bag, l, q, handled, s)
  <1>1. /\ HandledFound /\ B(asked, line, queue) /\ Kinds(mesh, P, A, asked, line, queue)
        /\ ThreadsInv /\ handled \in Seq(Routers(mesh)) /\ losses = 0
    BY AroundKinds DEF AskedOnceInv, DiscoveryInv, Around, LoneInv, Certain, Listing, ListedAt,
                       Entries
  <1>2. UNCHANGED <<pc, calls, request, handled>>
    BY DEF WireStep, RxStep, RxPost, RxLinkSrsp, RxLinkAreq, OnlyRx, NodeAnswers, NodeSilent,
           OnlyNetwork, threadVars, historyVars
  <1>3. SUFFICES B(asked', line', queue')
    <2>1. Moves("app", P, s) /\ request'["app"] = A
      BY <1>1, <1>2 DEF Moves, ThreadsInv
    <2> HIDE DEF P, A, s
    <2> QED
      BY <1>1, <1>2, <2>1, HandledStay, BalanceFrom
  <1>4. CASE RxPost
    <2>1. /\ line # <<>> /\ Head(line) = Srsp /\ line' = Tail(line) /\ UNCHANGED <<asked, queue>>
      BY <1>4 DEF RxPost, OnlyRx
    <2> HIDE DEF P, A, s
    <2> QED
      BY <1>1, <2>1, BalancedPost
  <1>5. CASE RxLinkSrsp
    <2>1. queue' = <<Srsp>> \o queue /\ UNCHANGED <<asked, line>>
      BY <1>5 DEF RxLinkSrsp, OnlyRx
    <2> HIDE DEF P, A, s
    <2> QED
      BY <1>1, <2>1, BalancedSrsp
  <1>6. CASE RxLinkAreq
    <2>1. /\ line # <<>> /\ line' = Tail(line) /\ queue' = Append(queue, Head(line))
          /\ asked' = asked
      BY <1>6 DEF RxLinkAreq, OnlyRx
    <2> HIDE DEF P, A, s
    <2> QED
      BY <1>1, <2>1, BalancedAreq
  <1>7. CASE NodeAnswers
    <2>1. PICK x \in BagToSet(asked) :
             /\ asked' = asked (-) SetToBag({x})
             /\ line' = Append(line, [kind |-> x.kind, from |-> x.to])
      BY <1>7 DEF NodeAnswers
    <2>2. queue' = queue
      BY <1>7 DEF NodeAnswers, OnlyNetwork, rpcVars
    <2> HIDE DEF P, A, s
    <2> QED
      BY <1>1, <2>1, <2>2, BalancedAnswer
  <1>8. ~NodeSilent
    BY <1>1 DEF NodeSilent
  <1> QED
    BY <1>4, <1>5, <1>6, <1>7, <1>8 DEF WireStep, RxStep

\* A request and its wait.
LEMMA AskedOnceWaits ==
    ASSUME DiscoveryInv, LoneInv, Certain, AskedOnceInv, rounds > 0,
           Send("app") \/ SrspGranted("app") \/ SrspTimeout("app") \/ FetchTimeout("app"),
           losses' = losses, program' = program, mesh' = mesh
    PROVE  AskedOnceInv'
  <1> DEFINE P == pc["app"]
             A == request["app"]
             s == calls["app"]
  <1>1. /\ P \in {"send", "wait", "fetch", "confirm", "poll"} /\ UNCHANGED <<calls, queue, handled>>
        /\ calls = [calls EXCEPT !["app"] = s] /\ ThreadsInv /\ losses = 0
        /\ DOMAIN request = Thread /\ "app" \in Thread
    BY DEF Send, SrspGranted, SrspTimeout, FetchTimeout, rpcVars, historyVars, DiscoveryInv, Around,
           ThreadsInv, Certain, WireInv, Thread
  <1>2. /\ HandledFound /\ Balanced(program, mesh, P, A, asked, line, queue, handled, s)
        /\ Kinds(mesh, P, A, asked, line, queue) /\ handled \in Seq(Routers(mesh))
    BY <1>1, AroundKinds DEF AskedOnceInv, DiscoveryInv, LoneInv, Certain, Listing, ListedAt,
                             Entries
  <1>3. HandledFound'
    BY <1>1, <1>2, HandledStay
  <1>4. CASE Send("app")
    <2>1. /\ P = "send" /\ pc' = [pc EXCEPT !["app"] = "wait"]
          /\ request' = [request EXCEPT !["app"] = NoRequest]
          /\ line' = Append(line, Srsp) /\ asked' = asked (+) SetToBag({A})
      BY <1>1, <1>4 DEF Send, Goes
    <2>2. Moves("app", "wait", s) /\ request'["app"] = NoRequest
      BY <1>1, <2>1 DEF Moves
    <2>a. Balanced(program, mesh, "send", A, asked, line, queue, handled, s)
          /\ Kinds(mesh, "send", A, asked, line, queue)
      BY <1>2, <2>1
    <2>3. Balanced(program, mesh, "wait", NoRequest, asked', line', queue', handled', s)
      <3> HIDE DEF P, A, s
      <3> QED
        BY <1>1, <1>2, <2>1, <2>a, BalancedSent
    <2> HIDE DEF P, A, s
    <2> QED
      BY <1>1, <1>3, <2>2, <2>3, BalanceFrom
  <1>5. CASE SrspGranted("app") \/ SrspTimeout("app") \/ FetchTimeout("app")
    <2>1. /\ P # "send" /\ UNCHANGED <<request, asked, line>>
          /\ \E place \in {"fetch", After("app", "fetch"), After("app", P)} :
                pc' = [pc EXCEPT !["app"] = place]
      BY <1>5 DEF SrspGranted, SrspTimeout, FetchTimeout, Goes, wireVars
    <2>2. PICK place \in {"fetch", After("app", "fetch"), After("app", P)} :
             pc' = [pc EXCEPT !["app"] = place]
      BY <2>1
    <2>3. place # "send" /\ Moves("app", place, s) /\ request'["app"] = A
      BY <1>1, <2>1, <2>2 DEF After, Moves
    <2>4. Balanced(program, mesh, place, A, asked, line, queue, handled, s)
      <3> HIDE DEF P, A, s
      <3> QED
        BY <1>2, <2>1, <2>3, BalancedElsewhere
    <2>5. Balanced(program, mesh, place, A, asked', line', queue', handled', s)
      BY <1>1, <2>1, <2>4
    <2> HIDE DEF P, A, s
    <2> QED
      BY <1>1, <1>3, <2>3, <2>5, BalanceFrom
  <1> QED
    BY <1>4, <1>5

\* A message is fetched: the response of a router to be found, or another.
LEMMA AskedOnceFetch ==
    ASSUME DiscoveryInv, LoneInv, Certain, AskedOnceInv, rounds > 0, Fetch("app"),
           program' = program, mesh' = mesh
    PROVE  AskedOnceInv'
  <1> DEFINE P == pc["app"]
             A == request["app"]
             s == calls["app"]
             f == Head(queue)
             back == After("app", P)
             new == [node |-> f.from, next |-> 0, at |-> nodeCount + 1, back |-> back]
  <1>1. /\ P \in {"fetch", "loop", "get", "confirm", "poll"} /\ queue # <<>>
        /\ queue' = Tail(queue) /\ UNCHANGED <<request, asked, line>> /\ ThreadsInv
        /\ Handle("app", f, back) /\ program \in Programs /\ mesh \in Meshes /\ nodeCount \in Nat
        /\ calls = [calls EXCEPT !["app"] = s] /\ Chosen /\ calls \in [Thread -> Seq(Call)]
    BY AroundTypes DEF Fetch, wireVars, DiscoveryInv, Around, ThreadsInv, Chosen
  <1>2. /\ HandledFound /\ Balanced(program, mesh, P, A, asked, line, queue, handled, s)
        /\ Kinds(mesh, P, A, asked, line, queue) /\ handled \in Seq(Routers(mesh))
        /\ queue \in Seq(Frames(mesh)) /\ f \in Frames(mesh)
    BY <1>1, AroundKinds DEF AskedOnceInv, DiscoveryInv, LoneInv, Certain, Listing, ListedAt,
                             Entries, Kinds
  <1>a. request'["app"] = A
    BY <1>1
  <1>3. CASE ~Succeeds(f)
    <2>1. Moves("app", back, s) /\ handled' = handled /\ back # "send"
      BY <1>1, <1>3 DEF Handle, Goes, Moves, After
    <2>2. \A r \in Routers(mesh) : mesh[r].ok => f # Answer(r)
      BY <1>3, Different DEF Succeeds
    <2>3. Balanced(program, mesh, back, A, asked, line, Tail(queue), handled, s)
      <3> HIDE DEF P, A, s, back
      <3> QED
        BY <1>1, <1>2, <2>1, <2>2, BalancedDropped
    <2>4. Balanced(program, mesh, back, A, asked', line', queue', handled', s) /\ HandledFound'
      BY <1>1, <1>2, <2>1, <2>3, HandledStay
    <2> HIDE DEF P, A, s, back
    <2> QED
      BY <1>1, <1>a, <2>1, <2>4, BalanceFrom
  <1>4. CASE Succeeds(f)
    <2> DEFINE r == f.from
    <2>1. r \in Routers(mesh) /\ mesh[r].ok /\ f = Answer(r)
      BY <1>2, <1>4, Different DEF Succeeds, Frames
    <2>2. s = <<>>
      BY <1>4, FlowFetch DEF DiscoveryInv, LoneInv, Certain, Flow
    <2>3. nodeCount = Len(handled)
      <3>1. Begun(s) = 0 /\ Fresh(s) = 0
        BY <2>2 DEF Begun, Fresh
      <3>2. Len(handled) = nodeCount + Begun(s) + Fresh(s)
        BY DEF LoneInv, Certain, Listing, ListedAt, Entries
      <3> QED
        BY <1>1, <3>1, <3>2
    <2>4. Moves("app", "callback", <<new>> \o s) /\ handled' = Append(handled, r)
      BY <1>1, <1>4 DEF Handle, Begins, Goes, Moves
    <2>5. new \in CallsOf(mesh) /\ new.node = r /\ new.next = 0 /\ new.at = Len(handled) + 1
      <3>1. back \in Returns
        BY <1>1, <2>2 DEF After, Returns
      <3> QED
        BY <1>1, <2>1, <2>3, <3>1 DEF CallsOf
    <2>6. s \in Seq(CallsOf(mesh))
      BY <2>2
    <2>7. HandledFound'
      <3>1. /\ Balanced(program, mesh, P, A, asked, line, queue, handled, s)
            /\ Kinds(mesh, P, A, asked, line, queue) /\ handled \in Seq(Routers(mesh))
            /\ queue # <<>> /\ Head(queue) = Answer(r) /\ handled' = Append(handled, r)
            /\ Chosen /\ HandledFound /\ r \in Routers(mesh) /\ mesh[r].ok
        BY <1>1, <1>2, <2>1, <2>4
      <3> HIDE DEF P, A, s, r, f
      <3> QED
        BY <3>1, FoundHandled
    <2>8. Balanced(program, mesh, "callback", A, asked, line, Tail(queue), Append(handled, r),
                   <<new>> \o s)
      <3>1. P # "send" /\ Head(queue) = Answer(r)
        BY <1>1, <2>1
      <3> HIDE DEF P, A, s, r, f, new
      <3> QED
        BY <1>1, <1>2, <2>1, <2>5, <2>6, <3>1, BalancedHandled
    <2>9. Balanced(program, mesh, "callback", A, asked', line', queue', handled', <<new>> \o s)
      BY <1>1, <2>4, <2>8
    <2> HIDE DEF P, A, s, r, f, new
    <2> QED
      BY <1>1, <1>a, <2>4, <2>7, <2>9, BalanceFrom
  <1> QED
    BY <1>3, <1>4

\* A callback asks the one router of its response, once.
LEMMA AskedOnceCallback ==
    ASSUME DiscoveryInv, LoneInv, Certain, AskedOnceInv, rounds > 0,
           \/ BeginEntry("app") \/ PassOver("app") \/ ListChild("app") \/ CountRead("app")
           \/ CallbackReturns("app"),
           Dsr, program' = program, mesh' = mesh
    PROVE  AskedOnceInv'
  <1> DEFINE P == pc["app"]
             A == request["app"]
             s == calls["app"]
             c == s[1]
             n == c.node
             count == nodeCount + Begun(s)
             B(place, ask, stack) ==
                 Balanced(program, mesh, place, ask, asked, line, queue, handled, stack)
  <1>1. /\ P \in {"callback", "count"} /\ s # <<>> /\ UNCHANGED <<asked, line, queue, handled>>
        /\ program \in Programs /\ mesh \in Meshes /\ nodeCount \in Nat /\ ThreadsInv
        /\ calls = [calls EXCEPT !["app"] = s] /\ pc = [pc EXCEPT !["app"] = P]
        /\ program = "dataSendRcv" /\ DOMAIN request = Thread /\ "app" \in Thread
    BY AroundTypes DEF BeginEntry, PassOver, ListChild, AtNeighbour, CountRead, CallbackReturns,
           rpcVars, wireVars, historyVars, DiscoveryInv, Around, ThreadsInv, Dsr, Thread
  <1>2. /\ Shape(mesh, "callback", s) /\ c.at = nodeCount + 1
        /\ Entries(program, mesh, s, handled, count, nodeList)
    BY <1>1 DEF LoneInv, Certain, Listing, ListedAt
  <1>3. /\ HandledFound /\ B(P, A, s) /\ Kinds(mesh, P, A, asked, line, queue)
        /\ handled \in Seq(Routers(mesh))
    BY <1>1, <1>2, AroundKinds DEF AskedOnceInv, DiscoveryInv, Entries
  <1>4. c \in CallsOf(mesh) /\ 1 \in DOMAIN s /\ n \in Routers(mesh) /\ c.next \in Nat
    <2>1. s \in Seq(CallsOf(mesh))
      BY <1>2 DEF Shape
    <2>2. c \in CallsOf(mesh) /\ 1 \in DOMAIN s
      BY <1>1, <2>1, Popped
    <2> QED
      BY <2>2 DEF CallsOf
  <1>5. HandledFound'
    BY <1>1, <1>3, HandledStay
  <1> HIDE DEF B
  <1>6. ASSUME NEW place, NEW new, Moves("app", place, new), NEW ask, request'["app"] = ask,
               B(place, ask, new)
        PROVE  AskedOnceInv'
    <2>1. Balanced(program, mesh, place, ask, asked', line', queue', handled', new)
      BY <1>1, <1>6 DEF B
    <2> QED
      BY <1>1, <1>5, <1>6, <2>1, BalanceFrom
  <1>7. ASSUME NEW place, place # "send", NEW new, Moves("app", place, new), request' = request,
               \A r : Passed(program, mesh, new, handled, r) <=> Passed(program, mesh, s, handled, r)
        PROVE  AskedOnceInv'
    <2>1. P # "send" /\ request'["app"] = A
      BY <1>1, <1>7
    <2>2. B(place, A, new)
      <3> HIDE DEF P, A, s
      <3> QED
        BY <1>3, <1>7, <2>1, BalancedElsewhere DEF B
    <2> HIDE DEF P, A, s
    <2> QED
      BY <1>6, <1>7, <2>1, <2>2
  <1>8. CASE BeginEntry("app")
    <2> DEFINE new == [s EXCEPT ![1].next = 1]
    <2>1. /\ P = "callback" /\ c.next = 0 /\ request' = request /\ pc' = pc
          /\ calls' = [calls EXCEPT !["app"] = new]
      BY <1>8 DEF BeginEntry
    <2>2. GoesOn(s, new, 1) /\ Moves("app", "callback", new)
      BY <1>1, <2>1 DEF GoesOn, Moves
    <2>3. \A r : Passed(program, mesh, new, handled, r) <=> Passed(program, mesh, s, handled, r)
      <3> HIDE DEF s, new, count
      <3> QED
        BY <1>1, <1>2, <2>1, <2>2, PassedBegin
    <2> HIDE DEF s, new
    <2> QED
      BY <1>7, <2>1, <2>2, <2>3
  <1>9. CASE CountRead("app")
    <2> DEFINE new == [s EXCEPT ![1].at = nodeCount + 1]
    <2>1. /\ calls' = [calls EXCEPT !["app"] = new] /\ request' = request
          /\ pc' = [pc EXCEPT !["app"] = "count"]
      BY <1>9 DEF CountRead, Goes
    <2>2. new = s
      <3>1. s \in Seq(CallsOf(mesh))
        BY <1>2 DEF Shape
      <3>2. [c EXCEPT !.at = nodeCount + 1] = c
        <4> HIDE DEF c
        <4> QED
          BY <1>2, <1>4 DEF CallsOf
      <3> QED
        BY <1>4, <3>1, <3>2
    <2> HIDE DEF new
    <2>3. Moves("app", "count", s)
      BY <2>1, <2>2 DEF Moves
    <2> HIDE DEF s
    <2> QED
      BY <1>7, <2>1, <2>3
  <1>10. CASE CallbackReturns("app")
    <2>1. P = "count" /\ Moves("app", c.back, Tail(s)) /\ request' = request
      BY <1>1, <1>10 DEF CallbackReturns, Goes, Moves
    <2>2. c.next > Len(Page(mesh, n))
      BY <2>1 DEF LoneInv, Certain, Listing, Ready
    <2>3. c.back # "send"
      BY <1>4 DEF CallsOf, Returns
    <2>4. \A r : Passed(program, mesh, Tail(s), handled, r) <=> Passed(program, mesh, s, handled, r)
      <3> HIDE DEF s, count
      <3> QED
        BY <1>1, <1>2, <2>2, PassedPop
    <2> HIDE DEF s
    <2> QED
      BY <1>7, <2>1, <2>3, <2>4
  <1>11. CASE PassOver("app") \/ ListChild("app")
    <2> DEFINE new == [s EXCEPT ![1].next = @ + 1]
               x == Page(mesh, n)[c.next]
    <2>1. /\ P = "callback" /\ c.next \in DOMAIN Page(mesh, n)
          /\ calls' = [calls EXCEPT !["app"] = new]
      BY <1>11 DEF PassOver, ListChild, AtNeighbour
    <2>2. GoesOn(s, new, c.next + 1)
      BY DEF GoesOn
    <2>3. \A r : Passed(program, mesh, new, handled, r)
                    <=> Passed(program, mesh, s, handled, r) \/ Names(program, x, r)
      <3> HIDE DEF s, new, count
      <3> QED
        BY <1>1, <1>2, <2>1, <2>2, PassedGoesOn
    <2>4. CASE (\A r : ~Names(program, x, r)) /\ pc' = pc /\ request' = request
      <3>1. Moves("app", "callback", new)
        BY <1>1, <2>1, <2>4 DEF Moves
      <3>2. \A r : Passed(program, mesh, new, handled, r) <=> Passed(program, mesh, s, handled, r)
        BY <2>3, <2>4
      <3> HIDE DEF s, new
      <3> QED
        BY <1>7, <2>4, <3>1, <3>2
    <2>5. CASE /\ Accepts(program, x.relation) /\ x.type = "router"
               /\ pc' = [pc EXCEPT !["app"] = "send"]
               /\ request' = [request EXCEPT !["app"] = Lqi(x.addr)]
      <3> DEFINE to == x.addr
      <3>1. \A r : Names(program, x, r) <=> r = to
        BY <2>5, SMTT(60) DEF Names
      <3>2. Occurrences(handled, n) <= 1
        <4>1. c.at \in DOMAIN handled /\ handled[c.at] = n
          BY <1>2, <1>4 DEF Entries
        <4>2. mesh[n].ok
          BY <1>3, <4>1 DEF HandledFound
        <4> HIDE DEF s, A, P, n
        <4> QED
          BY <1>3, <1>4, <4>2, HandledOnce DEF B
      <3>3. to \in Routers(mesh) => ~Due(program, mesh, s, handled, to)
        <4> SUFFICES ASSUME to \in Routers(mesh) PROVE ~Due(program, mesh, s, handled, to)
          OBVIOUS
        <4>1. Names(program, x, to)
          BY <3>1
        <4> HIDE DEF s, to, count
        <4> QED
          BY <1>1, <1>2, <2>1, <3>2, <4>1, AskedFirst DEF Certain
      <3>4. B("send", Lqi(to), new)
        <4>1. \A r : Passed(program, mesh, new, handled, r)
                        <=> Passed(program, mesh, s, handled, r) \/ r = to
          BY <2>3, <3>1
        <4>2. P # "send"
          BY <2>1
        <4> HIDE DEF s, A, P, new, to
        <4> QED
          BY <1>3, <3>3, <4>1, <4>2, BalancedAsked DEF B
      <3>5. Moves("app", "send", new) /\ request'["app"] = Lqi(to)
        BY <1>1, <2>1, <2>5 DEF Moves
      <3> HIDE DEF s, new, to
      <3> QED
        BY <1>6, <3>4, <3>5
    <2>6. CASE PassOver("app")
      <3>1. ~Accepts(program, x.relation) /\ pc' = pc /\ request' = request
        BY <2>6 DEF PassOver, Neighbour
      <3> QED
        BY <2>4, <3>1 DEF Names
    <2>7. CASE ListChild("app")
      <3>1. Accepts(program, x.relation) /\ AskIfRouter("app", x)
        BY <2>7, SMTT(60) DEF ListChild, Neighbour
      <3>2. CASE x.type = "router"
        BY <2>5, <3>1, <3>2, SMTT(60) DEF AskIfRouter, Ask, Goes, Lqi
      <3>3. CASE x.type # "router"
        BY <2>4, <3>1, <3>3, SMTT(60) DEF AskIfRouter, Names
      <3> QED
        BY <3>2, <3>3
    <2> QED
      BY <1>11, <2>6, <2>7
  <1> QED
    BY <1>8, <1>9, <1>10, <1>11

\* Every step keeps the balance.
LEMMA AskedOnceKept ==
    DiscoveryInv /\ UsedInv /\ StillInv /\ LoneInv /\ AskedOnceInv /\ [Next]_vars => AskedOnceInv'
  <1> SUFFICES ASSUME DiscoveryInv, UsedInv, StillInv, LoneInv, AskedOnceInv, [Next]_vars
               PROVE  AskedOnceInv'
    OBVIOUS
  <1> SUFFICES ASSUME Certain', rounds' > 0, pc'["app"] # "display" PROVE AskedOnceInv'
    BY DEF AskedOnceInv
  <1>1. /\ Certain /\ rounds > 0 /\ ~Change /\ losses' = losses /\ Dsr
        /\ program' = program /\ mesh' = mesh /\ alone'
    BY CertainBefore DEF DiscoveryInv, Certain, Lone
  <1>2. CASE Discover
    BY <1>1, <1>2, AskedOnceBegins
  <1>3. CASE OuterStep /\ ~Discover
    BY <1>1, <1>3, AskedOnceOuter
  <1>4. CASE pc["app"] = "display" /\ ~OuterStep
    <2>1. pc'["app"] = "display"
      <3>1. CASE Step("msg")
        BY <1>1, <1>4, <3>1, FlowMsg DEF DiscoveryInv, LoneInv, Certain, Flow
      <3>2. CASE WireStep \/ UNCHANGED vars
        BY <1>4, <3>2 DEF WireStep, RxStep, RxPost, RxLinkSrsp, RxLinkAreq, OnlyRx, NodeAnswers,
           NodeSilent, OnlyNetwork, vars, threadVars
      <3>3. ~Step("app")
        BY <1>4 DEF Step, Send, SrspGranted, SrspTimeout, Fetch, FetchTimeout, BeginEntry, PassOver,
                  ListChild, AtNeighbour, CountRead, CallbackReturns
      <3> QED
        BY <1>4, <3>1, <3>2, <3>3, StepKinds DEF Thread
    <2> QED
      BY <2>1
  <1>5. CASE pc["app"] # "display" /\ WireStep
    BY <1>1, <1>5, AskedOnceWire
  <1>6. CASE pc["app"] # "display" /\ (UNCHANGED vars \/ Step("msg"))
    <2>1. UNCHANGED <<calls, request, asked, line, queue, handled>> /\ pc'["app"] = pc["app"]
      <3>1. CASE UNCHANGED vars
        BY <3>1 DEF vars, threadVars, rpcVars, wireVars, historyVars
      <3>2. CASE Step("msg")
        BY <1>1, <3>2, FlowMsg DEF DiscoveryInv, LoneInv, Certain, Flow
      <3> QED
        BY <1>6, <3>1, <3>2
    <2>2. HandledFound'
      BY <1>1, <1>6, <2>1, HandledStay DEF AskedOnceInv
    <2> QED
      BY <1>1, <1>6, <2>1, <2>2 DEF AskedOnceInv
  <1>7. CASE Step("app")
    BY <1>1, <1>7, AskedOnceWaits, AskedOnceFetch, AskedOnceCallback DEF Step
  <1> QED
    BY <1>2, <1>3, <1>4, <1>5, <1>6, <1>7, StepKinds DEF Thread

-----------------------------------------------------------------------------
(* ... and how its cursor goes through what was found.                     *)

\* The list of a router's accepted neighbours is a sequence.
LEMMA ListedIndex ==
    ASSUME NEW p, NEW m \in Meshes, NEW n \in Routers(m)
    PROVE  /\ Listed(p, m, n) \in Seq(Neighbours(m, n))
           /\ \A k \in DOMAIN Listed(p, m, n) : k \in Nat \ {0} /\ k <= Len(Listed(p, m, n))
           /\ Len(Listed(p, m, n)) \in Nat
  <1>1. Page(m, n) \in Seq(Neighbours(m, n))
    BY PageIsSequence
  <1>2. Len(Page(m, n)) \in 0..Len(Page(m, n))
    BY <1>1
  <1>3. Listed(p, m, n) \in Seq(Neighbours(m, n))
    BY <1>1, <1>2, AmongComputed DEF Listed
  <1> HIDE DEF Listed
  <1> QED
    BY <1>3

\* No end device is a router, or listed twice.
LEMMA EndsDiffer ==
    ASSUME NEW p \in Programs, NEW m \in Meshes, EndDevicesOnce(p, m), NEW n1 \in Routers(m),
           NEW n2 \in Routers(m), NEW i \in DOMAIN Listed(p, m, n1), NEW a, EndAt(p, m, n1, i, a)
    PROVE  /\ a \notin Routers(m)
           /\ \A j \in DOMAIN Listed(p, m, n2) : EndAt(p, m, n2, j, a) => n1 = n2 /\ i = j
  BY DEF EndDevicesOnce, EndAt

\* The cursor asks a router, ...
LEMMA CursorRouter ==
    ASSUME NEW p \in Programs, NEW m \in Meshes, NEW h \in Seq(Routers(m)), Once(h),
           NEW i \in DOMAIN h
    PROVE  /\ \A a : BeforeCursor(p, m, h, i, 1, a) <=> BeforeCursor(p, m, h, i, 0, a) \/ a = h[i]
           /\ EndDevicesOnce(p, m) => ~BeforeCursor(p, m, h, i, 0, h[i])
  <1>1. \A j \in DOMAIN h : j \in Nat /\ h[j] \in Routers(m)
    OBVIOUS
  <1>2. \A j \in DOMAIN h : \A k \in DOMAIN Listed(p, m, h[j]) : ~(k < 1) /\ ~(k < 0)
    BY <1>1, ListedIndex
  <1>3. ~(0 > 0) /\ 1 > 0
    OBVIOUS
  <1>4. ASSUME NEW a
        PROVE  BeforeCursor(p, m, h, i, 1, a) <=> BeforeCursor(p, m, h, i, 0, a) \/ a = h[i]
    BY <1>2, <1>3 DEF BeforeCursor
  <1>5. ASSUME EndDevicesOnce(p, m), BeforeCursor(p, m, h, i, 0, h[i]) PROVE FALSE
    <2>1. \A j \in DOMAIN h : j < i => h[j] # h[i]
      BY <1>1 DEF Once
    <2>2. \A j \in DOMAIN h : \A k \in DOMAIN Listed(p, m, h[j]) : ~EndAt(p, m, h[j], k, h[i])
      BY <1>1, <1>5, EndsDiffer
    <2> QED
      BY <1>3, <1>5, <2>1, <2>2 DEF BeforeCursor
  <1> QED
    BY <1>4, <1>5

\* ... each of its end devices, ...
LEMMA CursorChild ==
    ASSUME NEW p \in Programs, NEW m \in Meshes, NEW h \in Seq(Routers(m)), Once(h),
           NEW i \in DOMAIN h, NEW c \in DOMAIN Listed(p, m, h[i])
    PROVE  /\ Listed(p, m, h[i])[c].type = "end" =>
                 /\ \A a : BeforeCursor(p, m, h, i, c + 1, a)
                              <=> BeforeCursor(p, m, h, i, c, a)
                                    \/ a = Listed(p, m, h[i])[c].addr
                 /\ EndDevicesOnce(p, m) => ~BeforeCursor(p, m, h, i, c, Listed(p, m, h[i])[c].addr)
           /\ Listed(p, m, h[i])[c].type # "end" =>
                 \A a : BeforeCursor(p, m, h, i, c + 1, a) <=> BeforeCursor(p, m, h, i, c, a)
  <1> DEFINE L == Listed(p, m, h[i])
             b == L[c].addr
  <1>1. /\ \A j \in DOMAIN h : j \in Nat /\ h[j] \in Routers(m)
        /\ c \in Nat \ {0} /\ c > 0 /\ c + 1 > 0
        /\ \A k \in DOMAIN L : k < c + 1 <=> k < c \/ k = c
    <2>1. h[i] \in Routers(m)
      OBVIOUS
    <2>2. c \in Nat \ {0} /\ \A k \in DOMAIN L : k \in Nat
      BY <2>1, ListedIndex
    <2> QED
      BY <2>2
  <1>2. ASSUME NEW a
        PROVE  BeforeCursor(p, m, h, i, c + 1, a)
                   <=> BeforeCursor(p, m, h, i, c, a) \/ EndAt(p, m, h[i], c, a)
    <2>1. \A j \in DOMAIN h : j < i \/ (j = i /\ c + 1 > 0) <=> j < i \/ (j = i /\ c > 0)
      BY <1>1
    <2>2. (\E j \in DOMAIN h : \E k \in DOMAIN Listed(p, m, h[j]) :
              (j < i \/ (j = i /\ k < c + 1)) /\ EndAt(p, m, h[j], k, a))
          <=> \/ \E j \in DOMAIN h : \E k \in DOMAIN Listed(p, m, h[j]) :
                    (j < i \/ (j = i /\ k < c)) /\ EndAt(p, m, h[j], k, a)
              \/ EndAt(p, m, h[i], c, a)
      BY <1>1
    <2> QED
      BY <2>1, <2>2 DEF BeforeCursor
  <1>3. ASSUME EndDevicesOnce(p, m), L[c].type = "end", BeforeCursor(p, m, h, i, c, b) PROVE FALSE
    <2>1. EndAt(p, m, h[i], c, b)
      BY <1>3 DEF EndAt
    <2>2. \A j \in DOMAIN h : h[j] # b
      BY <1>1, <1>3, <2>1, EndsDiffer
    <2>3. PICK j \in DOMAIN h : \E k \in DOMAIN Listed(p, m, h[j]) :
             (j < i \/ (j = i /\ k < c)) /\ EndAt(p, m, h[j], k, b)
      BY <1>3, <2>2 DEF BeforeCursor
    <2>4. PICK k \in DOMAIN Listed(p, m, h[j]) :
             (j < i \/ (j = i /\ k < c)) /\ EndAt(p, m, h[j], k, b)
      BY <2>3
    <2>5. h[i] = h[j] /\ c = k
      <3> HIDE DEF b
      <3> QED
        BY <1>1, <1>3, <2>1, <2>4, EndsDiffer
    <2> QED
      BY <1>1, <2>4, <2>5 DEF Once
  <1>4. L[c].type = "end" => \A a : EndAt(p, m, h[i], c, a) <=> a = b
    BY DEF EndAt
  <1>5. L[c].type # "end" => \A a : ~EndAt(p, m, h[i], c, a)
    BY DEF EndAt
  <1> QED
    BY <1>2, <1>3, <1>4, <1>5

\* ... and goes on to the next router when it has passed them all.
LEMMA CursorNext ==
    ASSUME NEW p \in Programs, NEW m \in Meshes, NEW h \in Seq(Routers(m)), NEW i \in DOMAIN h,
           NEW c \in Nat, c > Len(Listed(p, m, h[i])), NEW a
    PROVE  BeforeCursor(p, m, h, i + 1, 0, a) <=> BeforeCursor(p, m, h, i, c, a)
  <1>1. /\ \A j \in DOMAIN h : j \in Nat /\ h[j] \in Routers(m)
        /\ Len(Listed(p, m, h[i])) \in Nat
        /\ \A k \in DOMAIN Listed(p, m, h[i]) : k \in Nat \ {0} /\ k < c
    <2>1. h[i] \in Routers(m)
      OBVIOUS
    <2> QED
      BY <2>1, ListedIndex
  <1>2. c > 0 /\ ~(0 > 0) /\ \A j \in DOMAIN h : (j < i + 1 <=> j < i \/ j = i)
    BY <1>1
  <1>3. \A j \in DOMAIN h : \A k \in DOMAIN Listed(p, m, h[j]) : ~(k < 0)
    BY <1>1, ListedIndex
  <1> QED
    BY <1>1, <1>2, <1>3 DEF BeforeCursor

\* At first it has asked none, ...
LEMMA CursorFirst ==
    ASSUME NEW p \in Programs, NEW m \in Meshes, NEW h \in Seq(Routers(m)), NEW a
    PROVE  ~BeforeCursor(p, m, h, 1, 0, a)
  <1>1. \A j \in DOMAIN h : ~(j < 1) /\ h[j] \in Routers(m)
    OBVIOUS
  <1>2. \A j \in DOMAIN h : \A k \in DOMAIN Listed(p, m, h[j]) : ~(k < 0)
    BY <1>1, ListedIndex
  <1>3. ~(0 > 0)
    OBVIOUS
  <1> QED
    BY <1>1, <1>2, <1>3 DEF BeforeCursor

\* ... and at the end all of them.
LEMMA CursorLast ==
    ASSUME NEW p, NEW m, NEW R, NEW h \in Seq(R), NEW i \in Nat, i > Len(h), NEW c, NEW a
    PROVE  BeforeCursor(p, m, h, i, c, a)
              <=> \E j \in DOMAIN h : h[j] = a \/ \E k \in DOMAIN Listed(p, m, h[j]) :
                                                    EndAt(p, m, h[j], k, a)
  <1>1. \A j \in DOMAIN h : j < i
    OBVIOUS
  <1> QED
    BY <1>1 DEF BeforeCursor

-----------------------------------------------------------------------------
(* The devices the cursor has passed are those that were asked.            *)

\* One more device is asked.
LEMMA ShownMore ==
    ASSUME NEW p, NEW m, NEW h, NEW s, NEW i, NEW c, NEW j, NEW d,
           ShownUpTo(p, m, h, s, i, c), NEW b \in Routers(m) \cup Addresses(m),
           EndDevicesOnce(p, m) => ~BeforeCursor(p, m, h, i, c, b),
           \A a : BeforeCursor(p, m, h, j, d, a) <=> BeforeCursor(p, m, h, i, c, a) \/ a = b
    PROVE  ShownUpTo(p, m, h, Append(s, b), j, d)
  <1> DEFINE t == Append(s, b)
  <1>1. s \in Seq(Routers(m) \cup Addresses(m))
    BY DEF ShownUpTo
  <1>2. /\ t \in Seq(Routers(m) \cup Addresses(m))
        /\ DOMAIN t = DOMAIN s \cup {Len(s) + 1} /\ t[Len(s) + 1] = b
        /\ \A x \in DOMAIN s : t[x] = s[x]
    BY <1>1
  <1> HIDE DEF t
  <1>3. EndDevicesOnce(p, m) => \A x \in DOMAIN s : s[x] # b
    BY DEF ShownUpTo
  <1>4. EndDevicesOnce(p, m) => Once(t)
    BY <1>2, <1>3 DEF Once, ShownUpTo
  <1>5. ASSUME NEW a
        PROVE  (\E x \in DOMAIN t : t[x] = a) <=> BeforeCursor(p, m, h, j, d, a)
    <2>1. (\E x \in DOMAIN t : t[x] = a) <=> (\E x \in DOMAIN s : s[x] = a) \/ a = b
      BY <1>2
    <2> QED
      BY <2>1 DEF ShownUpTo
  <1> QED
    BY <1>2, <1>4, <1>5 DEF ShownUpTo, t

\* The cursor moves past what is not asked.
LEMMA ShownSame ==
    ASSUME NEW p, NEW m, NEW h, NEW s, NEW i, NEW c, NEW j, NEW d,
           ShownUpTo(p, m, h, s, i, c),
           \A a : BeforeCursor(p, m, h, j, d, a) <=> BeforeCursor(p, m, h, i, c, a)
    PROVE  ShownUpTo(p, m, h, s, j, d)
  BY DEF ShownUpTo

\* When the discovery has ended each router found has been handled, once, and is listed.
LEMMA ListComplete ==
    ASSUME DiscoveryInv, StillInv, LoneInv, AskedOnceInv, Certain, rounds > 0,
           pc["app"] # "send" \/ ~IsLqi(request["app"]), phase # "discover",
           pc["app"] # "display"
    PROVE  /\ handled \in Bijection(1..Len(handled), Found)
           /\ handled \in Seq(Routers(mesh)) /\ Once(handled)
           /\ nodeCount = Len(handled) /\ nodeCount \in Nat
           /\ \A i \in 1..nodeCount : nodeList[i] = Plain(handled[i])
  <1>1. Still /\ Around
    BY DEF StillInv, Calm, Certain, Lone, DiscoveryInv
  <1>2. calls["app"] = <<>>
    BY <1>1 DEF Still
  <1>3. Entries(program, mesh, <<>>, handled, nodeCount, nodeList) /\ nodeCount \in Nat
    <2>1. Entries(program, mesh, <<>>, handled, nodeCount + Begun(<<>>), nodeList)
      BY <1>2 DEF LoneInv, Certain, Listing, ListedAt
    <2>2. nodeCount + Begun(<<>>) = nodeCount /\ nodeCount \in Nat
      BY <1>1, AroundTypes DEF Begun
    <2> QED
      BY <2>1, <2>2
  <1>4. nodeCount = Len(handled) /\ \A i \in 1..nodeCount : nodeList[i] = Plain(handled[i])
    BY <1>3, EntriesListed
  <1>5. handled \in Seq(Routers(mesh))
    BY <1>3 DEF Entries
  <1>6. handled \in Bijection(1..Len(handled), Found)
    <2>1. /\ Chosen /\ HandledFound
          /\ Balanced(program, mesh, pc["app"], request["app"], asked, line, queue, handled, <<>>)
      BY <1>1, <1>2 DEF Around, AskedOnceInv
    <2>2. ASSUME NEW r
          PROVE  /\ About(pc["app"], request["app"], r) = 0 /\ Copies(asked, Lqi(r)) = 0
                 /\ Occurrences(line, Answer(r)) = 0 /\ Occurrences(queue, Answer(r)) = 0
      <3>1. About(pc["app"], request["app"], r) = 0
        BY DEF About, Lqi, IsLqi
      <3> QED
        BY <1>1, <3>1, NoTokens DEF Still
    <2> QED
      BY <1>5, <2>1, <2>2, AllHandled
  <1>7. Once(handled)
    <2>1. \A i, j \in 1..Len(handled) : handled[i] = handled[j] => i = j
      BY <1>6 DEF Bijection, Injection, IsInjective
    <2>2. DOMAIN handled = 1..Len(handled)
      BY <1>5
    <2> QED
      BY <2>1, <2>2 DEF Once
  <1> QED
    BY <1>3, <1>4, <1>5, <1>6, <1>7

\* The loop goes on by one device, and asks it unless it is a router's child that is a
\* router itself.
LEMMA ShownNext ==
    ASSUME DiscoveryInv, StillInv, LoneInv, AskedOnceInv, Certain, rounds > 0, ShowNext,
           phase # "discover",
           ShownUpTo(program, mesh, handled, shown, cursor.node, cursor.child)
    PROVE  ShownUpTo(program, mesh, handled, shown', cursor'.node, cursor'.child)
  <1> DEFINE i == cursor.node
             c == cursor.child
             n == handled[i]
             L == Listed(program, mesh, n)
             children == nodeList[i].children
             Up(s, j, d) == ShownUpTo(program, mesh, handled, s, j, d)
             B(j, d, a) == BeforeCursor(program, mesh, handled, j, d, a)
  <1>1. /\ pc["app"] = "show" /\ i <= nodeCount /\ i \in Nat \ {0} /\ c \in Nat
        /\ program \in Programs /\ mesh \in Meshes
        /\ cursor \in [node : Nat \ {0}, child : Nat] /\ Up(shown, i, c)
    BY DEF ShowNext, DiscoveryInv, ListInv, Around, Chosen
  <1>2. /\ handled \in Seq(Routers(mesh)) /\ Once(handled) /\ i \in DOMAIN handled
        /\ nodeList[i] = Plain(n) /\ n \in Routers(mesh)
    <2>1. /\ handled \in Seq(Routers(mesh)) /\ Once(handled)
          /\ nodeCount = Len(handled) /\ nodeCount \in Nat
          /\ \A j \in 1..nodeCount : nodeList[j] = Plain(handled[j])
      BY <1>1, ListComplete
    <2> HIDE DEF Up
    <2>2. i \in 1..nodeCount /\ i \in DOMAIN handled
      BY <1>1, <2>1
    <2> QED
      BY <2>1, <2>2
  <1>3. L \in Seq(Neighbours(mesh, n)) /\ \A k \in DOMAIN L : k \in Nat \ {0}
    BY <1>1, <1>2, ListedIndex
  <1>4. /\ nodeList[i].addr = n /\ DOMAIN children = DOMAIN L /\ Len(children) = Len(L)
        /\ \A k \in DOMAIN L : children[k].addr = L[k].addr /\ children[k].type = L[k].type
    <2>1. nodeList[i].addr = n
          /\ children = [k \in DOMAIN L |-> [addr |-> L[k].addr, type |-> L[k].type]]
      BY <1>2 DEF Plain
    <2> HIDE DEF L, children
    <2>2. DOMAIN L = 1..Len(L) /\ Len(L) \in Nat
      BY <1>3
    <2>3. children \in Seq({[addr |-> L[k].addr, type |-> L[k].type] : k \in DOMAIN L})
      BY <2>1, <2>2
    <2> QED
      BY <2>1, <2>2, <2>3
  <1>5. CASE c = 0 /\ AskEndpoints(nodeList[i].addr) /\ cursor' = [cursor EXCEPT !.child = 1]
    <2>1. shown' = Append(shown, n) /\ cursor'.node = i /\ cursor'.child = 1
      BY <1>1, <1>4, <1>5 DEF AskEndpoints
    <2>2. /\ \A a : B(i, 1, a) <=> B(i, c, a) \/ a = n
          /\ EndDevicesOnce(program, mesh) => ~B(i, c, n)
      BY <1>1, <1>2, <1>5, CursorRouter
    <2>3. n \in Routers(mesh) \cup Addresses(mesh)
      BY <1>2
    <2>4. Up(Append(shown, n), i, 1)
      <3> HIDE DEF i, c, n
      <3> QED
        BY <1>1, <2>2, <2>3, ShownMore
    <2> QED
      BY <2>1, <2>4
  <1>6. CASE /\ c \in DOMAIN children /\ AskedAsChild(children[c]) /\ AskEndpoints(children[c].addr)
             /\ cursor' = [cursor EXCEPT !.child = c + 1]
    <2> DEFINE b == L[c].addr
    <2>1. /\ shown' = Append(shown, b) /\ cursor'.node = i /\ cursor'.child = c + 1
          /\ c \in DOMAIN L /\ L[c].type = "end"
      BY <1>1, <1>4, <1>6 DEF AskEndpoints, AskedAsChild
    <2>2. /\ \A a : B(i, c + 1, a) <=> B(i, c, a) \/ a = b
          /\ EndDevicesOnce(program, mesh) => ~B(i, c, b)
      BY <1>1, <1>2, <2>1, CursorChild
    <2>3. b \in Routers(mesh) \cup Addresses(mesh)
      <3>1. L[c] \in Neighbours(mesh, n)
        BY <1>3, <2>1
      <3> QED
        BY <1>2, <3>1 DEF Addresses
    <2>4. Up(Append(shown, b), i, c + 1)
      <3> HIDE DEF i, c, n, b
      <3> QED
        BY <1>1, <2>2, <2>3, ShownMore
    <2> QED
      BY <2>1, <2>4
  <1>7. CASE /\ c \in DOMAIN children /\ ~AskedAsChild(children[c])
             /\ cursor' = [cursor EXCEPT !.child = c + 1] /\ shown' = shown
    <2>1. /\ cursor'.node = i /\ cursor'.child = c + 1
          /\ c \in DOMAIN L /\ L[c].type # "end"
      BY <1>1, <1>4, <1>7 DEF AskedAsChild
    <2>2. \A a : B(i, c + 1, a) <=> B(i, c, a)
      BY <1>1, <1>2, <2>1, CursorChild
    <2>3. Up(shown, i, c + 1)
      <3> HIDE DEF i, c, n
      <3> QED
        BY <1>1, <2>2, ShownSame
    <2> QED
      BY <1>7, <2>1, <2>3
  <1>8. CASE c > Len(children) /\ cursor' = [node |-> i + 1, child |-> 0] /\ shown' = shown
    <2>1. cursor'.node = i + 1 /\ cursor'.child = 0 /\ c > Len(L)
      BY <1>4, <1>8
    <2>2. \A a : B(i + 1, 0, a) <=> B(i, c, a)
      BY <1>1, <1>2, <2>1, CursorNext
    <2>3. Up(shown, i + 1, 0)
      <3> HIDE DEF i, c, n
      <3> QED
        BY <1>1, <2>2, ShownSame
    <2> QED
      BY <1>8, <2>1, <2>3
  <1> QED
    BY <1>5, <1>6, <1>7, <1>8 DEF ShowNext

\* Where nothing is left of a discovery, no step of a thread or of the network touches
\* what it has found.
LEMMA StillAside ==
    ASSUME Around, Still, WireStep \/ (\E t \in Thread : Step(t)) \/ UNCHANGED vars
    PROVE  UNCHANGED <<handled, nodeCount, nodeList, shown, cursor>>
  <1>1. CASE WireStep \/ UNCHANGED vars
    BY <1>1 DEF WireStep, RxStep, RxPost, RxLinkSrsp, RxLinkAreq, OnlyRx, NodeAnswers, NodeSilent,
                OnlyNetwork, vars, listVars, appVars, historyVars
  <1>2. ASSUME NEW t \in Thread, Step(t)
        PROVE  UNCHANGED <<handled, nodeCount, nodeList, shown, cursor>>
    <2>1. pc[t] \notin {"callback", "count"}
      BY DEF Around, ThreadsInv, Still, Thread
    <2>2. CASE Fetch(t)
      <3>1. /\ UNCHANGED <<nodeCount, nodeList, shown, cursor>> /\ queue # <<>>
            /\ Handle(t, Head(queue), After(t, pc[t]))
        BY <2>2 DEF Fetch, listVars, appVars
      <3>2. ~IsLqi(Head(queue))
        <4>1. 1 \in DOMAIN queue /\ Head(queue) = queue[1]
          BY <3>1 DEF Around, WireInv
        <4> QED
          BY <4>1 DEF Still, NoLqi
      <3> QED
        BY <3>1, <3>2 DEF Handle, Succeeds, IsLqi
    <2>3. CASE Send(t) \/ SrspGranted(t) \/ SrspTimeout(t) \/ FetchTimeout(t)
      BY <2>3 DEF Send, SrspGranted, SrspTimeout, FetchTimeout, listVars, appVars, historyVars
    <2> QED
      BY <1>2, <2>1, <2>2, <2>3 DEF Step, BeginEntry, PassOver, ListChild, AtNeighbour, CountRead,
                                    CallbackReturns
  <1> QED
    BY <1>1, <1>2

\* No step of a thread or of the network changes what has been asked.
LEMMA ShownInside ==
    WireStep \/ (\E t \in Thread : Step(t)) \/ UNCHANGED vars => shown' = shown
  <1>1. CASE WireStep \/ UNCHANGED vars
    BY <1>1 DEF WireStep, RxStep, RxPost, RxLinkSrsp, RxLinkAreq, OnlyRx, NodeAnswers, NodeSilent,
                OnlyNetwork, vars, historyVars
  <1>2. ASSUME NEW t \in Thread, Step(t) PROVE shown' = shown
    BY <1>2 DEF Step, Send, SrspGranted, SrspTimeout, Fetch, FetchTimeout, BeginEntry, PassOver,
                ListChild, CountRead, CallbackReturns, historyVars
  <1> QED
    BY <1>1, <1>2

\* A thread waits for a confirmation of data only.
LEMMA ConfirmsData ==
    ASSUME Around, PhaseInv', phase' = phase, Still \/ phase = "discover", Step("app"),
           pc["app"] \in {"confirm", "confirmed"} => phase = "data",
           pc'["app"] \in {"confirm", "confirmed"}
    PROVE  phase = "data"
  <1>1. phase # "discover" /\ Still
    BY DEF PhaseInv
  <1>2. calls["app"] = <<>> /\ calls' = calls
    BY <1>1, StillElsewhere DEF Still, Thread
  <1>a. /\ pc \in [Thread -> Places \cup MsgPlaces] /\ calls \in [Thread -> Seq(Call)]
        /\ StackInv /\ ThreadsInv /\ "app" \in Thread
    BY DEF Around, ThreadsInv, Thread
  <1>3. \A place : MovesTo("app", place) => pc'["app"] = place
    BY <1>a DEF MovesTo, Moves, Thread
  <1>4. \E place \in {"wait", "fetch", After("app", "fetch"), After("app", pc["app"])} :
           pc' = [pc EXCEPT !["app"] = place]
    <2>1. pc["app"] \notin {"callback", "count"}
      BY <1>2 DEF Around, ThreadsInv, Thread
    <2>2. CASE Fetch("app")
      <3>1. Handle("app", Head(queue), After("app", pc["app"])) /\ queue # <<>>
        BY <2>2 DEF Fetch
      <3>2. ~IsLqi(Head(queue))
        <4>1. 1 \in DOMAIN queue /\ Head(queue) = queue[1]
          BY <3>1 DEF Around, WireInv
        <4> QED
          BY <1>1, <4>1 DEF Still, NoLqi
      <3> QED
        BY <3>1, <3>2 DEF Handle, Succeeds, IsLqi, Goes
    <2>3. CASE Send("app") \/ SrspGranted("app") \/ SrspTimeout("app") \/ FetchTimeout("app")
      BY <2>3 DEF Send, SrspGranted, SrspTimeout, FetchTimeout, Goes
    <2> QED
      BY <2>1, <2>2, <2>3 DEF Step, BeginEntry, PassOver, ListChild, AtNeighbour, CountRead,
                              CallbackReturns
  <1>5. pc'["app"] \in {"wait", "fetch", After("app", "fetch"), After("app", pc["app"])}
    BY <1>a, <1>4
  <1> QED
    BY <1>5 DEF After

\* The steps of displayDevices and of the user.
LEMMA ShownOuter ==
    ASSUME DiscoveryInv, StillInv, LoneInv, AskedOnceInv, Certain, PhaseFits, ShownSoFar,
           PhaseInv', OuterStep, ~Change, rounds' = rounds, program' = program, mesh' = mesh
    PROVE  PhaseFits' /\ ShownSoFar'
  <1>a. /\ pc \in [Thread -> Places \cup MsgPlaces] /\ "app" \in Thread /\ PhaseInv
        /\ handled' = handled
    BY DEF DiscoveryInv, Around, ThreadsInv, Thread, OuterStep, SendData, Discover, LoopEnd,
           ShowNext, ShowEnds, DataSent, MsgWait, historyVars
  <1>1. CASE MsgWait
    <2>1. UNCHANGED <<nodeCount, cursor, phase, shown>> /\ pc'["app"] = pc["app"]
      BY <1>a, <1>1 DEF MsgWait, Goes, listVars, appVars, historyVars
    <2> QED
      BY <1>a, <2>1 DEF PhaseFits, ShownSoFar, Displaying
  <1>2. CASE Discover
    <2>1. shown' = shown /\ phase' = "discover" /\ pc["app"] = "display" /\ pc'["app"] = "send"
      BY <1>a, <1>2 DEF Discover, Ask, Goes, historyVars
    <2> QED
      BY <2>1 DEF PhaseFits, ShownSoFar, Displaying
  <1>3. CASE SendData
    <2>1. /\ UNCHANGED <<nodeCount, cursor, shown>> /\ phase' = "data" /\ rounds > 0
          /\ pc["app"] = "console" /\ pc'["app"] = "send"
      BY <1>a, <1>3 DEF SendData, Ask, Goes, listVars
    <2> QED
      BY <1>a, <2>1 DEF PhaseFits, ShownSoFar, Displaying
  <1>4. CASE LoopEnd
    <2>1. /\ UNCHANGED <<nodeCount, shown>> /\ phase' = "show" /\ pc["app"] = "loop"
          /\ cursor' = IF phase = "discover" THEN [node |-> 1, child |-> 0] ELSE cursor
          /\ pc'["app"] = "show"
      BY <1>a, <1>4 DEF LoopEnd, Goes, listVars, historyVars, Certain, Lone, Dsr
    <2>2. PhaseFits'
      BY <2>1 DEF PhaseFits
    <2>3. CASE phase = "discover"
      <3>1. shown = <<>> /\ cursor'.node = 1 /\ cursor'.child = 0
        BY <2>1, <2>3 DEF PhaseFits
      <3>2. program \in Programs /\ mesh \in Meshes /\ handled \in Seq(Routers(mesh))
        BY DEF DiscoveryInv, Around, Chosen, LoneInv, Certain, Listing, ListedAt, Entries
      <3>3. ShownUpTo(program, mesh, handled, <<>>, 1, 0)
        BY <3>2, CursorFirst DEF ShownUpTo, Once
      <3> QED
        BY <1>a, <2>1, <2>2, <3>1, <3>3 DEF ShownSoFar, Displaying
    <2>4. CASE phase # "discover"
      BY <1>a, <2>1, <2>2, <2>4 DEF ShownSoFar, Displaying
    <2> QED
      BY <2>3, <2>4
  <1>5. CASE ShowNext
    <2>1. /\ phase' = phase /\ nodeCount' = nodeCount /\ pc["app"] = "show"
          /\ pc'["app"] \in {"send", "show"} /\ cursor.node <= nodeCount
      BY <1>a, <1>5 DEF ShowNext, AskEndpoints, Ask, Goes, listVars
    <2>2. phase # "discover" /\ rounds > 0
      BY <1>a, <2>1 DEF PhaseInv, PhaseFits
    <2>3. phase # "data"
      <3>1. cursor.node \in Nat /\ nodeCount \in Nat
        BY AroundTypes DEF DiscoveryInv, ListInv
      <3>2. ~(cursor.node > nodeCount)
        BY <2>1, <3>1
      <3> QED
        BY <2>1, <2>2, <3>2 DEF ShownSoFar, Displaying
    <2>4. ShownUpTo(program, mesh, handled, shown', cursor'.node, cursor'.child)
      BY <1>5, <2>1, <2>2, ShownNext DEF ShownSoFar, Displaying
    <2> QED
      BY <1>a, <2>1, <2>2, <2>3, <2>4 DEF PhaseFits, ShownSoFar, Displaying
  <1>6. CASE ShowEnds \/ DataSent
    <2>1. /\ UNCHANGED <<nodeCount, cursor, phase, shown>> /\ pc'["app"] = "console"
          /\ pc["app"] = "confirmed" \/ (pc["app"] = "show" /\ cursor.node > nodeCount)
      BY <1>a, <1>6 DEF ShowEnds, DataSent, Goes, listVars, historyVars
    <2>2. phase # "discover"
      BY <1>a, <2>1 DEF PhaseInv
    <2> QED
      BY <1>a, <2>1, <2>2 DEF PhaseFits, ShownSoFar, Displaying
  <1> QED
    BY <1>1, <1>2, <1>3, <1>4, <1>5, <1>6 DEF OuterStep

\* Every step keeps what the cursor says.
LEMMA ShownKept ==
    /\ DiscoveryInv /\ UsedInv /\ StillInv /\ LoneInv /\ AskedOnceInv /\ ShownInv
    /\ [Next]_vars
    => ShownInv'
  <1> SUFFICES ASSUME DiscoveryInv, UsedInv, StillInv, LoneInv, AskedOnceInv, ShownInv,
                      [Next]_vars, Certain'
               PROVE  PhaseFits' /\ ShownSoFar'
    BY DEF ShownInv
  <1>1. /\ Dsr /\ ~Forks /\ slow = 0 /\ (Lone \/ Change) /\ program' = program /\ mesh' = mesh
        /\ alone' /\ losses = 0 /\ Around /\ SemInv /\ PhaseInv' /\ PhaseInv
    BY LoneBefore, UsedKept, DiscoveryKept DEF Certain, Lone, Undisturbed, DiscoveryInv, Around
  <1>2. CASE Change
    <2>1. shown' = <<>> /\ pc'["app"] = "display" /\ phase' = phase
      BY <1>1, <1>2 DEF Change, Goes, Around, ThreadsInv, Thread
    <2>2. rounds' > 0
      BY <1>2, UsedKept
    <2> QED
      BY <2>1, <2>2 DEF PhaseFits, ShownSoFar, Displaying
  <1>3. CASE ~Change
    <2>1. Certain /\ PhaseFits /\ ShownSoFar
      BY <1>1, <1>3 DEF Certain, ShownInv
    <2>2. CASE OuterStep
      <3>1. rounds' = rounds
        BY <1>3, <2>2 DEF OuterStep, SendData, Discover, LoopEnd, ShowNext, ShowEnds, DataSent,
                          MsgWait, boundVars
      <3> QED
        BY <1>1, <1>3, <2>1, <2>2, <3>1, ShownOuter
    <2>3. CASE WireStep \/ (\E t \in Thread : Step(t)) \/ UNCHANGED vars
      <3>1. phase' = phase /\ rounds' = rounds /\ shown' = shown
        BY <2>3, Inside, ShownInside
      <3>2. \/ pc'["app"] = pc["app"]
            \/ /\ pc["app"] \notin {"console", "display"} /\ pc'["app"] \notin {"console", "display"}
               /\ Step("app")
        <4>1. CASE WireStep \/ UNCHANGED vars
          BY <4>1 DEF WireStep, RxStep, RxPost, RxLinkSrsp, RxLinkAreq, OnlyRx, NodeAnswers,
                      NodeSilent, OnlyNetwork, vars, threadVars
        <4>2. CASE Step("msg")
          BY <1>1, <2>1, <4>2, FlowMsg DEF LoneInv, Certain, Flow
        <4>3. CASE Step("app")
          BY <1>1, <4>3, AppInside
        <4> QED
          BY <2>3, <4>1, <4>2, <4>3 DEF Thread
      <3>3. phase = "discover" \/ Still
        BY <1>1 DEF StillInv, Calm
      <3>4. PhaseFits'
        <4>1. pc'["app"] \in {"confirm", "confirmed"} => phase = "data"
          BY <1>1, <2>1, <3>1, <3>2, <3>3, ConfirmsData DEF PhaseFits
        <4> QED
          BY <2>1, <3>1, <3>2, <4>1 DEF PhaseFits
      <3>5. CASE phase # "discover"
        <4>1. UNCHANGED <<handled, nodeCount, nodeList, shown, cursor>>
          BY <1>1, <2>3, <3>3, <3>5, StillAside
        <4>2. ShownSoFar'
          BY <1>1, <2>1, <3>1, <3>2, <4>1 DEF ShownSoFar, Displaying
        <4> QED
          BY <3>4, <4>2
      <3> QED
        BY <3>1, <3>4, <3>5 DEF ShownSoFar, Displaying
    <2> QED
      BY <2>2, <2>3, StepKinds
  <1> QED
    BY <1>2, <1>3

\* At first there is nothing to be said.
LEMMA InitShown == Init => AskedOnceInv /\ ShownInv
  <1>1. Init => rounds = 0 /\ shown = <<>> /\ phase = "discover" /\ pc["app"] = "console"
    BY DEF Init, Thread
  <1>2. ~(0 > 0)
    OBVIOUS
  <1> QED
    BY <1>1, <1>2 DEF AskedOnceInv, ShownInv, PhaseFits, ShownSoFar, Displaying

\* What the cursor has passed when the loop has ended are the devices.
LEMMA AllShown ==
    ASSUME NEW i \in Nat, NEW c, NEW s, handled \in Seq(Routers(mesh)), i > Len(handled),
           handled \in Bijection(1..Len(handled), Found),
           ShownUpTo(program, mesh, handled, s, i, c)
    PROVE  /\ {s[x] : x \in DOMAIN s} = Devices
           /\ EndDevicesOnce(program, mesh) => Len(s) = Cardinality(Devices)
  <1>1. \A a : (\E x \in DOMAIN s : s[x] = a)
                  <=> \E j \in DOMAIN handled : handled[j] = a
                         \/ \E k \in DOMAIN Listed(program, mesh, handled[j]) :
                               EndAt(program, mesh, handled[j], k, a)
    BY CursorLast DEF ShownUpTo
  <1>2. {handled[j] : j \in DOMAIN handled} = Found
    <2>1. DOMAIN handled = 1..Len(handled)
      OBVIOUS
    <2> QED
      BY <2>1 DEF Bijection, Injection, Surjection
  <1>3. \A a : a \in Devices <=> \E n \in Found : n = a
                                   \/ \E k \in DOMAIN Listed(program, mesh, n) :
                                         EndAt(program, mesh, n, k, a)
    BY DEF Devices, EndAt
  <1>4. {s[x] : x \in DOMAIN s} = Devices
    <2> DEFINE Is(n, a) == n = a \/ \E k \in DOMAIN Listed(program, mesh, n) :
                                      EndAt(program, mesh, n, k, a)
    <2>a. /\ \A a : (\E x \in DOMAIN s : s[x] = a) <=> \E j \in DOMAIN handled : Is(handled[j], a)
          /\ \A a : a \in Devices <=> \E n \in Found : Is(n, a)
      BY <1>1, <1>3
    <2> HIDE DEF Is
    <2>1. \A a : a \in {s[x] : x \in DOMAIN s} <=> a \in Devices
      <3> SUFFICES ASSUME NEW a
                   PROVE  (\E x \in DOMAIN s : s[x] = a) <=> a \in Devices
        OBVIOUS
      <3>1. (\E j \in DOMAIN handled : Is(handled[j], a)) <=> \E n \in Found : Is(n, a)
        BY <1>2
      <3> QED
        BY <2>a, <3>1
    <2> QED
      BY <2>1
  <1>5. ASSUME EndDevicesOnce(program, mesh) PROVE Len(s) = Cardinality(Devices)
    <2>1. s \in Seq(Routers(mesh) \cup Addresses(mesh)) /\ Once(s)
      BY <1>5 DEF ShownUpTo
    <2> QED
      BY <1>4, <2>1, OnceLength
  <1> QED
    BY <1>4, <1>5

\* When displayDevices has come back undisturbed it has asked each router found, and each
\* end device that one lists, for its endpoints, and asked it once if one lists it once.
THEOREM TopologyEachDeviceAskedOnce == Spec => []EachDeviceAskedOnce
  <1> DEFINE Inv == /\ DiscoveryInv /\ UsedInv /\ StillInv /\ LoneInv
                    /\ AskedOnceInv /\ ShownInv
  <1>1. Inv => EachDeviceAskedOnce
    <2> SUFFICES ASSUME Inv, Certain, pc["app"] = "console", rounds > 0
                 PROVE  /\ {shown[x] : x \in DOMAIN shown} = Devices
                        /\ EndDevicesOnce(program, mesh) => Len(shown) = Cardinality(Devices)
      BY DEF EachDeviceAskedOnce, Certain, Lone, Dsr, Undisturbed
    <2>1. phase # "discover" /\ pc["app"] # "send"
      BY DEF ShownInv, PhaseFits
    <2>2. /\ ShownUpTo(program, mesh, handled, shown, cursor.node, cursor.child)
          /\ cursor.node > nodeCount /\ cursor.node \in Nat
      BY <2>1 DEF ShownInv, ShownSoFar, Displaying, DiscoveryInv, ListInv
    <2>3. /\ handled \in Bijection(1..Len(handled), Found)
          /\ handled \in Seq(Routers(mesh)) /\ nodeCount = Len(handled)
      BY <2>1, ListComplete
    <2> QED
      BY <2>2, <2>3, AllShown
  <1>2. Inv /\ [Next]_vars => Inv'
    BY DiscoveryKept, UsedKept, StillKept, LoneKept, AskedOnceKept, ShownKept DEF DiscoveryInv
  <1>3. Init => Inv
    BY InitDiscovery, InitOnce, InitLone, InitShown
  <1> HIDE DEF Inv
  <1> QED
    BY <1>1, <1>2, <1>3, PTL DEF Spec
=============================================================================

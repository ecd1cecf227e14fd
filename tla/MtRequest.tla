----------------------------- MODULE MtRequest -----------------------------
(***************************************************************************)
(* The request functions of the MT layer: each allocates cmd, fills it     *)
(* statement by statement, hands it to rpcSendFrame and waits for the      *)
(* answer.  One thread calls them; what several threads do to each other   *)
(* is the subject of Rpc.                                                  *)
(***************************************************************************)
EXTENDS MtZdo, MtSys, MtAf, MtSapi

CONSTANTS ListLengths,  \* bound: the lengths of lists that are tried besides full ones
          MaxMissed     \* bound: answers that nobody waits for any more

ASSUME LengthsAreNat == ListLengths \subseteq Nat

RPC_UART_HDR_LEN == 4
RPC_UART_FCS_LEN == 1

Calls == ZdoCalls(ListLengths) \union SysCalls(ListLengths) \union AfCalls(ListLengths)
         \union SapiCalls(ListLengths)

\* A caller whose struct says that there are no input clusters and more output clusters
\* than the struct has room for.
MisreadCalls ==
    {Call("afRegister", <<0, n>>, afRegister(0, n)) : n \in {17, 255}}
    \union {Call("zdoMatchDescReq", <<0, n>>, zdoMatchDescReq(0, n)) : n \in {17, 255}}
    \union {Call("zdoEndDeviceBindReq", <<0, n>>, zdoEndDeviceBindReq(0, n)) : n \in {17, 255}}

NoCall == Call("", <<>>, Areq(0, <<>>, FALSE))

VARIABLES pc,       \* "idle", "filling", or "sent"
          call,     \* the call under way
          done,     \* statements of it executed
          cmInd,    \* a uint8_t
          filled,   \* bytes written to cmd
          queueing, \* 1 while the receive thread has posted srspSem for an SRSP and not
                    \* yet queued it
          answers,  \* SRSPs in the application's queue
          missed    \* history: waits that ended before their answer was queued

answerVars == <<queueing, answers, missed>>
vars == <<pc, call, done, cmInd, filled, answerVars>>

Init == /\ pc = "idle" /\ call = NoCall
        /\ done = 0 /\ cmInd = 0 /\ filled = 0
        /\ queueing = 0 /\ answers = 0 /\ missed = 0

Enter(c) ==
    /\ pc = "idle"
    /\ pc' = "filling" /\ call' = c
    /\ done' = 0 /\ cmInd' = 0 /\ filled' = 0
    /\ UNCHANGED answerVars

\* The function returns, its variables are gone.
Leave == /\ pc' = "idle" /\ call' = NoCall
         /\ done' = 0 /\ cmInd' = 0 /\ filled' = 0

\* malloc fails; a request without parameters does not call it.
NoMemory ==
    /\ pc = "filling" /\ done = 0 /\ call.req.writes # <<>>
    /\ Leave
    /\ UNCHANGED answerVars

Write ==
    /\ pc = "filling" /\ done < Len(call.req.writes)
    /\ LET width == call.req.writes[done + 1]
       IN /\ cmInd' = (cmInd + width) % 256
          /\ filled' = filled + width
    /\ done' = done + 1
    /\ UNCHANGED <<pc, call, answerVars>>

\* The answers that the call's request has.
Awaited == IF call.req.type = "SREQ" THEN 1 ELSE 0

\* rpcSendFrame returns MT_RPC_SUCCESS: to an SREQ as soon as the receive thread, back
\* from what came before, has posted srspSem for the answer.
Send ==
    /\ pc = "filling" /\ done = Len(call.req.writes)
    /\ queueing + Awaited <= 1
    /\ pc' = "sent"
    /\ queueing' = queueing + Awaited
    /\ UNCHANGED <<call, done, cmInd, filled, answers, missed>>

\* The receive thread puts the answer in front of the queue.
Queue ==
    /\ queueing = 1 /\ queueing' = 0
    /\ answers' = answers + 1
    /\ UNCHANGED <<pc, call, done, cmInd, filled, missed>>

\* rpcSendFrame returns MT_RPC_ERR_SUBSYSTEM: no answer, and the function does not wait.
SendFails ==
    /\ pc = "filling" /\ done = Len(call.req.writes)
    /\ call.req.type = "SREQ"
    /\ Leave
    /\ UNCHANGED answerVars

\* rpcWaitMqClientMsg takes an answer, which is in front of the queue; if there is none
\* yet it takes an indication or ends with nothing.
Wait ==
    /\ pc = "sent" /\ call.req.waits
    /\ Leave
    /\ \/ /\ answers > 0 /\ answers' = answers - 1
          /\ UNCHANGED missed
       \/ /\ answers = 0 /\ UNCHANGED answers
          /\ missed + Awaited <= MaxMissed /\ missed' = missed + Awaited
    /\ UNCHANGED queueing

Return ==
    /\ pc = "sent" /\ ~call.req.waits
    /\ Leave
    /\ UNCHANGED answerVars

Next == \/ \E c \in Calls : Enter(c)
        \/ NoMemory
        \/ Write
        \/ Send
        \/ Queue
        \/ SendFails
        \/ Wait
        \/ Return

Spec == Init /\ [][Next]_vars

----------------------------------------------------------------------------
\* A call is one of the program's, its index a byte, its statements run once each.
TypeOK ==
    /\ pc \in {"idle", "filling", "sent"}
    /\ call \in Calls \union MisreadCalls \union {NoCall}
    /\ done \in 0..Len(call.req.writes)
    /\ cmInd \in 0..255
    /\ filled \in Nat
    /\ queueing \in 0..1 /\ answers \in Nat /\ missed \in Nat

\* The calls whose buffer has not the size of what is written to it: zdoUnbindReq
\* allocates for a short address only, and two functions count a byte too many.
Misfit(c) ==
    \/ c.fn = "zdoUnbindReq" /\ c.args[1] = 3
    \/ c.fn \in {"sysRamWrite", "zbWriteConfiguration"}

\* Every other request fills the buffer it allocated, to the last byte and not beyond:
\* no byte that was never written goes to the ZNP, and none is written outside (cmdLen
\* against the statements that follow it, in each request function of mtZdo.c, mtSys.c,
\* mtAf.c and mtSapi.c).
SentIsFilled == pc = "sent" => (filled = call.req.cmdLen <=> ~Misfit(call))

\* The functions whose lists may be longer than a frame.
Oversized == {"afDataRequestSrcRtg", "zbAppRegisterReq"}

\* Every other request, its lists as long as the structs allow, fits a frame: its length
\* is still itself in the uint8_t that rpcSendFrame takes, and with header and FCS in
\* the one that rpcTransportWrite takes, and cmInd has not wrapped (cmdLen in each
\* request function, payload_len and buf in rpc.c).
FitsFrame ==
    pc = "sent" /\ call \in Calls /\ call.fn \notin Oversized =>
        /\ RPC_UART_HDR_LEN + call.req.cmdLen + RPC_UART_FCS_LEN < 256
        /\ cmInd = filled

\* A function waits exactly if its request has an answer: whoever waits has one coming,
\* and an answer is left in the queue for the next request only where a wait ended before
\* the receive thread had queued its own, srspSem being posted first (the type that each
\* function gives rpcSendFrame, and its rpcWaitMqClientMsg).  sysResetReq waits although
\* an AREQ has no answer.
AnswersMatched ==
    /\ pc = "idle" => answers + queueing <= missed
    /\ pc = "sent" /\ call.req.waits /\ call.fn # "sysResetReq" => answers + queueing > 0
=============================================================================

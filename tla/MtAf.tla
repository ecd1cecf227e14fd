-------------------------------- MODULE MtAf --------------------------------
(***************************************************************************)
(* mtAf.c and mtAf.h: the requests, the structs and the parsers of the AF  *)
(* subsystem, and its dispatch.                                            *)
(***************************************************************************)
EXTENDS MtLayout

----------------------------------------------------------------------------
\* Requests.

afRegister(ins, outs) ==
    Sreq(9 + ins * 2 + outs * 2, <<1, 2, 2, 1, 1, 1, ins * 2, 1, outs * 2>>)
afDataRequest(len) == Sreq(10 + len, <<2, 1, 1, 2, 1, 1, 1, 1, len>>)
afDataRequestExt(len) == Sreq(20 + len, <<1, 8, 1, 2, 1, 2, 1, 1, 1, 2, len>>)
afDataRequestSrcRtg(relays, len) ==
    Sreq(11 + relays * 2 + len, <<2, 1, 1, 2, 1, 1, 1, 1, relays * 2, 1, len>>)
\* The command is the number of its data bytes.
afInterPanCtl(command) == Sreq(1 + command, <<1, command>>)

\* Fault: the data may be as long as its length byte allows.
DataStoreTooLong(len) == Sreq(3 + len + 5, <<2, 1, len + 5>>)

afDataStore(len) == Sreq(3 + len, <<2, 1, len>>)
afDataRetrieve == Sreq(7, <<4, 2, 1>>)
afApsfConfigSet == Sreq(3, <<1, 1, 1>>)

AfCalls(lengths) ==
    {Call("afDataRetrieve", <<>>, afDataRetrieve), Call("afApsfConfigSet", <<>>, afApsfConfigSet)}
    \union {Call("afRegister", p, afRegister(p[1], p[2])) :
               p \in UpTo(lengths, 16) \X UpTo(lengths, 16)}
    \union {Call("afDataRequest", <<n>>, afDataRequest(n)) : n \in UpTo(lengths, 128)}
    \union {Call("afDataRequestExt", <<n>>, afDataRequestExt(n)) : n \in UpTo(lengths, 230)}
    \union {Call("afDataRequestSrcRtg", p, afDataRequestSrcRtg(p[1], p[2])) :
               p \in UpTo(lengths, 255) \X UpTo(lengths, 128)}
    \union {Call("afInterPanCtl", <<n>>, afInterPanCtl(n)) : n \in 0..3}
    \union {Call("afDataStore", <<n>>, afDataStore(n)) : n \in UpTo(lengths, 247)}

----------------------------------------------------------------------------
\* The structs that requests are passed in.

RegisterFormat == <<Field(1), Field(2), Field(2), Field(1), Field(1), Count(1),
    List(<<2>>, 16), Count(1), List(<<2>>, 16)>>
DataRequestFormat == <<Field(2), Field(1), Field(1), Field(2), Field(1), Field(1), Field(1),
    Count(1), List(<<1>>, 128)>>
DataRequestExtFormat == <<Field(1), Bytes(8), Field(1), Field(2), Field(1), Field(2),
    Field(1), Field(1), Field(1), Count(2), List(<<1>>, 230)>>
DataRequestSrcRtgFormat == <<Field(2), Field(1), Field(1), Field(2), Field(1), Field(1),
    Field(1), Count(1), List(<<2>>, 255), Count(1), List(<<1>>, 128)>>
InterPanCtlFormat == <<Count(1), List(<<1>>, 3)>>
DataStoreFormat == <<Field(2), Count(1), List(<<1>>, 247)>>
DataRetrieveFormat == <<Bytes(4), Field(2), Field(1)>>
ApsfConfigSetFormat == <<Field(1), Field(1), Field(1)>>

----------------------------------------------------------------------------
\* Structs.

DataConfirmFormat == <<Field(1), Field(1), Field(1)>>
IncomingMsgFormat == <<Field(2), Field(2), Field(2), Field(1), Field(1), Field(1), Field(1),
    Field(1), Field(4), Field(1), Count(1), List(<<1>>, 99)>>
IncomingMsgExtFormat == <<Field(2), Field(2), Field(1), Field(8), Field(1), Field(2), Field(1),
    Field(1), Field(1), Field(1), Field(4), Field(1), Count(1), List(<<1>>, 99)>>
DataRetrieveSrspFormat == <<Field(1), Count(1), List(<<1>>, 248)>>
ReflectErrorFormat == <<Field(1), Field(1), Field(1), Field(1), Field(2)>>

----------------------------------------------------------------------------
\* Parsers.

processDataConfirm == Parser(DataConfirmFormat, 3, <<Field(1), Field(1), Field(1)>>)
processIncomingMsg == Parser(IncomingMsgFormat, 17,
    <<Field(2), Field(2), Field(2), Field(1), Field(1), Field(1), Field(1), Field(1), Field(4),
      Field(1), Count(1), IfLonger(17), List(<<1>>, 99)>>)
processIncomingMsgExt == Parser(IncomingMsgExtFormat, 27,
    <<Field(2), Field(2), Field(1), Field(8), Field(1), Field(2), Field(1), Field(1), Field(1),
      Field(1), Field(4), Field(1), Count(1), List(<<1>>, 99)>>)
processDataRetrieveSrsp == Parser(DataRetrieveSrspFormat, 2,
    <<Field(1), Count(1), IfLonger(2), List(<<1>>, 248)>>)
processReflectError == Parser(ReflectErrorFormat, 6,
    <<Field(1), Field(1), Field(1), Field(1), Field(2)>>)

\* afProcess.
AfIndications == [
    MT_AF_DATA_CONFIRM |-> processDataConfirm,
    MT_AF_INCOMING_MSG |-> processIncomingMsg,
    MT_AF_INCOMING_MSG_EXT |-> processIncomingMsgExt,
    MT_AF_REFLECT_ERROR |-> processReflectError]

\* processSrsp.
AfSrsps == [MT_AF_DATA_RETRIEVE |-> processDataRetrieveSrsp]
=============================================================================

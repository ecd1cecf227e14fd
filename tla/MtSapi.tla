------------------------------- MODULE MtSapi -------------------------------
(***************************************************************************)
(* mtSapi.c and mtSapi.h: the requests, the structs and the parsers of the *)
(* SAPI subsystem, and its dispatch.                                       *)
(***************************************************************************)
EXTENDS MtLayout

----------------------------------------------------------------------------
\* Requests.

zbSystemReset == Areq(0, <<>>, FALSE)
zbAppRegisterReq(ins, outs) ==
    Sreq(9 + ins * 2 + outs * 2, <<1, 2, 2, 1, 1, 1, ins * 2, 1, outs * 2>>)

\* Fault: the answer is left for whoever waits next.
StartReqUnawaited == [Sreq(0, <<>>) EXCEPT !.waits = FALSE]

zbStartReq == Sreq(0, <<>>)
zbPermitJoiningReq == Sreq(3, <<2, 1>>)
zbBindDevice == Sreq(11, <<1, 2, 8>>)
zbAllowBind == Sreq(1, <<1>>)
zbSendDataReq(len) == Sreq(8 + len, <<2, 2, 1, 1, 1, 1, len>>)
zbFindDeviceReq == Sreq(8, <<8>>)
\* One byte more is allocated and sent than is filled in.
zbWriteConfiguration(len) == Sreq(3 + len, <<1, 1, len>>)
zbGetDeviceInfo == Sreq(1, <<1>>)
zbReadConfiguration == Sreq(1, <<1>>)

SapiPlain == [zbSystemReset |-> zbSystemReset, zbStartReq |-> zbStartReq,
    zbPermitJoiningReq |-> zbPermitJoiningReq, zbBindDevice |-> zbBindDevice,
    zbAllowBind |-> zbAllowBind, zbFindDeviceReq |-> zbFindDeviceReq,
    zbGetDeviceInfo |-> zbGetDeviceInfo, zbReadConfiguration |-> zbReadConfiguration]

SapiCalls(lengths) ==
    {Call(f, <<>>, SapiPlain[f]) : f \in DOMAIN SapiPlain}
    \union {Call("zbAppRegisterReq", p, zbAppRegisterReq(p[1], p[2])) :
               p \in UpTo(lengths, 255) \X UpTo(lengths, 255)}
    \union {Call("zbSendDataReq", <<n>>, zbSendDataReq(n)) : n \in UpTo(lengths, 99)}
    \union {Call("zbWriteConfiguration", <<n>>, zbWriteConfiguration(n)) :
               n \in UpTo(lengths, 128)}

----------------------------------------------------------------------------
\* The structs that requests are passed in.

AppRegisterReqFormat == <<Field(1), Field(2), Field(2), Field(1), Field(1), Count(1),
    List(<<2>>, 255), Count(1), List(<<2>>, 255)>>
PermitJoiningReqFormat == <<Field(2), Field(1)>>
BindDeviceFormat == <<Field(1), Field(2), Bytes(8)>>
AllowBindFormat == <<Field(1)>>
SendDataReqFormat == <<Field(2), Field(2), Field(1), Field(1), Field(1), Count(1),
    List(<<1>>, 99)>>
FindDeviceReqFormat == <<Bytes(8)>>
WriteConfigurationFormat == <<Field(1), Count(1), List(<<1>>, 128)>>
GetDeviceInfoFormat == <<Field(1)>>
ReadConfigurationFormat == <<Field(1)>>

----------------------------------------------------------------------------
\* Structs.

ReadConfigurationSrspFormat == <<Field(1), Field(1), Count(1), List(<<1>>, 128)>>
GetDeviceInfoSrspFormat == <<Field(1), Field(8)>>
FindDeviceCnfFormat == <<Field(2), Field(8)>>
SendDataCnfFormat == <<Field(1), Field(1)>>
ReceiveDataIndFormat == <<Field(2), Field(2), Count(2), List(<<1>>, 84)>>
AllowBindCnfFormat == <<Field(2)>>
BindCnfFormat == <<Field(2), Field(1)>>
StartCnfFormat == <<Field(1)>>

----------------------------------------------------------------------------
\* Parsers.

processReadConfigurationSrsp == Parser(ReadConfigurationSrspFormat, 3,
    <<Field(1), Field(1), Count(1), IfLonger(3), List(<<1>>, 128)>>)
processGetDeviceInfoSrsp == Parser(GetDeviceInfoSrspFormat, 9, <<Field(1), Field(8)>>)
processFindDeviceCnf == Parser(FindDeviceCnfFormat, 11, <<Field(2), Field(8)>>)
processSendDataCnf == Parser(SendDataCnfFormat, 2, <<Field(1), Field(1)>>)
processReceiveDataInd == Parser(ReceiveDataIndFormat, 6,
    <<Field(2), Field(2), Count(2), IfLonger(6), List(<<1>>, 84)>>)
processAllowBindCnf == Parser(AllowBindCnfFormat, 2, <<Field(2)>>)
processBindCnf == Parser(BindCnfFormat, 3, <<Field(2), Field(1)>>)
processStartCnf == Parser(StartCnfFormat, 1, <<Field(1)>>)

\* sapiProcess.
SapiIndications == [
    MT_SAPI_FIND_DEVICE_CNF |-> processFindDeviceCnf,
    MT_SAPI_SEND_DATA_CNF |-> processSendDataCnf,
    MT_SAPI_RECEIVE_DATA_IND |-> processReceiveDataInd,
    MT_SAPI_ALLOW_BIND_CNF |-> processAllowBindCnf,
    MT_SAPI_BIND_CNF |-> processBindCnf,
    MT_SAPI_START_CNF |-> processStartCnf]

\* processSrsp.
SapiSrsps == [MT_SAPI_READ_CONFIGURATION |-> processReadConfigurationSrsp,
    MT_SAPI_GET_DEVICE_INFO |-> processGetDeviceInfoSrsp]
=============================================================================

------------------------------- MODULE MtZdo -------------------------------
(***************************************************************************)
(* mtZdo.c and mtZdo.h: the requests, the structs and the parsers of the   *)
(* ZDO subsystem, and its dispatch.  A parameter of a request is what its  *)
(* layout depends on: a list's length or an address mode.                  *)
(***************************************************************************)
EXTENDS MtLayout

----------------------------------------------------------------------------
\* Requests.

zdoInit == Sreq(2, <<1, 1>>)
zdoNwkAddrReq == Sreq(10, <<8, 1, 1>>)
zdoIeeeAddrReq == Sreq(4, <<2, 1, 1>>)
zdoNodeDescReq == Sreq(4, <<2, 2>>)
zdoPowerDescReq == Sreq(4, <<2, 2>>)
zdoSimpleDescReq == Sreq(5, <<2, 2, 1>>)
zdoActiveEpReq == Sreq(4, <<2, 2>>)

\* Fault: the length of the second list is not counted.
MatchDescCountedOnce(ins, outs) ==
    Sreq(7 + ins * 2 + outs * 2, <<2, 2, 2, 1, ins * 2, 1, outs * 2>>)

zdoMatchDescReq(ins, outs) ==
    Sreq(8 + ins * 2 + outs * 2, <<2, 2, 2, 1, ins * 2, 1, outs * 2>>)

zdoComplexDescReq == Sreq(4, <<2, 2>>)
zdoUserDescReq == Sreq(4, <<2, 2>>)
zdoDeviceAnnce == Sreq(11, <<2, 8, 1>>)
zdoUserDescSet(len) == Sreq(5 + len, <<2, 2, 1, len>>)
zdoServerDiscReq == Sreq(2, <<2>>)

zdoEndDeviceBindReq(ins, outs) ==
    Sreq(17 + ins * 2 + outs * 2, <<2, 2, 8, 1, 2, 1, ins * 2, 1, outs * 2>>)

\* addrmd: 8 bytes of IEEE address in mode 3, else a short address.
AddressBytes(mode) == IF mode = 3 THEN 8 ELSE 2
\* endP: only mode 3 has an endpoint.
EndpointBytes(mode) == IF mode = 3 THEN 1 ELSE 0

zdoBindReq(mode) ==
    Sreq(14 + AddressBytes(mode) + EndpointBytes(mode),
         <<2, 8, 1, 2, 1, AddressBytes(mode), EndpointBytes(mode)>>)

\* The buffer has 16 bytes in every mode.
zdoUnbindReq(mode) ==
    Sreq(16, <<2, 8, 1, 2, 1, AddressBytes(mode), EndpointBytes(mode)>>)

zdoMgmtNwkDiscReq == Sreq(8, <<2, 4, 1, 1>>)
zdoMgmtLqiReq == Sreq(3, <<2, 1>>)
zdoMgmtRtgReq == Sreq(3, <<2, 1>>)
zdoMgmtBindReq == Sreq(3, <<2, 1>>)
zdoMgmtLeaveReq == Sreq(11, <<2, 8, 1>>)
zdoMgmtDirectJoinReq == Sreq(11, <<2, 8, 1>>)
zdoMgmtPermitJoinReq == Sreq(5, <<1, 2, 1, 1>>)
zdoMgmtNwkUpdateReq == Sreq(11, <<2, 1, 4, 1, 1, 2>>)
zdoStartupFromApp == Sreq(2, <<1, 1>>)
zdoAutoFindDestination == Sreq(1, <<1>>)
zdoSetLinkKey == Sreq(26, <<2, 8, 16>>)
zdoRemoveLinkKey == Sreq(8, <<8>>)
zdoGetLinkKey == Sreq(8, <<8>>)
zdoNwkDiscoveryReq == Sreq(5, <<4, 1>>)
zdoJoinReq == Sreq(15, <<1, 2, 8, 2, 1, 1>>)
zdoMsgCbRegister == Sreq(2, <<2>>)
zdoMsgCbRemove == Sreq(2, <<2>>)

\* The requests whose layout is fixed.
ZdoPlain == [zdoInit |-> zdoInit, zdoNwkAddrReq |-> zdoNwkAddrReq,
    zdoIeeeAddrReq |-> zdoIeeeAddrReq, zdoNodeDescReq |-> zdoNodeDescReq,
    zdoPowerDescReq |-> zdoPowerDescReq, zdoSimpleDescReq |-> zdoSimpleDescReq,
    zdoActiveEpReq |-> zdoActiveEpReq, zdoComplexDescReq |-> zdoComplexDescReq,
    zdoUserDescReq |-> zdoUserDescReq, zdoDeviceAnnce |-> zdoDeviceAnnce,
    zdoServerDiscReq |-> zdoServerDiscReq, zdoMgmtNwkDiscReq |-> zdoMgmtNwkDiscReq,
    zdoMgmtLqiReq |-> zdoMgmtLqiReq, zdoMgmtRtgReq |-> zdoMgmtRtgReq,
    zdoMgmtBindReq |-> zdoMgmtBindReq, zdoMgmtLeaveReq |-> zdoMgmtLeaveReq,
    zdoMgmtDirectJoinReq |-> zdoMgmtDirectJoinReq,
    zdoMgmtPermitJoinReq |-> zdoMgmtPermitJoinReq,
    zdoMgmtNwkUpdateReq |-> zdoMgmtNwkUpdateReq, zdoStartupFromApp |-> zdoStartupFromApp,
    zdoAutoFindDestination |-> zdoAutoFindDestination, zdoSetLinkKey |-> zdoSetLinkKey,
    zdoRemoveLinkKey |-> zdoRemoveLinkKey, zdoGetLinkKey |-> zdoGetLinkKey,
    zdoNwkDiscoveryReq |-> zdoNwkDiscoveryReq, zdoJoinReq |-> zdoJoinReq,
    zdoMsgCbRegister |-> zdoMsgCbRegister, zdoMsgCbRemove |-> zdoMsgCbRemove]

\* All calls.
ZdoCalls(lengths) ==
    {Call(f, <<>>, ZdoPlain[f]) : f \in DOMAIN ZdoPlain}
    \union {Call("zdoMatchDescReq", p, zdoMatchDescReq(p[1], p[2])) :
               p \in UpTo(lengths, 16) \X UpTo(lengths, 16)}
    \union {Call("zdoEndDeviceBindReq", p, zdoEndDeviceBindReq(p[1], p[2])) :
               p \in UpTo(lengths, 16) \X UpTo(lengths, 16)}
    \union {Call("zdoUserDescSet", <<n>>, zdoUserDescSet(n)) : n \in UpTo(lengths, 16)}
    \union {Call("zdoBindReq", <<m>>, zdoBindReq(m)) : m \in 1..3}
    \union {Call("zdoUnbindReq", <<m>>, zdoUnbindReq(m)) : m \in 1..3}

----------------------------------------------------------------------------
\* The structs that requests are passed in.

NwkAddrReqFormat == <<Bytes(8), Field(1), Field(1)>>
IeeeAddrReqFormat == <<Field(2), Field(1), Field(1)>>
NodeDescReqFormat == <<Field(2), Field(2)>>
PowerDescReqFormat == <<Field(2), Field(2)>>
SimpleDescReqFormat == <<Field(2), Field(2), Field(1)>>
ActiveEpReqFormat == <<Field(2), Field(2)>>
MatchDescReqFormat == <<Field(2), Field(2), Field(2), Count(1), List(<<2>>, 16), Count(1),
    List(<<2>>, 16)>>
ComplexDescReqFormat == <<Field(2), Field(2)>>
UserDescReqFormat == <<Field(2), Field(2)>>
DeviceAnnceFormat == <<Field(2), Bytes(8), Field(1)>>
UserDescSetFormat == <<Field(2), Field(2), Count(1), List(<<1>>, 16)>>
ServerDiscReqFormat == <<Field(2)>>
EndDeviceBindReqFormat == <<Field(2), Field(2), Bytes(8), Field(1), Field(2), Count(1),
    List(<<2>>, 16), Count(1), List(<<2>>, 16)>>
BindReqFormat == <<Field(2), Bytes(8), Field(1), Field(2), Field(1), Bytes(8), Field(1)>>
UnbindReqFormat == <<Field(2), Bytes(8), Field(1), Field(2), Field(1), Bytes(8), Field(1)>>
MgmtNwkDiscReqFormat == <<Field(2), Bytes(4), Field(1), Field(1)>>
MgmtLqiReqFormat == <<Field(2), Field(1)>>
MgmtRtgReqFormat == <<Field(2), Field(1)>>
MgmtBindReqFormat == <<Field(2), Field(1)>>
MgmtLeaveReqFormat == <<Field(2), Bytes(8), Field(1)>>
MgmtDirectJoinReqFormat == <<Field(2), Bytes(8), Field(1)>>
MgmtPermitJoinReqFormat == <<Field(1), Field(2), Field(1), Field(1)>>
MgmtNwkUpdateReqFormat == <<Field(2), Field(1), Bytes(4), Field(1), Field(1), Field(2)>>
StartupFromAppFormat == <<Field(2)>>
AutoFindDestinationFormat == <<Field(1)>>
SetLinkKeyFormat == <<Field(2), Bytes(8), Bytes(16)>>
RemoveLinkKeyFormat == <<Bytes(8)>>
GetLinkKeyFormat == <<Bytes(8)>>
NwkDiscoveryReqFormat == <<Bytes(4), Field(1)>>
JoinReqFormat == <<Field(1), Field(2), Bytes(8), Field(2), Field(1), Field(1)>>
MsgCbRegisterFormat == <<Field(2)>>
MsgCbRemoveFormat == <<Field(2)>>

----------------------------------------------------------------------------
\* The structs that answers and indications are put into, and the items of lists.

NetworkListItemFormat == <<8, 1, 1, 1, 1>>
NeighborLqiListItemFormat == <<8, 8, 2, 1, 1, 1, 1>>
RoutingTableListItemFormat == <<2, 1, 2>>
BindingTableListItemFormat == <<8, 1, 1, 1, 8, 1>>
BeaconListItemFormat == <<2, 2, 1, 1, 1, 1, 1, 1, 1, 1, 1, 8>>

GetLinkKeySrspFormat == <<Field(1), Field(8), Field(16)>>
NwkAddrRspFormat == <<Field(1), Field(8), Field(2), Field(1), Count(1), List(<<2>>, 70)>>
IeeeAddrRspFormat == <<Field(1), Field(8), Field(2), Field(1), Count(1), List(<<2>>, 70)>>
NodeDescRspFormat == <<Field(2), Field(1), Field(2), Field(1), Field(1), Field(1), Field(2),
    Field(1), Field(2), Field(2), Field(2), Field(1)>>
PowerDescRspFormat == <<Field(2), Field(1), Field(2), Field(1), Field(1)>>
SimpleDescRspFormat == <<Field(2), Field(1), Field(2), Field(1), Field(1), Field(2), Field(2),
    Field(1), Count(1), List(<<2>>, 16), Count(1), List(<<2>>, 16)>>
ActiveEpRspFormat == <<Field(2), Field(1), Field(2), Count(1), List(<<1>>, 77)>>
MatchDescRspFormat == <<Field(2), Field(1), Field(2), Count(1), List(<<1>>, 77)>>
ComplexDescRspFormat == <<Field(2), Field(1), Field(2), Count(1), List(<<1>>, 77)>>
UserDescRspFormat == <<Field(2), Field(1), Field(2), Count(1), List(<<1>>, 77)>>
UserDescConfFormat == <<Field(2), Field(1), Field(2)>>
ServerDiscRspFormat == <<Field(2), Field(1), Field(2)>>
EndDeviceBindRspFormat == <<Field(2), Field(1)>>
BindRspFormat == <<Field(2), Field(1)>>
UnbindRspFormat == <<Field(2), Field(1)>>
MgmtNwkDiscRspFormat == <<Field(2), Field(1), Field(1), Field(1), Count(1),
    List(NetworkListItemFormat, 72)>>
MgmtLqiRspFormat == <<Field(2), Field(1), Field(1), Field(1), Count(1),
    List(NeighborLqiListItemFormat, 66)>>
MgmtRtgRspFormat == <<Field(2), Field(1), Field(1), Field(1), Count(1),
    List(RoutingTableListItemFormat, 75)>>
MgmtBindRspFormat == <<Field(2), Field(1), Field(1), Field(1), Count(1),
    List(BindingTableListItemFormat, 75)>>
MgmtLeaveRspFormat == <<Field(2), Field(1)>>
MgmtDirectJoinRspFormat == <<Field(2), Field(1)>>
MgmtPermitJoinRspFormat == <<Field(2), Field(1)>>
EndDeviceAnnceIndFormat == <<Field(2), Field(2), Field(8), Field(1)>>
MatchDescRspSentFormat == <<Field(2), Count(1), List(<<2>>, 16), Count(1), List(<<2>>, 16)>>
StatusErrorRspFormat == <<Field(2), Field(1)>>
SrcRtgIndFormat == <<Field(2), Count(1), List(<<2>>, 255)>>
BeaconNotifyIndFormat == <<Count(1), List(BeaconListItemFormat, 21)>>
JoinCnfFormat == <<Field(1), Field(2), Field(2)>>
NwkDiscoveryCnfFormat == <<Field(1)>>
LeaveIndFormat == <<Field(2), Field(8), Field(1), Field(1), Field(1)>>
MsgCbIncomingFormat == <<Field(2), Field(1), Field(2), Field(1), Field(1), Field(2), Field(1),
    Field(8), Field(2), Field(1)>>

----------------------------------------------------------------------------
\* Parsers.

processStateChange == Parser(<<Field(1)>>, 0, <<Field(1)>>)
processGetLinkKey == Parser(GetLinkKeySrspFormat, 25, <<Field(1), Field(8), Field(16)>>)
processNwkAddrRsp == Parser(NwkAddrRspFormat, 13,
    <<Field(1), Field(8), Field(2), Field(1), Count(1), IfLonger(13), List(<<2>>, 70)>>)
processIeeeAddrRsp == Parser(IeeeAddrRspFormat, 13,
    <<Field(1), Field(8), Field(2), Field(1), Count(1), IfLonger(13), List(<<2>>, 70)>>)
processNodeDescRsp == Parser(NodeDescRspFormat, 18,
    <<Field(2), Field(1), Field(2), Field(1), Field(1), Field(1), Field(2), Field(1), Field(2),
      Field(2), Field(2), Field(1)>>)
processPowerDescRsp == Parser(PowerDescRspFormat, 7,
    <<Field(2), Field(1), Field(2), Field(1), Field(1)>>)
processSimpleDescRsp == Parser(SimpleDescRspFormat, 6,
    <<Field(2), Field(1), Field(2), Field(1), IfLonger(6), Field(1), Field(2), Field(2),
      Field(1), Count(1), List(<<2>>, 16), Count(1), List(<<2>>, 16)>>)
processActiveEpRsp == Parser(ActiveEpRspFormat, 6,
    <<Field(2), Field(1), Field(2), Count(1), IfLonger(6), List(<<1>>, 77)>>)
processMatchDescRsp == Parser(MatchDescRspFormat, 6,
    <<Field(2), Field(1), Field(2), Count(1), IfLonger(6), List(<<1>>, 77)>>)
processComplexDescRsp == Parser(ComplexDescRspFormat, 6,
    <<Field(2), Field(1), Field(2), Count(1), IfLonger(6), List(<<1>>, 77)>>)
processUserDescRsp == Parser(UserDescRspFormat, 6,
    <<Field(2), Field(1), Field(2), Count(1), IfLonger(6), List(<<1>>, 77)>>)
processUserDescConf == Parser(UserDescConfFormat, 5, <<Field(2), Field(1), Field(2)>>)
processServerDiscRsp == Parser(ServerDiscRspFormat, 5, <<Field(2), Field(1), Field(2)>>)
processEndDeviceBindRsp == Parser(EndDeviceBindRspFormat, 3, <<Field(2), Field(1)>>)
processBindRsp == Parser(BindRspFormat, 3, <<Field(2), Field(1)>>)
processUnbindRsp == Parser(UnbindRspFormat, 3, <<Field(2), Field(1)>>)
processMgmtNwkDiscRsp == Parser(MgmtNwkDiscRspFormat, 6,
    <<Field(2), Field(1), Field(1), Field(1), Count(1), IfLonger(6),
      List(<<8, 1, 1, 1, 1>>, 72)>>)

\* Fault: one of the bytes of an element is not stepped over.
LqiRspOneByteShort == Parser(MgmtLqiRspFormat, 6,
    <<Field(2), Field(1), Field(1), Field(1), Count(1), IfLonger(6),
      List(<<8, 8, 2, 1, 1, 1>>, 66)>>)

\* Fault: the least length counts an element of the list.
LqiRspNeedsElement == Parser(MgmtLqiRspFormat, 28,
    <<Field(2), Field(1), Field(1), Field(1), Count(1), IfLonger(6),
      List(<<8, 8, 2, 1, 1, 1, 1>>, 66)>>)

processMgmtLqiRsp == Parser(MgmtLqiRspFormat, 6,
    <<Field(2), Field(1), Field(1), Field(1), Count(1), IfLonger(6),
      List(<<8, 8, 2, 1, 1, 1, 1>>, 66)>>)

\* Fault: the inner loops use the outer loop's index, as processMgmtBindRsp's do.
RtgRspOneIndex == Parser(MgmtRtgRspFormat, 6,
    <<Field(2), Field(1), Field(1), Field(1), Count(1), IfLonger(6),
      OneIndexList(<<2, 1, 2>>, 75)>>)

processMgmtRtgRsp == Parser(MgmtRtgRspFormat, 6,
    <<Field(2), Field(1), Field(1), Field(1), Count(1), IfLonger(6), List(<<2, 1, 2>>, 75)>>)

\* The element loops declare a second i.
processMgmtBindRsp == Parser(MgmtBindRspFormat, 6,
    <<Field(2), Field(1), Field(1), Field(1), Count(1), IfLonger(6),
      OneIndexList(<<8, 1, 1, 1, 8, 1>>, 75)>>)

processMgmtLeaveRsp == Parser(MgmtLeaveRspFormat, 3, <<Field(2), Field(1)>>)
processMgmtDirectJoinRsp == Parser(MgmtDirectJoinRspFormat, 3, <<Field(2), Field(1)>>)
processMgmtPermitJoinRsp == Parser(MgmtPermitJoinRspFormat, 3, <<Field(2), Field(1)>>)
processEndDeviceAnnceInd == Parser(EndDeviceAnnceIndFormat, 13,
    <<Field(2), Field(2), Field(8), Field(1)>>)
processMatchDescRspSent == Parser(MatchDescRspSentFormat, 4,
    <<Field(2), Count(1), List(<<2>>, 16), Count(1), List(<<2>>, 16)>>)
processStatusErrorRsp == Parser(StatusErrorRspFormat, 3, <<Field(2), Field(1)>>)
processSrcRtgInd == Parser(SrcRtgIndFormat, 4, <<Field(2), Count(1), List(<<2>>, 255)>>)
processBeaconNotifyInd == Parser(BeaconNotifyIndFormat, 1,
    <<Count(1), IfLonger(1), List(<<2, 2, 1, 1, 1, 1, 1, 1, 1, 1, 1, 8>>, 21)>>)
processJoinCnf == Parser(JoinCnfFormat, 5, <<Field(1), Field(2), Field(2)>>)
processNwkDiscoveryCnf == Parser(NwkDiscoveryCnfFormat, 1, <<Field(1)>>)
processLeaveInd == Parser(LeaveIndFormat, 13,
    <<Field(2), Field(8), Field(1), Field(1), Field(1)>>)

\* msgIdx stays at NwkAddr when NotUsed is read.
processMsgCbIncoming == Parser(MsgCbIncomingFormat, 9,
    <<Field(2), Field(1), Field(2), Field(1), Field(1), Field(2), Field(1), Field(8),
      Peek(2), Peek(1)>>)

\* zdoProcess: the parser of each command that is not an SRSP.
ZdoIndications == [
    MT_ZDO_STATE_CHANGE_IND |-> processStateChange,
    MT_ZDO_NWK_ADDR_RSP |-> processNwkAddrRsp,
    MT_ZDO_IEEE_ADDR_RSP |-> processIeeeAddrRsp,
    MT_ZDO_NODE_DESC_RSP |-> processNodeDescRsp,
    MT_ZDO_POWER_DESC_RSP |-> processPowerDescRsp,
    MT_ZDO_SIMPLE_DESC_RSP |-> processSimpleDescRsp,
    MT_ZDO_ACTIVE_EP_RSP |-> processActiveEpRsp,
    MT_ZDO_MATCH_DESC_RSP |-> processMatchDescRsp,
    MT_ZDO_COMPLEX_DESC_RSP |-> processComplexDescRsp,
    MT_ZDO_USER_DESC_RSP |-> processUserDescRsp,
    MT_ZDO_USER_DESC_CONF |-> processUserDescConf,
    MT_ZDO_SERVER_DISC_RSP |-> processServerDiscRsp,
    MT_ZDO_END_DEVICE_BIND_RSP |-> processEndDeviceBindRsp,
    MT_ZDO_BIND_RSP |-> processBindRsp,
    MT_ZDO_UNBIND_RSP |-> processUnbindRsp,
    MT_ZDO_MGMT_NWK_DISC_RSP |-> processMgmtNwkDiscRsp,
    MT_ZDO_MGMT_LQI_RSP |-> processMgmtLqiRsp,
    MT_ZDO_MGMT_RTG_RSP |-> processMgmtRtgRsp,
    MT_ZDO_MGMT_BIND_RSP |-> processMgmtBindRsp,
    MT_ZDO_MGMT_LEAVE_RSP |-> processMgmtLeaveRsp,
    MT_ZDO_MGMT_DIRECT_JOIN_RSP |-> processMgmtDirectJoinRsp,
    MT_ZDO_MGMT_PERMIT_JOIN_RSP |-> processMgmtPermitJoinRsp,
    MT_ZDO_END_DEVICE_ANNCE_IND |-> processEndDeviceAnnceInd,
    MT_ZDO_MATCH_DESC_RSP_SENT |-> processMatchDescRspSent,
    MT_ZDO_STATUS_ERROR_RSP |-> processStatusErrorRsp,
    MT_ZDO_SRC_RTG_IND |-> processSrcRtgInd,
    MT_ZDO_BEACON_NOTIFY_IND |-> processBeaconNotifyInd,
    MT_ZDO_JOIN_CNF |-> processJoinCnf,
    MT_ZDO_NWK_DISCOVERY_CNF |-> processNwkDiscoveryCnf,
    MT_ZDO_LEAVE_IND |-> processLeaveInd,
    MT_ZDO_MSG_CB_INCOMING |-> processMsgCbIncoming]

\* processSrsp: the only SRSP of the ZDO subsystem that has a parser.
ZdoSrsps == [MT_ZDO_GET_LINK_KEY |-> processGetLinkKey]
=============================================================================

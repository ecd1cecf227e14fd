------------------------------ MODULE CmdTable ------------------------------
(***************************************************************************)
(* The tables of examples/cmdLine: the commands that the console offers    *)
(* with the attributes it asks for, and the function each is sent with.    *)
(***************************************************************************)
EXTENDS MtSys, MtAf, MtZdo, MtSapi

\* An attribute of size bytes (isList = 0), or a list of at most isList of them, whose
\* length is the attribute before.
Att(size) == [size |-> size, isList |-> 0]
ListAtt(size, isList) == [size |-> size, isList |-> isList]
Command(cmdName, atts) == [cmdName |-> cmdName, atts |-> atts]

----------------------------------------------------------------------------
\* InitCmds.

SysCommands == <<
    Command("SYS_PING", <<>>),
    Command("SYS_SET_EXTADDR", <<Att(8)>>),
    Command("SYS_GET_EXTADDR", <<>>),
    Command("SYS_RAM_READ", <<Att(2), Att(1)>>),
    Command("SYS_RAM_WRITE", <<Att(2), Att(1), ListAtt(1, 128)>>),
    Command("SYS_RESET_REQ", <<Att(1)>>),
    Command("SYS_VERSION", <<>>),
    Command("SYS_OSAL_NV_READ", <<Att(2), Att(1)>>),
    Command("SYS_OSAL_NV_WRITE", <<Att(2), Att(1), Att(1), ListAtt(1, 246)>>),
    Command("SYS_OSAL_NV_ITEM_INIT", <<Att(2), Att(2), Att(1), ListAtt(1, 245)>>),
    Command("SYS_OSAL_NV_DELETE", <<Att(2), Att(2)>>)>>

SysCommands2 == <<
    Command("SYS_OSAL_NV_LENGTH", <<Att(2)>>),
    Command("SYS_OSAL_START_TIMER", <<Att(1), Att(2)>>),
    Command("SYS_OSAL_STOP_TIMER", <<Att(1)>>),
    Command("SYS_STACK_TUNE", <<Att(1), Att(1)>>),
    Command("SYS_ADC_READ", <<Att(1), Att(1)>>),
    Command("SYS_GPIO", <<Att(1), Att(1)>>),
    Command("SYS_RANDOM", <<>>),
    Command("SYS_SET_TIME", <<Att(4), Att(1), Att(1), Att(1), Att(1), Att(1), Att(2)>>),
    Command("SYS_GET_TIME", <<>>),
    Command("SYS_SET_TX_POWER", <<Att(1)>>)>>

AfCommands == <<
    Command("AF_REGISTER", <<Att(1), Att(2), Att(2), Att(1), Att(1), Att(1),
        ListAtt(2, 16), Att(1), ListAtt(2, 16)>>),
    Command("AF_DATA_REQUEST", <<Att(2), Att(1), Att(1), Att(2), Att(1), Att(1), Att(1),
        Att(1), ListAtt(1, 128)>>),
    Command("AF_DATA_REQUEST_EXT", <<Att(1), Att(8), Att(1), Att(2), Att(1), Att(2),
        Att(1), Att(1), Att(1), Att(2), ListAtt(1, 230)>>)>>

AfCommands2 == <<
    Command("AF_DATA_REQUEST_SRC_RTG", <<Att(2), Att(1), Att(1), Att(2), Att(1), Att(1),
        Att(1), Att(1), ListAtt(2, 255), Att(1), ListAtt(1, 128)>>),
    Command("AF_INTER_PAN_CTL", <<Att(1), ListAtt(1, 3)>>),
    Command("AF_DATA_STORE", <<Att(2), Att(1), ListAtt(1, 247)>>),
    Command("AF_DATA_RETRIEVE", <<Att(4), Att(2), Att(1)>>),
    Command("AF_APSF_CONFIG_SET", <<Att(1), Att(1), Att(1)>>)>>

ZdoCommands == <<
    Command("ZDO_NWK_ADDR_REQ", <<Att(8), Att(1), Att(1)>>),
    Command("ZDO_IEEE_ADDR_REQ", <<Att(2), Att(1), Att(1)>>),
    Command("ZDO_NODE_DESC_REQ", <<Att(2), Att(2)>>),
    Command("ZDO_POWER_DESC_REQ", <<Att(2), Att(2)>>),
    Command("ZDO_SIMPLE_DESC_REQ", <<Att(2), Att(2), Att(1)>>),
    Command("ZDO_ACTIVE_EP_REQ", <<Att(2), Att(2)>>),
    Command("ZDO_MATCH_DESC_REQ", <<Att(2), Att(2), Att(2), Att(1), ListAtt(2, 16),
        Att(1), ListAtt(2, 16)>>),
    Command("ZDO_COMPLEX_DESC_REQ", <<Att(2), Att(2)>>),
    Command("ZDO_USER_DESC_REQ", <<Att(2), Att(2)>>)>>

ZdoCommands2 == <<
    Command("ZDO_DEVICE_ANNCE", <<Att(2), Att(8), Att(1)>>),
    Command("ZDO_USER_DESC_SET", <<Att(2), Att(2), Att(1), ListAtt(1, 16)>>),
    Command("ZDO_SERVER_DISC_REQ", <<Att(2)>>),
    Command("ZDO_END_DEVICE_BIND_REQ", <<Att(2), Att(2), Att(8), Att(1), Att(2), Att(1),
        ListAtt(2, 16), Att(1), ListAtt(2, 16)>>),
    Command("ZDO_BIND_REQ", <<Att(2), Att(8), Att(1), Att(2), Att(1), Att(8), Att(1)>>),
    Command("ZDO_UNBIND_REQ", <<Att(2), Att(8), Att(1), Att(2), Att(1), Att(8), Att(1)>>)>>

ZdoCommands3 == <<
    Command("ZDO_MGMT_NWK_DISC_REQ", <<Att(2), Att(4), Att(1), Att(1)>>),
    Command("ZDO_MGMT_LQI_REQ", <<Att(2), Att(1)>>),
    Command("ZDO_MGMT_RTG_REQ", <<Att(2), Att(1)>>),
    Command("ZDO_MGMT_BIND_REQ", <<Att(2), Att(1)>>),
    Command("ZDO_MGMT_LEAVE_REQ", <<Att(2), Att(8), Att(1)>>),
    Command("ZDO_MGMT_DIRECT_JOIN_REQ", <<Att(2), Att(8), Att(1)>>),
    Command("ZDO_MGMT_PERMIT_JOIN_REQ", <<Att(1), Att(2), Att(1), Att(1)>>),
    Command("ZDO_MGMT_NWK_UPDATE_REQ", <<Att(2), Att(1), Att(4), Att(1), Att(1), Att(2)>>),
    Command("ZDO_STARTUP_FROM_APP", <<Att(2)>>)>>

ZdoCommands4 == <<
    Command("ZDO_AUTO_FIND_DESTINATION", <<Att(1)>>),
    Command("ZDO_SET_LINK_KEY", <<Att(2), Att(8), Att(16)>>),
    Command("ZDO_REMOVE_LINK_KEY", <<Att(8)>>),
    Command("ZDO_GET_LINK_KEY", <<Att(8)>>),
    Command("ZDO_NWK_DISCOVERY_REQ", <<Att(4), Att(1)>>),
    Command("ZDO_JOIN_REQ", <<Att(1), Att(2), Att(8), Att(2), Att(1), Att(1)>>),
    Command("ZDO_MSG_CB_REGISTER", <<Att(2)>>),
    Command("ZDO_MSG_CB_REMOVE", <<Att(2)>>)>>

SapiCommands == <<
    Command("ZB_SYSTEM_RESET", <<>>),
    Command("ZB_APP_REGISTER_REQ", <<Att(1), Att(2), Att(2), Att(1), Att(1), Att(1),
        ListAtt(2, 255), Att(1), ListAtt(2, 255)>>),
    Command("ZB_START_REQ", <<>>),
    Command("ZB_PERMIT_JOINING_REQ", <<Att(2), Att(1)>>),
    Command("ZB_BIND_DEVICE", <<Att(1), Att(2), Att(8)>>),
    Command("ZB_ALLOW_BIND", <<Att(1)>>),
    Command("ZB_SEND_DATA_REQ", <<Att(2), Att(2), Att(1), Att(1), Att(1), Att(1),
        ListAtt(1, 99)>>),
    Command("ZB_FIND_DEVICE_REQ", <<Att(8)>>),
    Command("ZB_WRITE_CONFIGURATION", <<Att(1), Att(1), ListAtt(1, 128)>>),
    Command("ZB_GET_DEVICE_INFO", <<Att(1)>>),
    Command("ZB_READ_CONFIGURATION", <<Att(1)>>)>>

commands == SysCommands \o SysCommands2 \o AfCommands \o AfCommands2 \o ZdoCommands
    \o ZdoCommands2 \o ZdoCommands3 \o ZdoCommands4 \o SapiCommands

----------------------------------------------------------------------------
\* sendCmd: the function and the struct that the buffer is cast to.

Function(name, struct) == [name |-> name, struct |-> struct]

SysSends == <<
    Function("sysPing", <<>>),
    Function("sysSetExtAddr", SetExtAddrFormat),
    Function("sysGetExtAddr", <<>>),
    Function("sysRamRead", RamReadFormat),
    Function("sysRamWrite", RamWriteFormat),
    Function("sysResetReq", ResetReqFormat),
    Function("sysVersion", <<>>),
    Function("sysOsalNvRead", OsalNvReadFormat),
    Function("sysOsalNvWrite", OsalNvWriteFormat),
    Function("sysOsalNvItemInit", OsalNvItemInitFormat),
    Function("sysOsalNvDelete", OsalNvDeleteFormat),
    Function("sysOsalNvLength", OsalNvLengthFormat),
    Function("sysOsalStartTimer", OsalStartTimerFormat),
    Function("sysOsalStopTimer", OsalStopTimerFormat),
    Function("sysStackTune", StackTuneFormat),
    Function("sysAdcRead", AdcReadFormat),
    Function("sysGpio", GpioFormat),
    Function("sysRandom", <<>>),
    Function("sysSetTime", SetTimeFormat),
    Function("sysGetTime", <<>>),
    Function("sysSetTxPower", SetTxPowerFormat)>>

AfSends == <<
    Function("afRegister", RegisterFormat),
    Function("afDataRequest", DataRequestFormat),
    Function("afDataRequestExt", DataRequestExtFormat),
    Function("afDataRequestSrcRtg", DataRequestSrcRtgFormat),
    Function("afInterPanCtl", InterPanCtlFormat),
    Function("afDataStore", DataStoreFormat),
    Function("afDataRetrieve", DataRetrieveFormat),
    Function("afApsfConfigSet", ApsfConfigSetFormat)>>

ZdoSends == <<
    Function("zdoNwkAddrReq", NwkAddrReqFormat),
    Function("zdoIeeeAddrReq", IeeeAddrReqFormat),
    Function("zdoNodeDescReq", NodeDescReqFormat),
    Function("zdoPowerDescReq", PowerDescReqFormat),
    Function("zdoSimpleDescReq", SimpleDescReqFormat),
    Function("zdoActiveEpReq", ActiveEpReqFormat),
    Function("zdoMatchDescReq", MatchDescReqFormat),
    Function("zdoComplexDescReq", ComplexDescReqFormat),
    Function("zdoUserDescReq", UserDescReqFormat),
    Function("zdoDeviceAnnce", DeviceAnnceFormat),
    Function("zdoUserDescSet", UserDescSetFormat),
    Function("zdoServerDiscReq", ServerDiscReqFormat),
    Function("zdoEndDeviceBindReq", EndDeviceBindReqFormat),
    Function("zdoBindReq", BindReqFormat),
    Function("zdoUnbindReq", UnbindReqFormat),
    Function("zdoMgmtNwkDiscReq", MgmtNwkDiscReqFormat),
    Function("zdoMgmtLqiReq", MgmtLqiReqFormat),
    Function("zdoMgmtRtgReq", MgmtRtgReqFormat),
    Function("zdoMgmtBindReq", MgmtBindReqFormat),
    Function("zdoMgmtLeaveReq", MgmtLeaveReqFormat),
    Function("zdoMgmtDirectJoinReq", MgmtDirectJoinReqFormat),
    Function("zdoMgmtPermitJoinReq", MgmtPermitJoinReqFormat),
    Function("zdoMgmtNwkUpdateReq", MgmtNwkUpdateReqFormat),
    Function("zdoStartupFromApp", StartupFromAppFormat),
    Function("zdoAutoFindDestination", AutoFindDestinationFormat),
    Function("zdoSetLinkKey", SetLinkKeyFormat),
    Function("zdoRemoveLinkKey", RemoveLinkKeyFormat),
    Function("zdoGetLinkKey", GetLinkKeyFormat),
    Function("zdoNwkDiscoveryReq", NwkDiscoveryReqFormat),
    Function("zdoJoinReq", JoinReqFormat),
    Function("zdoMsgCbRegister", MsgCbRegisterFormat),
    Function("zdoMsgCbRemove", MsgCbRemoveFormat)>>

SapiSends == <<
    Function("zbSystemReset", <<>>),
    Function("zbAppRegisterReq", AppRegisterReqFormat),
    Function("zbStartReq", <<>>),
    Function("zbPermitJoiningReq", PermitJoiningReqFormat),
    Function("zbBindDevice", BindDeviceFormat),
    Function("zbAllowBind", AllowBindFormat),
    Function("zbSendDataReq", SendDataReqFormat),
    Function("zbFindDeviceReq", FindDeviceReqFormat),
    Function("zbWriteConfiguration", WriteConfigurationFormat),
    Function("zbGetDeviceInfo", GetDeviceInfoFormat),
    Function("zbReadConfiguration", ReadConfigurationFormat)>>

Functions == SysSends \o AfSends \o ZdoSends \o SapiSends
=============================================================================

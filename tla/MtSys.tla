------------------------------- MODULE MtSys -------------------------------
(***************************************************************************)
(* mtSys.c and mtSys.h: the requests, the structs and the parsers of the   *)
(* SYS subsystem, and its dispatch.                                        *)
(***************************************************************************)
EXTENDS MtLayout

----------------------------------------------------------------------------
\* Requests.

sysPing == Sreq(0, <<>>)
sysSetExtAddr == Sreq(8, <<8>>)
sysGetExtAddr == Sreq(0, <<>>)
sysRamRead == Sreq(3, <<2, 1>>)
\* One byte more is allocated and sent than is filled in.
sysRamWrite(len) == Sreq(4 + len, <<2, 1, len>>)
\* An AREQ, yet it waits for a message.
sysResetReq == Areq(1, <<1>>, TRUE)
sysVersion == Sreq(0, <<>>)
sysOsalNvRead == Sreq(3, <<2, 1>>)
sysOsalNvWrite(len) == Sreq(4 + len, <<2, 1, 1, len>>)
sysOsalNvItemInit(len) == Sreq(5 + len, <<2, 2, 1, len>>)
sysOsalNvDelete == Sreq(4, <<2, 2>>)
sysOsalNvLength == Sreq(2, <<2>>)
sysOsalStartTimer == Sreq(3, <<1, 2>>)
sysOsalStopTimer == Sreq(1, <<1>>)
sysStackTune == Sreq(2, <<1, 1>>)
sysAdcRead == Sreq(2, <<1, 1>>)
sysGpio == Sreq(2, <<1, 1>>)
sysRandom == Sreq(0, <<>>)
sysSetTime == Sreq(11, <<4, 1, 1, 1, 1, 1, 2>>)
sysGetTime == Sreq(0, <<>>)
sysSetTxPower == Sreq(1, <<1>>)

SysPlain == [sysPing |-> sysPing, sysSetExtAddr |-> sysSetExtAddr,
    sysGetExtAddr |-> sysGetExtAddr, sysRamRead |-> sysRamRead, sysResetReq |-> sysResetReq,
    sysVersion |-> sysVersion, sysOsalNvRead |-> sysOsalNvRead,
    sysOsalNvDelete |-> sysOsalNvDelete, sysOsalNvLength |-> sysOsalNvLength,
    sysOsalStartTimer |-> sysOsalStartTimer, sysOsalStopTimer |-> sysOsalStopTimer,
    sysStackTune |-> sysStackTune, sysAdcRead |-> sysAdcRead, sysGpio |-> sysGpio,
    sysRandom |-> sysRandom, sysSetTime |-> sysSetTime, sysGetTime |-> sysGetTime,
    sysSetTxPower |-> sysSetTxPower]

SysCalls(lengths) ==
    {Call(f, <<>>, SysPlain[f]) : f \in DOMAIN SysPlain}
    \union {Call("sysRamWrite", <<n>>, sysRamWrite(n)) : n \in UpTo(lengths, 128)}
    \union {Call("sysOsalNvWrite", <<n>>, sysOsalNvWrite(n)) : n \in UpTo(lengths, 246)}
    \union {Call("sysOsalNvItemInit", <<n>>, sysOsalNvItemInit(n)) : n \in UpTo(lengths, 245)}

----------------------------------------------------------------------------
\* The structs that requests are passed in.

SetExtAddrFormat == <<Bytes(8)>>
RamReadFormat == <<Field(2), Field(1)>>
RamWriteFormat == <<Field(2), Count(1), List(<<1>>, 128)>>
ResetReqFormat == <<Field(1)>>
OsalNvReadFormat == <<Field(2), Field(1)>>
OsalNvWriteFormat == <<Field(2), Field(1), Count(1), List(<<1>>, 246)>>
OsalNvItemInitFormat == <<Field(2), Field(2), Count(1), List(<<1>>, 245)>>
OsalNvDeleteFormat == <<Field(2), Field(2)>>
OsalNvLengthFormat == <<Field(2)>>
OsalStartTimerFormat == <<Field(1), Field(2)>>
OsalStopTimerFormat == <<Field(1)>>
StackTuneFormat == <<Field(1), Field(1)>>
AdcReadFormat == <<Field(1), Field(1)>>
GpioFormat == <<Field(1), Field(1)>>
SetTimeFormat == <<Bytes(4), Field(1), Field(1), Field(1), Field(1), Field(1), Field(2)>>
SetTxPowerFormat == <<Field(1)>>

----------------------------------------------------------------------------
\* Structs.

PingSrspFormat == <<Field(2)>>
GetExtAddrSrspFormat == <<Field(8)>>
RamReadSrspFormat == <<Field(1), Count(1), List(<<1>>, 128)>>
ResetIndFormat == <<Field(1), Field(1), Field(1), Field(1), Field(1), Field(1)>>
VersionSrspFormat == <<Field(1), Field(1), Field(1), Field(1), Field(1)>>
OsalNvReadSrspFormat == <<Field(1), Count(1), List(<<1>>, 248)>>
OsalNvLengthSrspFormat == <<Field(2)>>
OsalTimerExpiredFormat == <<Field(1)>>
StackTuneSrspFormat == <<Field(1)>>
AdcReadSrspFormat == <<Field(2)>>
GpioSrspFormat == <<Field(1)>>
RandomSrspFormat == <<Field(2)>>
GetTimeSrspFormat == <<Field(4), Field(1), Field(1), Field(1), Field(1), Field(1), Field(2)>>
SetTxPowerSrspFormat == <<Field(1)>>

----------------------------------------------------------------------------
\* Parsers.

processPingSrsp == Parser(PingSrspFormat, 2, <<Field(2)>>)
processGetExtAddrSrsp == Parser(GetExtAddrSrspFormat, 8, <<Field(8)>>)
processRamReadSrsp == Parser(RamReadSrspFormat, 2,
    <<Field(1), Count(1), IfLonger(2), List(<<1>>, 128)>>)
processResetInd == Parser(ResetIndFormat, 6,
    <<Field(1), Field(1), Field(1), Field(1), Field(1), Field(1)>>)
processVersionSrsp == Parser(VersionSrspFormat, 5,
    <<Field(1), Field(1), Field(1), Field(1), Field(1)>>)

processOsalNvReadSrsp == Parser(OsalNvReadSrspFormat, 2,
    <<Field(1), Count(1), IfLonger(2), List(<<1>>, 248)>>)
processOsalNvLengthSrsp == Parser(OsalNvLengthSrspFormat, 2, <<Field(2)>>)
processOsalTimerExpired == Parser(OsalTimerExpiredFormat, 1, <<Field(1)>>)
processStackTuneSrsp == Parser(StackTuneSrspFormat, 1, <<Field(1)>>)
processAdcReadSrsp == Parser(AdcReadSrspFormat, 2, <<Field(2)>>)
processGpioSrsp == Parser(GpioSrspFormat, 1, <<Field(1)>>)
processRandomSrsp == Parser(RandomSrspFormat, 2, <<Field(2)>>)
processGetTimeSrsp == Parser(GetTimeSrspFormat, 11,
    <<Field(4), Field(1), Field(1), Field(1), Field(1), Field(1), Field(2)>>)
processSetTxPowerSrsp == Parser(SetTxPowerSrspFormat, 1, <<Field(1)>>)

\* sysProcess.
SysIndications == [MT_SYS_RESET_IND |-> processResetInd,
    MT_SYS_OSAL_TIMER_EXPIRED |-> processOsalTimerExpired]

\* processSrsp.
SysSrsps == [
    MT_SYS_PING |-> processPingSrsp,
    MT_SYS_GET_EXTADDR |-> processGetExtAddrSrsp,
    MT_SYS_RAM_READ |-> processRamReadSrsp,
    MT_SYS_VERSION |-> processVersionSrsp,
    MT_SYS_OSAL_NV_READ |-> processOsalNvReadSrsp,
    MT_SYS_OSAL_NV_LENGTH |-> processOsalNvLengthSrsp,
    MT_SYS_STACK_TUNE |-> processStackTuneSrsp,
    MT_SYS_ADC_READ |-> processAdcReadSrsp,
    MT_SYS_GPIO |-> processGpioSrsp,
    MT_SYS_RANDOM |-> processRandomSrsp,
    MT_SYS_GET_TIME |-> processGetTimeSrsp,
    MT_SYS_SET_TX_POWER |-> processSetTxPowerSrsp]
=============================================================================

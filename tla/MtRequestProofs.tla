-------------------------- MODULE MtRequestProofs --------------------------
(***************************************************************************)
(* The request functions of the MT layer, called from the console with     *)
(* whatever it was told and from other programs, for all the lengths that  *)
(* lists may have.  A function's statements are at most twelve, so what    *)
(* they add up to is a sum and not a recursion.                            *)
(*                                                                         *)
(* And the console's buffer: three walks over the attributes of a command, *)
(* by inputCmd before it asks, by inputCmd while it asks, and by the       *)
(* compiler, come to the same places.                                      *)
(***************************************************************************)
EXTENDS CmdLine, SequenceLemmas, TLAPS

-----------------------------------------------------------------------------
(* What the statements of a function add up to.                            *)

Item(writes, i, k) == IF i <= k THEN writes[i] ELSE 0

Three(writes, i, k) == Item(writes, i, k) + Item(writes, i + 1, k) + Item(writes, i + 2, k)

\* The bytes written by the first k statements.
Written(writes, k) ==
    Three(writes, 1, k) + Three(writes, 4, k) + Three(writes, 7, k) + Three(writes, 10, k)

Size(writes) == Written(writes, Len(writes))

\* So many statements can be added up.
Summable(writes) == writes \in Seq(Nat) /\ Len(writes) <= 12

\* One statement more adds its own bytes.
LEMMA WrittenNext ==
    ASSUME NEW writes, NEW k \in 0..11, \A i \in 1..(k + 1) : writes[i] \in Nat
    PROVE  Written(writes, k + 1) = Written(writes, k) + writes[k + 1]
  <1> DEFINE w == writes[k + 1]
  <1>2. ASSUME NEW i \in 1..12
        PROVE  /\ Item(writes, i, k) \in Nat /\ w \in Nat
               /\ Item(writes, i, k + 1) = Item(writes, i, k) + (IF i = k + 1 THEN w ELSE 0)
    <2>1. CASE i <= k
      BY <2>1 DEF Item
    <2>2. CASE i = k + 1
      BY <2>2 DEF Item
    <2>3. CASE i > k + 1
      BY <2>3 DEF Item
    <2> QED
      BY <2>1, <2>2, <2>3
  <1>3. w \in Nat
    OBVIOUS
  <1> HIDE DEF w
  <1>4. ASSUME NEW i \in {1, 4, 7, 10}
        PROVE  /\ Three(writes, i, k) \in Nat
               /\ Three(writes, i, k + 1)
                    = Three(writes, i, k) + (IF k + 1 \in i..(i + 2) THEN w ELSE 0)
    <2> DEFINE one(j) == IF j = k + 1 THEN w ELSE 0
    <2>1. ASSUME NEW j \in {i, i + 1, i + 2}
          PROVE  /\ Item(writes, j, k) \in Nat /\ one(j) \in Nat
                 /\ Item(writes, j, k + 1) = Item(writes, j, k) + one(j)
      BY <1>2, <1>3
    <2>2. one(i) + one(i + 1) + one(i + 2) = IF k + 1 \in i..(i + 2) THEN w ELSE 0
      BY <1>3
    <2> HIDE DEF one
    <2> QED
      BY <2>1, <2>2 DEF Three
  <1>5. Written(writes, k + 1) = Written(writes, k) + w
    BY <1>3, <1>4 DEF Written
  <1> QED
    BY <1>5, SMTT(60) DEF w

\* What is written is a number of bytes, and none at first.
LEMMA WrittenNat ==
    ASSUME NEW writes, NEW k \in 0..12, \A i \in 1..k : writes[i] \in Nat
    PROVE  Written(writes, k) \in Nat /\ Written(writes, 0) = 0
  <1>1. ASSUME NEW i \in 1..12
        PROVE  Item(writes, i, k) \in Nat /\ Item(writes, i, 0) = 0
    BY DEF Item
  <1>2. ASSUME NEW i \in {1, 4, 7, 10}
        PROVE  Three(writes, i, k) \in Nat /\ Three(writes, i, 0) = 0
    <2>1. \A j \in {i, i + 1, i + 2} : Item(writes, j, k) \in Nat /\ Item(writes, j, 0) = 0
      BY <1>1
    <2> QED
      BY <2>1 DEF Three
  <1> QED
    BY <1>2 DEF Written

-----------------------------------------------------------------------------
(* The functions: what each writes, against the buffer it allocates.       *)

\* A request that fills its buffer, fits a frame, and waits if it has an answer.
Fit(req) ==
    /\ Summable(req.writes) /\ Size(req.writes) = req.cmdLen /\ req.cmdLen \in 0..250
    /\ req.type \in {"SREQ", "AREQ"} /\ (req.type = "SREQ" <=> req.waits)

\* What is said of a call: its statements can be added up, they fill the buffer unless it
\* is one of the misfits, and whoever waits has asked for an answer.
Laid(c) ==
    /\ Summable(c.req.writes) /\ c.req.cmdLen \in Nat
    /\ Size(c.req.writes) = c.req.cmdLen <=> ~Misfit(c)
    /\ c.req.type \in {"SREQ", "AREQ"}
    /\ c.req.type = "SREQ" => c.req.waits
    /\ c.req.type = "AREQ" /\ c.req.waits => c.fn = "sysResetReq"

\* And that it fits a frame.
Small(c) ==
    c.fn \notin Oversized =>
        /\ RPC_UART_HDR_LEN + c.req.cmdLen + RPC_UART_FCS_LEN < 256
        /\ Size(c.req.writes) < 256

Sound(c) == Laid(c) /\ Small(c)

\* The functions some of whose calls are misfits.
Misfits == {"zdoUnbindReq", "sysRamWrite", "zbWriteConfiguration"}

\* The functions of mtSapi.c whose layout is fixed.
LEMMA SapiPlainFit == \A f \in DOMAIN SapiPlain : Fit(SapiPlain[f])
  <1>1. Fit(zbSystemReset) /\ Fit(zbStartReq) /\ Fit(zbPermitJoiningReq)
    BY DEF Fit, Summable, Size, Written, Three, Item, Sreq, Areq, zbSystemReset,
           zbStartReq, zbPermitJoiningReq
  <1>2. Fit(zbBindDevice) /\ Fit(zbAllowBind) /\ Fit(zbFindDeviceReq)
    BY DEF Fit, Summable, Size, Written, Three, Item, Sreq, Areq, zbBindDevice,
           zbAllowBind, zbFindDeviceReq
  <1>3. Fit(zbGetDeviceInfo) /\ Fit(zbReadConfiguration)
    BY DEF Fit, Summable, Size, Written, Three, Item, Sreq, Areq, zbGetDeviceInfo,
           zbReadConfiguration
  <1> QED
    BY <1>1, <1>2, <1>3 DEF SapiPlain

\* The functions of mtSys.c whose layout is fixed.
LEMMA SysPlainFit == \A f \in DOMAIN SysPlain \ {"sysResetReq"} : Fit(SysPlain[f])
  <1>1. Fit(sysPing) /\ Fit(sysSetExtAddr) /\ Fit(sysGetExtAddr)
    BY DEF Fit, Summable, Size, Written, Three, Item, Sreq, Areq, sysPing,
           sysSetExtAddr, sysGetExtAddr
  <1>2. Fit(sysRamRead) /\ Fit(sysVersion) /\ Fit(sysOsalNvRead)
    BY DEF Fit, Summable, Size, Written, Three, Item, Sreq, Areq, sysRamRead,
           sysVersion, sysOsalNvRead
  <1>3. Fit(sysOsalNvDelete) /\ Fit(sysOsalNvLength) /\ Fit(sysOsalStartTimer)
    BY DEF Fit, Summable, Size, Written, Three, Item, Sreq, Areq, sysOsalNvDelete,
           sysOsalNvLength, sysOsalStartTimer
  <1>4. Fit(sysOsalStopTimer) /\ Fit(sysStackTune) /\ Fit(sysAdcRead)
    BY DEF Fit, Summable, Size, Written, Three, Item, Sreq, Areq, sysOsalStopTimer,
           sysStackTune, sysAdcRead
  <1>5. Fit(sysGpio) /\ Fit(sysRandom) /\ Fit(sysSetTime)
    BY DEF Fit, Summable, Size, Written, Three, Item, Sreq, Areq, sysGpio, sysRandom,
           sysSetTime
  <1>6. Fit(sysGetTime) /\ Fit(sysSetTxPower)
    BY DEF Fit, Summable, Size, Written, Three, Item, Sreq, Areq, sysGetTime,
           sysSetTxPower
  <1> QED
    BY <1>1, <1>2, <1>3, <1>4, <1>5, <1>6 DEF SysPlain

\* The functions of mtZdo.c whose layout is fixed.
LEMMA ZdoPlainFit == \A f \in DOMAIN ZdoPlain : Fit(ZdoPlain[f])
  <1>1. Fit(zdoInit) /\ Fit(zdoNwkAddrReq) /\ Fit(zdoIeeeAddrReq)
    BY DEF Fit, Summable, Size, Written, Three, Item, Sreq, Areq, zdoInit,
           zdoNwkAddrReq, zdoIeeeAddrReq
  <1>2. Fit(zdoNodeDescReq) /\ Fit(zdoPowerDescReq) /\ Fit(zdoSimpleDescReq)
    BY DEF Fit, Summable, Size, Written, Three, Item, Sreq, Areq, zdoNodeDescReq,
           zdoPowerDescReq, zdoSimpleDescReq
  <1>3. Fit(zdoActiveEpReq) /\ Fit(zdoComplexDescReq) /\ Fit(zdoUserDescReq)
    BY DEF Fit, Summable, Size, Written, Three, Item, Sreq, Areq, zdoActiveEpReq,
           zdoComplexDescReq, zdoUserDescReq
  <1>4. Fit(zdoDeviceAnnce) /\ Fit(zdoServerDiscReq) /\ Fit(zdoMgmtNwkDiscReq)
    BY DEF Fit, Summable, Size, Written, Three, Item, Sreq, Areq, zdoDeviceAnnce,
           zdoServerDiscReq, zdoMgmtNwkDiscReq
  <1>5. Fit(zdoMgmtLqiReq) /\ Fit(zdoMgmtRtgReq) /\ Fit(zdoMgmtBindReq)
    BY DEF Fit, Summable, Size, Written, Three, Item, Sreq, Areq, zdoMgmtLqiReq,
           zdoMgmtRtgReq, zdoMgmtBindReq
  <1>6. Fit(zdoMgmtLeaveReq) /\ Fit(zdoMgmtDirectJoinReq) /\ Fit(zdoMgmtPermitJoinReq)
    BY DEF Fit, Summable, Size, Written, Three, Item, Sreq, Areq, zdoMgmtLeaveReq,
           zdoMgmtDirectJoinReq, zdoMgmtPermitJoinReq
  <1>7. Fit(zdoMgmtNwkUpdateReq) /\ Fit(zdoStartupFromApp) /\ Fit(zdoAutoFindDestination)
    BY DEF Fit, Summable, Size, Written, Three, Item, Sreq, Areq, zdoMgmtNwkUpdateReq,
           zdoStartupFromApp, zdoAutoFindDestination
  <1>8. Fit(zdoSetLinkKey) /\ Fit(zdoRemoveLinkKey) /\ Fit(zdoGetLinkKey)
    BY DEF Fit, Summable, Size, Written, Three, Item, Sreq, Areq, zdoSetLinkKey,
           zdoRemoveLinkKey, zdoGetLinkKey
  <1>9. Fit(zdoNwkDiscoveryReq) /\ Fit(zdoJoinReq) /\ Fit(zdoMsgCbRegister)
    BY DEF Fit, Summable, Size, Written, Three, Item, Sreq, Areq, zdoNwkDiscoveryReq,
           zdoJoinReq, zdoMsgCbRegister
  <1>10. Fit(zdoMsgCbRemove)
    BY DEF Fit, Summable, Size, Written, Three, Item, Sreq, Areq, zdoMsgCbRemove
  <1> QED
    BY <1>1, <1>2, <1>3, <1>4, <1>5, <1>6, <1>7, <1>8, <1>9, <1>10 DEF ZdoPlain

\* The calls whose function fills its buffer and fits a frame.
LEMMA FitSound ==
    ASSUME NEW f, NEW args, NEW r, Fit(r), f \notin Misfits \union Oversized
    PROVE  Sound(Call(f, args, r))
  <1> DEFINE c == Call(f, args, r)
  <1>1. c.fn = f /\ c.req = r
    BY DEF Call
  <1> HIDE DEF c
  <1>2. Laid(c)
    BY <1>1 DEF Laid, Fit, Misfit, Misfits
  <1>3. Small(c)
    BY <1>1 DEF Small, Fit, RPC_UART_HDR_LEN, RPC_UART_FCS_LEN
  <1> QED
    BY <1>2, <1>3 DEF c, Sound

\* Calls of the functions whose lists may be longer than a frame.
LEMMA OversizedSound ==
    ASSUME NEW f \in Oversized, NEW args, NEW r, Summable(r.writes), r.cmdLen \in Nat,
           Size(r.writes) = r.cmdLen, r.type = "SREQ", r.waits
    PROVE  Sound(Call(f, args, r))
  <1> DEFINE c == Call(f, args, r)
  <1>1. c.fn = f /\ c.req = r
    BY DEF Call
  <1> HIDE DEF c
  <1>2. ~Misfit(c)
    BY <1>1 DEF Misfit, Oversized
  <1>3. Laid(c)
    BY <1>1, <1>2 DEF Laid
  <1>4. Small(c)
    BY <1>1 DEF Small
  <1> QED
    BY <1>3, <1>4 DEF c, Sound

\* The calls of mtSapi.c.
LEMMA SapiCallsSound == \A c \in SapiCalls(ListLengths) : Sound(c)
  <1> DEFINE plain == {Call(f, <<>>, SapiPlain[f]) : f \in DOMAIN SapiPlain}
         zbAppRegisterReqs == {Call("zbAppRegisterReq", p, zbAppRegisterReq(p[1], p[2])) :
                               p \in UpTo(ListLengths, 255) \X UpTo(ListLengths, 255)}
         zbSendDataReqs == {Call("zbSendDataReq", <<n>>, zbSendDataReq(n)) :
                            n \in UpTo(ListLengths, 99)}
         zbWriteConfigurations == {Call("zbWriteConfiguration", <<n>>, zbWriteConfiguration(n)) :
                                   n \in UpTo(ListLengths, 128)}
  <1>1. \A c \in plain : Sound(c)
    <2> SUFFICES ASSUME NEW f \in DOMAIN SapiPlain PROVE Sound(Call(f, <<>>, SapiPlain[f]))
      OBVIOUS
    <2>1. f \notin Misfits \union Oversized
      BY DEF SapiPlain, Misfits, Oversized
    <2>2. Fit(SapiPlain[f])
      BY SapiPlainFit
    <2> QED
      BY <2>1, <2>2, FitSound
  <1>2. \A c \in zbAppRegisterReqs : Sound(c)
    <2>1. ASSUME NEW a \in UpTo(ListLengths, 255), NEW b \in UpTo(ListLengths, 255), NEW p
          PROVE  Sound(Call("zbAppRegisterReq", p, zbAppRegisterReq(a, b)))
      <3>1. a \in 0..255 /\ b \in 0..255
        BY LengthsAreNat DEF UpTo
      <3>2. /\ Summable(zbAppRegisterReq(a, b).writes)
            /\ Size(zbAppRegisterReq(a, b).writes) = 9 + a * 2 + b * 2
        BY <3>1 DEF Summable, Size, Written, Three, Item, Sreq, zbAppRegisterReq
      <3>3. /\ zbAppRegisterReq(a, b).cmdLen = 9 + a * 2 + b * 2
            /\ zbAppRegisterReq(a, b).type = "SREQ" /\ zbAppRegisterReq(a, b).waits
        BY DEF Sreq, zbAppRegisterReq
      <3>4. "zbAppRegisterReq" \in Oversized
        BY DEF Oversized
      <3>5. 9 + a * 2 + b * 2 \in Nat
        BY <3>1
      <3> QED
        BY <3>2, <3>3, <3>4, <3>5, OversizedSound
    <2>2. ASSUME NEW p \in UpTo(ListLengths, 255) \X UpTo(ListLengths, 255)
          PROVE  Sound(Call("zbAppRegisterReq", p, zbAppRegisterReq(p[1], p[2])))
      <3>1. p[1] \in UpTo(ListLengths, 255) /\ p[2] \in UpTo(ListLengths, 255)
        OBVIOUS
      <3> QED
        BY <2>1, <3>1, ZenonT(30)
    <2> QED
      BY <2>2, ZenonT(30), ZenonT(60)
  <1>3. \A c \in zbSendDataReqs : Sound(c)
    <2> SUFFICES ASSUME NEW n \in UpTo(ListLengths, 99)
                 PROVE  Sound(Call("zbSendDataReq", <<n>>, zbSendDataReq(n)))
      OBVIOUS
    <2>1. n \in 0..99
      BY LengthsAreNat DEF UpTo
    <2>2. Fit(zbSendDataReq(n))
      BY <2>1 DEF Fit, Summable, Size, Written, Three, Item, Sreq, zbSendDataReq
    <2>3. "zbSendDataReq" \notin Misfits \union Oversized
      BY DEF Misfits, Oversized
    <2> QED
      BY <2>2, <2>3, FitSound
  <1>4. \A c \in zbWriteConfigurations : Sound(c)
    <2> SUFFICES ASSUME NEW n \in UpTo(ListLengths, 128)
                 PROVE  Sound(Call("zbWriteConfiguration", <<n>>, zbWriteConfiguration(n)))
      OBVIOUS
    <2>1. n \in 0..128
      BY LengthsAreNat DEF UpTo
    <2>2. /\ Summable(zbWriteConfiguration(n).writes)
          /\ Size(zbWriteConfiguration(n).writes) = 2 + n
      BY <2>1 DEF Summable, Size, Written, Three, Item, Sreq, zbWriteConfiguration
    <2> QED
      BY <2>1, <2>2 DEF Sound, Laid, Small, Call, Misfit, Oversized, RPC_UART_HDR_LEN,
          RPC_UART_FCS_LEN, Sreq, zbWriteConfiguration
  <1>5. SapiCalls(ListLengths) =
            plain
            \union zbAppRegisterReqs
            \union zbSendDataReqs
            \union zbWriteConfigurations
    BY DEF SapiCalls
  <1> HIDE DEF plain, zbAppRegisterReqs, zbSendDataReqs, zbWriteConfigurations
  <1> QED
    BY <1>1, <1>2, <1>3, <1>4, <1>5, ZenonT(30)

\* The calls of mtSys.c.
LEMMA SysCallsSound == \A c \in SysCalls(ListLengths) : Sound(c)
  <1> DEFINE plain == {Call(f, <<>>, SysPlain[f]) : f \in DOMAIN SysPlain}
         sysRamWrites == {Call("sysRamWrite", <<n>>, sysRamWrite(n)) :
                          n \in UpTo(ListLengths, 128)}
         sysOsalNvWrites == {Call("sysOsalNvWrite", <<n>>, sysOsalNvWrite(n)) :
                             n \in UpTo(ListLengths, 246)}
         sysOsalNvItemInits == {Call("sysOsalNvItemInit", <<n>>, sysOsalNvItemInit(n)) :
                                n \in UpTo(ListLengths, 245)}
  <1>1. \A c \in plain : Sound(c)
    <2> SUFFICES ASSUME NEW f \in DOMAIN SysPlain PROVE Sound(Call(f, <<>>, SysPlain[f]))
      OBVIOUS
    <2>1. f \notin Misfits \union Oversized
      BY DEF SysPlain, Misfits, Oversized
    <2>2. CASE f = "sysResetReq"
      BY <2>2, SMTT(60), SMTT(60) DEF SysPlain, sysResetReq, Areq, Summable, Size, Written, Three, Item,
                  Sound, Laid, Small, Call, Misfit, Oversized, RPC_UART_HDR_LEN,
                  RPC_UART_FCS_LEN
    <2>3. CASE f # "sysResetReq"
      <3>1. Fit(SysPlain[f])
        BY <2>3, SysPlainFit
      <3> QED
        BY <2>1, <3>1, FitSound
    <2> QED
      BY <2>2, <2>3
  <1>2. \A c \in sysRamWrites : Sound(c)
    <2> SUFFICES ASSUME NEW n \in UpTo(ListLengths, 128)
                 PROVE  Sound(Call("sysRamWrite", <<n>>, sysRamWrite(n)))
      OBVIOUS
    <2>1. n \in 0..128
      BY LengthsAreNat DEF UpTo
    <2>2. /\ Summable(sysRamWrite(n).writes)
          /\ Size(sysRamWrite(n).writes) = 3 + n
      BY <2>1 DEF Summable, Size, Written, Three, Item, Sreq, sysRamWrite
    <2> QED
      BY <2>1, <2>2 DEF Sound, Laid, Small, Call, Misfit, Oversized, RPC_UART_HDR_LEN,
          RPC_UART_FCS_LEN, Sreq, sysRamWrite
  <1>3. \A c \in sysOsalNvWrites : Sound(c)
    <2> SUFFICES ASSUME NEW n \in UpTo(ListLengths, 246)
                 PROVE  Sound(Call("sysOsalNvWrite", <<n>>, sysOsalNvWrite(n)))
      OBVIOUS
    <2>1. n \in 0..246
      BY LengthsAreNat DEF UpTo
    <2>2. Fit(sysOsalNvWrite(n))
      BY <2>1 DEF Fit, Summable, Size, Written, Three, Item, Sreq, sysOsalNvWrite
    <2>3. "sysOsalNvWrite" \notin Misfits \union Oversized
      BY DEF Misfits, Oversized
    <2> QED
      BY <2>2, <2>3, FitSound
  <1>4. \A c \in sysOsalNvItemInits : Sound(c)
    <2> SUFFICES ASSUME NEW n \in UpTo(ListLengths, 245)
                 PROVE  Sound(Call("sysOsalNvItemInit", <<n>>, sysOsalNvItemInit(n)))
      OBVIOUS
    <2>1. n \in 0..245
      BY LengthsAreNat DEF UpTo
    <2>2. Fit(sysOsalNvItemInit(n))
      BY <2>1 DEF Fit, Summable, Size, Written, Three, Item, Sreq, sysOsalNvItemInit
    <2>3. "sysOsalNvItemInit" \notin Misfits \union Oversized
      BY DEF Misfits, Oversized
    <2> QED
      BY <2>2, <2>3, FitSound
  <1>5. SysCalls(ListLengths) =
            plain
            \union sysRamWrites
            \union sysOsalNvWrites
            \union sysOsalNvItemInits
    BY DEF SysCalls
  <1> HIDE DEF plain, sysRamWrites, sysOsalNvWrites, sysOsalNvItemInits
  <1> QED
    BY <1>1, <1>2, <1>3, <1>4, <1>5, ZenonT(30)

\* The calls of mtZdo.c.
LEMMA ZdoCallsSound == \A c \in ZdoCalls(ListLengths) : Sound(c)
  <1> DEFINE plain == {Call(f, <<>>, ZdoPlain[f]) : f \in DOMAIN ZdoPlain}
         zdoMatchDescReqs == {Call("zdoMatchDescReq", p, zdoMatchDescReq(p[1], p[2])) :
                              p \in UpTo(ListLengths, 16) \X UpTo(ListLengths, 16)}
         zdoEndDeviceBindReqs == {Call("zdoEndDeviceBindReq", p, zdoEndDeviceBindReq(p[1], p[2])) :
                                  p \in UpTo(ListLengths, 16) \X UpTo(ListLengths, 16)}
         zdoUserDescSets == {Call("zdoUserDescSet", <<n>>, zdoUserDescSet(n)) :
                             n \in UpTo(ListLengths, 16)}
         zdoBindReqs == {Call("zdoBindReq", <<n>>, zdoBindReq(n)) : n \in 1..3}
         zdoUnbindReqs == {Call("zdoUnbindReq", <<n>>, zdoUnbindReq(n)) : n \in 1..3}
  <1>1. \A c \in plain : Sound(c)
    <2> SUFFICES ASSUME NEW f \in DOMAIN ZdoPlain PROVE Sound(Call(f, <<>>, ZdoPlain[f]))
      OBVIOUS
    <2>1. f \notin Misfits \union Oversized
      BY DEF ZdoPlain, Misfits, Oversized
    <2>2. Fit(ZdoPlain[f])
      BY ZdoPlainFit
    <2> QED
      BY <2>1, <2>2, FitSound
  <1>2. \A c \in zdoMatchDescReqs : Sound(c)
    <2>1. ASSUME NEW a \in UpTo(ListLengths, 16), NEW b \in UpTo(ListLengths, 16), NEW p
          PROVE  Sound(Call("zdoMatchDescReq", p, zdoMatchDescReq(a, b)))
      <3>1. a \in 0..16 /\ b \in 0..16
        BY LengthsAreNat DEF UpTo
      <3>2. Fit(zdoMatchDescReq(a, b))
        BY <3>1 DEF Fit, Summable, Size, Written, Three, Item, Sreq, zdoMatchDescReq
      <3>3. "zdoMatchDescReq" \notin Misfits \union Oversized
        BY DEF Misfits, Oversized
      <3> QED
        BY <3>2, <3>3, FitSound
    <2>2. ASSUME NEW p \in UpTo(ListLengths, 16) \X UpTo(ListLengths, 16)
          PROVE  Sound(Call("zdoMatchDescReq", p, zdoMatchDescReq(p[1], p[2])))
      <3>1. p[1] \in UpTo(ListLengths, 16) /\ p[2] \in UpTo(ListLengths, 16)
        OBVIOUS
      <3> QED
        BY <2>1, <3>1, ZenonT(30)
    <2> QED
      BY <2>2, ZenonT(30)
  <1>3. \A c \in zdoEndDeviceBindReqs : Sound(c)
    <2>1. ASSUME NEW a \in UpTo(ListLengths, 16), NEW b \in UpTo(ListLengths, 16), NEW p
          PROVE  Sound(Call("zdoEndDeviceBindReq", p, zdoEndDeviceBindReq(a, b)))
      <3>1. a \in 0..16 /\ b \in 0..16
        BY LengthsAreNat DEF UpTo
      <3>2. Fit(zdoEndDeviceBindReq(a, b))
        BY <3>1 DEF Fit, Summable, Size, Written, Three, Item, Sreq, zdoEndDeviceBindReq
      <3>3. "zdoEndDeviceBindReq" \notin Misfits \union Oversized
        BY DEF Misfits, Oversized
      <3> QED
        BY <3>2, <3>3, FitSound
    <2>2. ASSUME NEW p \in UpTo(ListLengths, 16) \X UpTo(ListLengths, 16)
          PROVE  Sound(Call("zdoEndDeviceBindReq", p, zdoEndDeviceBindReq(p[1], p[2])))
      <3>1. p[1] \in UpTo(ListLengths, 16) /\ p[2] \in UpTo(ListLengths, 16)
        OBVIOUS
      <3> QED
        BY <2>1, <3>1, ZenonT(30)
    <2> QED
      BY <2>2, ZenonT(30)
  <1>4. \A c \in zdoUserDescSets : Sound(c)
    <2> SUFFICES ASSUME NEW n \in UpTo(ListLengths, 16)
                 PROVE  Sound(Call("zdoUserDescSet", <<n>>, zdoUserDescSet(n)))
      OBVIOUS
    <2>1. n \in 0..16
      BY LengthsAreNat DEF UpTo
    <2>2. Fit(zdoUserDescSet(n))
      BY <2>1 DEF Fit, Summable, Size, Written, Three, Item, Sreq, zdoUserDescSet
    <2>3. "zdoUserDescSet" \notin Misfits \union Oversized
      BY DEF Misfits, Oversized
    <2> QED
      BY <2>2, <2>3, FitSound
  <1>5. \A c \in zdoBindReqs : Sound(c)
    <2> SUFFICES ASSUME NEW n \in 1..3
                 PROVE  Sound(Call("zdoBindReq", <<n>>, zdoBindReq(n)))
      OBVIOUS
    <2>2. Fit(zdoBindReq(n))
      BY DEF Fit, Summable, Size, Written, Three, Item, Sreq, zdoBindReq,
             AddressBytes, EndpointBytes
    <2>3. "zdoBindReq" \notin Misfits \union Oversized
      BY DEF Misfits, Oversized
    <2> QED
      BY <2>2, <2>3, FitSound
  <1>6. \A c \in zdoUnbindReqs : Sound(c)
    <2> SUFFICES ASSUME NEW n \in 1..3
                 PROVE  Sound(Call("zdoUnbindReq", <<n>>, zdoUnbindReq(n)))
      OBVIOUS
    <2>2. /\ Summable(zdoUnbindReq(n).writes)
          /\ Size(zdoUnbindReq(n).writes) = 14 + AddressBytes(n) + EndpointBytes(n)
      BY DEF Summable, Size, Written, Three, Item, Sreq, zdoUnbindReq,
             AddressBytes, EndpointBytes
    <2> QED
      BY <2>2 DEF Sound, Laid, Small, Call, Misfit, Oversized, RPC_UART_HDR_LEN,
          RPC_UART_FCS_LEN, Sreq, zdoUnbindReq,
             AddressBytes, EndpointBytes
  <1>7. ZdoCalls(ListLengths) =
            plain
            \union zdoMatchDescReqs
            \union zdoEndDeviceBindReqs
            \union zdoUserDescSets
            \union zdoBindReqs
            \union zdoUnbindReqs
    BY DEF ZdoCalls
  <1> HIDE DEF plain, zdoMatchDescReqs, zdoEndDeviceBindReqs, zdoUserDescSets,
               zdoBindReqs, zdoUnbindReqs
  <1> QED
    BY <1>1, <1>2, <1>3, <1>4, <1>5, <1>6, <1>7, ZenonT(30)

\* The calls of mtAf.c.
LEMMA AfCallsSound == \A c \in AfCalls(ListLengths) : Sound(c)
  <1> DEFINE plain == {Call("afDataRetrieve", <<>>, afDataRetrieve),
                      Call("afApsfConfigSet", <<>>, afApsfConfigSet)}
         afRegisters == {Call("afRegister", p, afRegister(p[1], p[2])) :
                         p \in UpTo(ListLengths, 16) \X UpTo(ListLengths, 16)}
         afDataRequests == {Call("afDataRequest", <<n>>, afDataRequest(n)) :
                            n \in UpTo(ListLengths, 128)}
         afDataRequestExts == {Call("afDataRequestExt", <<n>>, afDataRequestExt(n)) :
                               n \in UpTo(ListLengths, 230)}
         afDataRequestSrcRtgs == {Call("afDataRequestSrcRtg", p, afDataRequestSrcRtg(p[1], p[2])) :
                                  p \in UpTo(ListLengths, 255) \X UpTo(ListLengths, 128)}
         afInterPanCtls == {Call("afInterPanCtl", <<n>>, afInterPanCtl(n)) : n \in 0..3}
         afDataStores == {Call("afDataStore", <<n>>, afDataStore(n)) :
                          n \in UpTo(ListLengths, 247)}
  <1>1. \A c \in plain : Sound(c)
    <2>1. Fit(afDataRetrieve) /\ Fit(afApsfConfigSet)
      BY DEF Fit, Summable, Size, Written, Three, Item, Sreq, afDataRetrieve,
             afApsfConfigSet
    <2>2. /\ "afDataRetrieve" \notin Misfits \union Oversized
          /\ "afApsfConfigSet" \notin Misfits \union Oversized
      BY DEF Misfits, Oversized
    <2> QED
      BY <2>1, <2>2, FitSound, ZenonT(30)
  <1>2. \A c \in afRegisters : Sound(c)
    <2>1. ASSUME NEW a \in UpTo(ListLengths, 16), NEW b \in UpTo(ListLengths, 16), NEW p
          PROVE  Sound(Call("afRegister", p, afRegister(a, b)))
      <3>1. a \in 0..16 /\ b \in 0..16
        BY LengthsAreNat DEF UpTo
      <3>2. Fit(afRegister(a, b))
        BY <3>1 DEF Fit, Summable, Size, Written, Three, Item, Sreq, afRegister
      <3>3. "afRegister" \notin Misfits \union Oversized
        BY DEF Misfits, Oversized
      <3> QED
        BY <3>2, <3>3, FitSound
    <2>2. ASSUME NEW p \in UpTo(ListLengths, 16) \X UpTo(ListLengths, 16)
          PROVE  Sound(Call("afRegister", p, afRegister(p[1], p[2])))
      <3>1. p[1] \in UpTo(ListLengths, 16) /\ p[2] \in UpTo(ListLengths, 16)
        OBVIOUS
      <3> QED
        BY <2>1, <3>1, ZenonT(30)
    <2> QED
      BY <2>2, ZenonT(30)
  <1>3. \A c \in afDataRequests : Sound(c)
    <2> SUFFICES ASSUME NEW n \in UpTo(ListLengths, 128)
                 PROVE  Sound(Call("afDataRequest", <<n>>, afDataRequest(n)))
      OBVIOUS
    <2>1. n \in 0..128
      BY LengthsAreNat DEF UpTo
    <2>2. Fit(afDataRequest(n))
      BY <2>1 DEF Fit, Summable, Size, Written, Three, Item, Sreq, afDataRequest
    <2>3. "afDataRequest" \notin Misfits \union Oversized
      BY DEF Misfits, Oversized
    <2> QED
      BY <2>2, <2>3, FitSound
  <1>4. \A c \in afDataRequestExts : Sound(c)
    <2> SUFFICES ASSUME NEW n \in UpTo(ListLengths, 230)
                 PROVE  Sound(Call("afDataRequestExt", <<n>>, afDataRequestExt(n)))
      OBVIOUS
    <2>1. n \in 0..230
      BY LengthsAreNat DEF UpTo
    <2>2. Fit(afDataRequestExt(n))
      BY <2>1 DEF Fit, Summable, Size, Written, Three, Item, Sreq, afDataRequestExt
    <2>3. "afDataRequestExt" \notin Misfits \union Oversized
      BY DEF Misfits, Oversized
    <2> QED
      BY <2>2, <2>3, FitSound
  <1>5. \A c \in afDataRequestSrcRtgs : Sound(c)
    <2>1. ASSUME NEW a \in UpTo(ListLengths, 255), NEW b \in UpTo(ListLengths, 128), NEW p
          PROVE  Sound(Call("afDataRequestSrcRtg", p, afDataRequestSrcRtg(a, b)))
      <3>1. a \in 0..255 /\ b \in 0..128
        BY LengthsAreNat DEF UpTo
      <3>2. /\ Summable(afDataRequestSrcRtg(a, b).writes)
            /\ Size(afDataRequestSrcRtg(a, b).writes) = 11 + a * 2 + b
        BY <3>1 DEF Summable, Size, Written, Three, Item, Sreq, afDataRequestSrcRtg
      <3>3. /\ afDataRequestSrcRtg(a, b).cmdLen = 11 + a * 2 + b
            /\ afDataRequestSrcRtg(a, b).type = "SREQ" /\ afDataRequestSrcRtg(a, b).waits
        BY DEF Sreq, afDataRequestSrcRtg
      <3>4. "afDataRequestSrcRtg" \in Oversized
        BY DEF Oversized
      <3>5. 11 + a * 2 + b \in Nat
        BY <3>1
      <3> QED
        BY <3>2, <3>3, <3>4, <3>5, OversizedSound
    <2>2. ASSUME NEW p \in UpTo(ListLengths, 255) \X UpTo(ListLengths, 128)
          PROVE  Sound(Call("afDataRequestSrcRtg", p, afDataRequestSrcRtg(p[1], p[2])))
      <3>1. p[1] \in UpTo(ListLengths, 255) /\ p[2] \in UpTo(ListLengths, 128)
        OBVIOUS
      <3> QED
        BY <2>1, <3>1, ZenonT(30)
    <2> QED
      BY <2>2, ZenonT(30), ZenonT(60)
  <1>6. \A c \in afInterPanCtls : Sound(c)
    <2> SUFFICES ASSUME NEW n \in 0..3
                 PROVE  Sound(Call("afInterPanCtl", <<n>>, afInterPanCtl(n)))
      OBVIOUS
    <2>2. Fit(afInterPanCtl(n))
      BY DEF Fit, Summable, Size, Written, Three, Item, Sreq, afInterPanCtl
    <2>3. "afInterPanCtl" \notin Misfits \union Oversized
      BY DEF Misfits, Oversized
    <2> QED
      BY <2>2, <2>3, FitSound
  <1>7. \A c \in afDataStores : Sound(c)
    <2> SUFFICES ASSUME NEW n \in UpTo(ListLengths, 247)
                 PROVE  Sound(Call("afDataStore", <<n>>, afDataStore(n)))
      OBVIOUS
    <2>1. n \in 0..247
      BY LengthsAreNat DEF UpTo
    <2>2. Fit(afDataStore(n))
      BY <2>1 DEF Fit, Summable, Size, Written, Three, Item, Sreq, afDataStore
    <2>3. "afDataStore" \notin Misfits \union Oversized
      BY DEF Misfits, Oversized
    <2> QED
      BY <2>2, <2>3, FitSound
  <1>8. AfCalls(ListLengths) =
            plain
            \union afRegisters
            \union afDataRequests
            \union afDataRequestExts
            \union afDataRequestSrcRtgs
            \union afInterPanCtls
            \union afDataStores
    BY DEF AfCalls
  <1> HIDE DEF plain, afRegisters, afDataRequests, afDataRequestExts,
               afDataRequestSrcRtgs, afInterPanCtls, afDataStores
  <1> QED
    BY <1>1, <1>2, <1>3, <1>4, <1>5, <1>6, <1>7, <1>8, ZenonT(30)

\* What a struct says that has more output clusters than room for them.
LEMMA MisreadLaid == \A c \in MisreadCalls : Laid(c)
  <1>1. ASSUME NEW n \in {17, 255}
        PROVE  LET c == Call("afRegister", <<0, n>>, afRegister(0, n)) IN Laid(c)
    <2>1. /\ Summable(afRegister(0, n).writes)
          /\ Size(afRegister(0, n).writes) = 9 + n * 2
      BY DEF Summable, Size, Written, Three, Item, Sreq, afRegister
    <2> QED
      BY <2>1 DEF Laid, Call, Sreq, Misfit, afRegister
  <1>2. ASSUME NEW n \in {17, 255}
        PROVE  LET c == Call("zdoMatchDescReq", <<0, n>>, zdoMatchDescReq(0, n)) IN Laid(c)
    <2>1. /\ Summable(zdoMatchDescReq(0, n).writes)
          /\ Size(zdoMatchDescReq(0, n).writes) = 8 + n * 2
      BY DEF Summable, Size, Written, Three, Item, Sreq, zdoMatchDescReq
    <2> QED
      BY <2>1 DEF Laid, Call, Sreq, Misfit, zdoMatchDescReq
  <1>3. ASSUME NEW n \in {17, 255}
        PROVE  LET c == Call("zdoEndDeviceBindReq", <<0, n>>, zdoEndDeviceBindReq(0, n))
               IN  Laid(c)
    <2>1. /\ Summable(zdoEndDeviceBindReq(0, n).writes)
          /\ Size(zdoEndDeviceBindReq(0, n).writes) = 17 + n * 2
      BY DEF Summable, Size, Written, Three, Item, Sreq, zdoEndDeviceBindReq
    <2> QED
      BY <2>1 DEF Laid, Call, Sreq, Misfit, zdoEndDeviceBindReq
  <1>4. ASSUME NEW c \in {Call("afRegister", <<0, n>>, afRegister(0, n)) : n \in {17, 255}}
        PROVE  Laid(c)
    <2>1. PICK n \in {17, 255} : c = Call("afRegister", <<0, n>>, afRegister(0, n))
      OBVIOUS
    <2> QED
      BY <1>1, <2>1, ZenonT(30), ZenonT(60)
  <1>5. ASSUME NEW c \in {Call("zdoMatchDescReq", <<0, n>>, zdoMatchDescReq(0, n)) :
                             n \in {17, 255}}
        PROVE  Laid(c)
    <2>1. PICK n \in {17, 255} : c = Call("zdoMatchDescReq", <<0, n>>, zdoMatchDescReq(0, n))
      OBVIOUS
    <2> QED
      BY <1>2, <2>1, ZenonT(30), ZenonT(60)
  <1>6. ASSUME NEW c \in {Call("zdoEndDeviceBindReq", <<0, n>>, zdoEndDeviceBindReq(0, n)) :
                             n \in {17, 255}}
        PROVE  Laid(c)
    <2>1. PICK n \in {17, 255} :
             c = Call("zdoEndDeviceBindReq", <<0, n>>, zdoEndDeviceBindReq(0, n))
      OBVIOUS
    <2> QED
      BY <1>3, <2>1, ZenonT(30), ZenonT(60)
  <1> QED
    BY <1>4, <1>5, <1>6, ZenonT(30), ZenonT(60) DEF MisreadCalls

\* Every call.
LEMMA CallsLaid ==
    /\ \A c \in Calls \union MisreadCalls \union {NoCall} : Laid(c)
    /\ \A c \in Calls : Small(c)
  <1>1. Laid(NoCall)
    <2> DEFINE r == Areq(0, <<>>, FALSE)
    <2>1. /\ Summable(r.writes) /\ Size(r.writes) = 0
          /\ r.cmdLen = 0 /\ r.type = "AREQ" /\ ~r.waits
      BY DEF Areq, Summable, Size, Written, Three, Item
    <2>2. NoCall.req = r /\ NoCall.fn = ""
      BY DEF NoCall, Call
    <2>3. ~Misfit(NoCall)
      BY <2>2 DEF Misfit
    <2> HIDE DEF r
    <2>4. NoCall.req.type = "AREQ" /\ ~NoCall.req.waits /\ NoCall.req.type # "SREQ"
      BY <2>1, <2>2
    <2>5. NoCall.req.cmdLen \in Nat
      <3>1. NoCall.req.cmdLen = 0
        BY <2>1, <2>2, ZenonT(30)
      <3> QED
        BY <3>1
    <2> QED
      BY <2>1, <2>2, <2>3, <2>4, <2>5 DEF Laid
  <1> QED
    BY <1>1, SapiCallsSound, SysCallsSound, ZdoCallsSound, AfCallsSound, MisreadLaid,
       ZenonT(30) DEF Calls, Sound

-----------------------------------------------------------------------------
(* The invariant: what has been written so far is what the statements      *)
(* executed so far add up to, and the answers that have come are those of  *)
(* the request under way and of waits that ended too early.                *)

Byte(n) == n % 256

Tallied ==
    LET writes == call.req.writes
    IN /\ done \in 0..Len(writes)
       /\ filled = Written(writes, done)
       /\ cmInd = Byte(filled)

Answered ==
    /\ queueing \in 0..1 /\ answers \in Nat /\ missed \in Nat
    /\ pc # "sent" => answers + queueing <= missed
    /\ pc = "sent" => /\ answers + queueing <= missed + Awaited
                      /\ Awaited <= answers + queueing

Under ==
    /\ pc \in {"idle", "filling", "sent"}
    /\ call \in Calls \union MisreadCalls \union {NoCall}
    /\ pc = "sent" => done = Len(call.req.writes)

RInv == Under /\ Tallied /\ Answered

\* What all functions of the program do, whoever calls them.
AnyNext == Next \/ \E c \in Calls \union MisreadCalls : Enter(c)

\* The console calls request functions and leaves their variables alone otherwise.
LEMMA LineStep == [LineNext]_<<vars, lineVars>> => [AnyNext]_vars
  BY DEF LineNext, Choose, TypeAttribute, AskLengthAgain, TypeList, SendCmd, AnyNext

\* A function that has just begun, or none.
LEMMA Begins ==
    ASSUME NEW c \in Calls \union MisreadCalls \union {NoCall}
    PROVE  0 \in 0..Len(c.req.writes) /\ Written(c.req.writes, 0) = 0 /\ Byte(0) = 0
  <1> DEFINE w == c.req.writes
  <1>1. w \in Seq(Nat)
    BY CallsLaid DEF Laid, Summable
  <1> HIDE DEF w
  <1>2. 0 \in 0..Len(w)
    BY <1>1
  <1>3. Written(w, 0) = 0
    BY WrittenNat
  <1>4. Byte(0) = 0
    BY DEF Byte
  <1> QED
    BY <1>2, <1>3, <1>4 DEF w

\* Counting in a byte is counting and then taking the byte.
LEMMA ByteSum == \A a, b \in Nat : Byte(Byte(a) + b) = Byte(a + b)
  BY SMTT(60) DEF Byte

\* Every step keeps it.
LEMMA RInvKept == RInv /\ [AnyNext]_vars => RInv'
  <1> SUFFICES ASSUME RInv, [AnyNext]_vars PROVE RInv'
    OBVIOUS
  <1>0. Laid(call)
    BY CallsLaid DEF RInv, Under
  <1>1. ASSUME NEW c \in Calls \union MisreadCalls, Enter(c) PROVE RInv'
    <2>1. Tallied'
      BY <1>1, Begins DEF Enter, Tallied
    <2> QED
      BY <1>1, <2>1 DEF Enter, answerVars, RInv, Under, Answered
  <1>2. ASSUME Leave,
               queueing' \in 0..1 /\ answers' \in Nat /\ missed' \in Nat,
               answers' + queueing' <= missed'
        PROVE  RInv'
    <2>1. Tallied'
      BY <1>2, Begins DEF Leave, Tallied
    <2> QED
      BY <1>2, <2>1 DEF Leave, RInv, Under, Answered
  <1>3. CASE NoMemory
    BY <1>2, <1>3 DEF NoMemory, answerVars, RInv, Answered
  <1>4. CASE Write
    <2> DEFINE w == call.req.writes
    <2>1. w \in Seq(Nat) /\ Len(w) <= 12
      BY <1>0 DEF Laid, Summable
    <2>2. done \in 0..Len(w) /\ filled = Written(w, done) /\ cmInd = Byte(filled)
      BY DEF RInv, Tallied
    <2>3. /\ done < Len(w) /\ done' = done + 1 /\ filled' = filled + w[done + 1]
          /\ cmInd' = (cmInd + w[done + 1]) % 256 /\ UNCHANGED <<pc, call, answerVars>>
          /\ pc = "filling"
      BY <1>4 DEF Write
    <2> HIDE DEF w
    <2>4. done \in 0..11 /\ \A i \in 1..(done + 1) : w[i] \in Nat
      BY <2>1, <2>2, <2>3, SMTT(60)
    <2>5. Written(w, done + 1) = Written(w, done) + w[done + 1]
      BY <2>4, WrittenNext
    <2>6. Written(w, done) \in Nat
      BY <2>4, WrittenNat
    <2>7. cmInd' = Byte(filled')
      <3>1. filled \in Nat /\ w[done + 1] \in Nat
        BY <2>2, <2>4, <2>6
      <3>2. cmInd' = Byte(cmInd + w[done + 1])
        BY <2>3 DEF Byte
      <3>3. filled' = filled + w[done + 1]
        BY <2>3
      <3>4. Byte(Byte(filled) + w[done + 1]) = Byte(filled + w[done + 1])
        BY <3>1, ByteSum
      <3> QED
        BY <2>2, <3>2, <3>3, <3>4, ZenonT(30)
    <2>8. done' \in 0..Len(w) /\ filled' = Written(w, done')
      BY <2>1, <2>2, <2>3, <2>5
    <2>9. w' = w
      BY <2>3 DEF w
    <2>10. Tallied'
      BY <2>7, <2>8, <2>9 DEF Tallied, w
    <2> QED
      BY <2>3, <2>10 DEF answerVars, RInv, Under, Answered
  <1>5. CASE Send
    <2>1. Under' /\ Tallied'
      BY <1>5 DEF Send, RInv, Under, Tallied
    <2>2. /\ pc = "filling" /\ pc' = "sent" /\ queueing + Awaited <= 1
          /\ queueing' = queueing + Awaited /\ UNCHANGED <<call, answers, missed>>
      BY <1>5 DEF Send
    <2>3. Awaited \in 0..1 /\ Awaited' = Awaited
      BY <2>2 DEF Awaited
    <2>4. Answered'
      BY <2>2, <2>3 DEF RInv, Answered
    <2> QED
      BY <2>1, <2>4 DEF RInv
  <1>6. CASE SendFails
    BY <1>2, <1>6 DEF SendFails, answerVars, RInv, Answered
  <1>7. CASE Wait
    <2>1. /\ pc = "sent" /\ Leave /\ UNCHANGED queueing
          /\ \/ answers > 0 /\ answers' = answers - 1 /\ UNCHANGED missed
             \/ answers = 0 /\ UNCHANGED answers /\ missed' = missed + Awaited
      BY <1>7 DEF Wait
    <2>2. Awaited \in 0..1
      BY DEF Awaited
    <2> QED
      BY <1>2, <2>1, <2>2 DEF RInv, Answered
  <1>8. CASE Return
    <2>1. Awaited = 0
      BY <1>0, <1>8 DEF Return, Laid, Awaited
    <2> QED
      BY <1>2, <1>8, <2>1 DEF Return, answerVars, RInv, Answered
  <1>9. CASE Queue
    <2>1. UNCHANGED <<pc, call, done, cmInd, filled, missed>>
      BY <1>9 DEF Queue
    <2>2. Under' /\ Tallied'
      BY <2>1 DEF RInv, Under, Tallied
    <2>3. Awaited \in 0..1 /\ Awaited' = Awaited
      BY <2>1 DEF Awaited
    <2>4. Answered'
      BY <1>9, <2>3 DEF Queue, RInv, Answered
    <2> QED
      BY <2>2, <2>4 DEF RInv
  <1>10. CASE UNCHANGED vars
    BY <1>10 DEF vars, answerVars, RInv, Under, Tallied, Answered, Awaited
  <1> QED
    BY <1>1, <1>3, <1>4, <1>5, <1>6, <1>7, <1>8, <1>9, <1>10 DEF AnyNext, Next

\* The functions' variables are always in order, whoever calls them.
THEOREM RequestInvariant == LineSpec => []RInv
  <1>1. LineInit => RInv
    BY Begins DEF LineInit, Init, RInv, Under, Tallied, Answered
  <1> QED
    BY <1>1, RInvKept, LineStep, PTL DEF LineSpec

\* The index is a byte whatever is written, and a function runs each of its statements
\* once at most (cmInd in each request function).
THEOREM RequestTypeCorrect == LineSpec => []TypeOK
  <1>1. RInv => TypeOK
    <2> SUFFICES ASSUME RInv PROVE TypeOK
      OBVIOUS
    <2> DEFINE w == call.req.writes
    <2>1. w \in Seq(Nat) /\ Len(w) <= 12
      BY CallsLaid DEF Laid, Summable, RInv, Under
    <2>2. done \in 0..Len(w) /\ filled = Written(w, done) /\ cmInd = Byte(filled)
      BY DEF RInv, Tallied
    <2> HIDE DEF w
    <2>3. filled \in Nat
      <3>1. done \in 0..12 /\ \A i \in 1..done : w[i] \in Nat
        BY <2>1, <2>2
      <3> QED
        BY <2>2, <3>1, WrittenNat
    <2>4. cmInd \in 0..255
      <3>1. \A a \in Nat : Byte(a) \in 0..255
        BY DEF Byte
      <3> QED
        BY <2>2, <2>3, <3>1
    <2> QED
      BY <2>2, <2>3, <2>4 DEF TypeOK, RInv, Under, Answered, w
  <1> QED
    BY <1>1, RequestInvariant, PTL

\* No byte that was never written goes to the ZNP and none is written outside, except
\* by the misfits, whatever the lengths of lists are (SentIsFilled).
THEOREM RequestSentIsFilled == LineSpec => []SentIsFilled
  <1>1. RInv => SentIsFilled
    <2> SUFFICES ASSUME RInv, pc = "sent" PROVE filled = call.req.cmdLen <=> ~Misfit(call)
      BY DEF SentIsFilled
    <2>1. Laid(call)
      BY CallsLaid DEF RInv, Under
    <2>2. filled = Size(call.req.writes)
      BY DEF RInv, Under, Tallied, Size
    <2> QED
      BY <2>1, <2>2 DEF Laid
  <1> QED
    BY <1>1, RequestInvariant, PTL

\* Every request that a struct has room for fits a frame, but for the two functions whose
\* lists may be longer (FitsFrame).
THEOREM RequestFitsFrame == LineSpec => []FitsFrame
  <1>1. RInv => FitsFrame
    <2> SUFFICES ASSUME RInv, pc = "sent", call \in Calls, call.fn \notin Oversized
                 PROVE  /\ RPC_UART_HDR_LEN + call.req.cmdLen + RPC_UART_FCS_LEN < 256
                        /\ cmInd = filled
      BY DEF FitsFrame
    <2>1. Small(call) /\ Laid(call)
      BY CallsLaid DEF RInv, Under
    <2> DEFINE w == call.req.writes
    <2>2. w \in Seq(Nat) /\ Len(w) <= 12
      BY <2>1 DEF Laid, Summable
    <2>3. /\ filled = Written(w, Len(w)) /\ cmInd = Byte(filled) /\ filled < 256
      BY <2>1 DEF RInv, Under, Tallied, Small, Size
    <2> HIDE DEF w
    <2>4. filled \in Nat
      <3>1. Len(w) \in 0..12
        <4>1. Len(w) \in Nat
          BY <2>2
        <4>2. Len(w) <= 12
          BY <2>2
        <4>3. \A a \in Nat : a <= 12 => a \in 0..12
          OBVIOUS
        <4> QED
          BY <4>1, <4>2, <4>3, ZenonT(30)
      <3>2. \A i \in 1..Len(w) : w[i] \in Nat
        BY <2>2
      <3> QED
        BY <2>3, <3>1, <3>2, WrittenNat
    <2>5. cmInd = filled
      BY <2>3, <2>4 DEF Byte
    <2> QED
      BY <2>1, <2>5 DEF Small
  <1> QED
    BY <1>1, RequestInvariant, PTL

\* Whoever waits has an answer coming, but for sysResetReq, and no more answers are left
\* for the next request than waits have ended too early (AnswersMatched).
THEOREM RequestAnswersMatched == LineSpec => []AnswersMatched
  <1>1. RInv => AnswersMatched
    <2> SUFFICES ASSUME RInv PROVE AnswersMatched
      OBVIOUS
    <2>1. Laid(call)
      BY CallsLaid DEF RInv, Under
    <2> QED
      BY <2>1 DEF RInv, Under, Answered, Awaited, AnswersMatched, Laid
  <1> QED
    BY <1>1, RequestInvariant, PTL

-----------------------------------------------------------------------------
(* The console's buffer: where the attributes of a command end, one after  *)
(* the other.                                                              *)

Attribute == [size : Nat, isList : Nat]

Up(n) == n + (n % 2)

\* Where an attribute, or the member of a struct it is for, begins behind a byte at pos,
\* and where it ends.
Start(pos, att) == IF att.size = 2 THEN Up(pos) ELSE pos
After(pos, att) == Start(pos, att) + Room(att)

Ends(a) ==
    CHOOSE e \in [0..Len(a) -> Nat] :
        e[0] = 0 /\ \A i \in 1..Len(a) : e[i] = After(e[i - 1], a[i])

\* The next even place, as a byte too.
LEMMA UpNat ==
    /\ \A n \in Nat : Up(n) \in Nat /\ n <= Up(n) /\ Up(n) % 2 = 0 /\ Up(Up(n)) = Up(n)
    /\ \A n \in Nat : (n % 2 = 0 => Up(n) = n) /\ (n % 2 # 0 => n % 2 = 1 /\ Up(n) = n + 1)
    /\ \A m, n \in Nat : m <= n => Up(m) <= Up(n)
    /\ \A m, n \in Nat : n % 2 = 0 => (m + n) % 2 = m % 2 /\ Up(m + n) = Up(m) + n
  BY DEF Up

\* What a byte keeps of a number, and of the next even place.
LEMMA ByteNat ==
    /\ \A n \in Nat : Byte(n) \in Nat /\ Byte(n) < 256 /\ (n < 256 => Byte(n) = n)
    /\ \A n \in Nat : Byte(Up(Byte(n))) = Byte(Up(n))
  <1>1. \A n \in Nat : Byte(n) \in Nat /\ Byte(n) < 256 /\ (n < 256 => Byte(n) = n)
    BY DEF Byte
  <1>2. \A n \in Nat : Byte(n) % 2 = n % 2
    BY DEF Byte
  <1>3. ASSUME NEW n \in Nat PROVE Byte(Up(Byte(n))) = Byte(Up(n))
    <2>1. Up(Byte(n)) = Byte(n) + (n % 2) /\ Up(n) = n + (n % 2) /\ n % 2 \in Nat
      BY <1>2 DEF Up
    <2> QED
      BY <2>1, ByteSum
  <1> QED
    BY <1>1, <1>3

\* What an attribute takes is a number of bytes, an even one if its entries are of two.
LEMMA RoomNat ==
    ASSUME NEW att \in Attribute
    PROVE  /\ Room(att) \in Nat /\ (att.size = 2 => Room(att) % 2 = 0)
           /\ att.isList = 0 => Room(att) = att.size
  <1>1. att.size \in Nat /\ att.isList \in Nat
    BY DEF Attribute
  <1>2. PICK many \in Nat : Room(att) = att.size * many /\ (att.isList = 0 => many = 1)
    BY <1>1 DEF Room
  <1>3. Room(att) \in Nat
    BY <1>1, <1>2
  <1>4. att.size = 2 => Room(att) % 2 = 0
    BY <1>2
  <1>5. att.isList = 0 => Room(att) = att.size
    BY <1>1, <1>2
  <1> QED
    BY <1>3, <1>4, <1>5

\* An attribute begins behind the byte it is put behind, ends behind where it begins, and
\* begins no earlier behind a later byte.
LEMMA StartNat ==
    ASSUME NEW att \in Attribute
    PROVE  /\ \A p \in Nat : Start(p, att) \in Nat /\ p <= Start(p, att)
           /\ \A p \in Nat : After(p, att) \in Nat /\ p <= After(p, att)
           /\ \A p, q \in Nat : p <= q => Start(p, att) <= Start(q, att)
  <1>1. \A p \in Nat : Start(p, att) \in Nat /\ p <= Start(p, att)
    BY UpNat DEF Start
  <1>2. \A p, q \in Nat : p <= q => Start(p, att) <= Start(q, att)
    BY UpNat DEF Start
  <1>3. Room(att) \in Nat
    BY RoomNat
  <1>4. ASSUME NEW p \in Nat PROVE After(p, att) \in Nat /\ p <= After(p, att)
    BY <1>1, <1>3 DEF After
  <1> QED
    BY <1>1, <1>2, <1>4

\* There are such ends.
LEMMA EndsAre ==
    ASSUME NEW a \in Seq(Attribute)
    PROVE  /\ Ends(a) \in [0..Len(a) -> Nat] /\ Ends(a)[0] = 0
           /\ \A i \in 1..Len(a) : Ends(a)[i] = After(Ends(a)[i - 1], a[i])
  <1> DEFINE n == Len(a)
             G == [v \in Nat |-> [i \in 1..n |-> After(v, a[i])]]
             Fits(e) == e[0] = 0 /\ \A i \in 1..n : e[i] = After(e[i - 1], a[i])
  <1>1. n \in Nat /\ \A i \in 1..n : a[i] \in Attribute
    OBVIOUS
  <1>2. \A v \in Nat : \A i \in 1..n : G[v][i] = After(v, a[i]) /\ G[v][i] \in Nat
    BY <1>1, StartNat
  <1> HIDE DEF n, G
  <1>3. PICK e \in [0..n -> Nat] : e[0] = 0 /\ \A i \in 1..n : e[i] = G[e[i - 1]][i]
    <2>1. StepsIn(G, n, Nat)
      BY <1>2 DEF StepsIn
    <2>2. Computable(0, G, n, Nat)
      BY <1>1, <2>1, RecursionExists
    <2> QED
      BY <2>2 DEF Computable
  <1>4. ASSUME NEW i \in 1..n PROVE e[i] = After(e[i - 1], a[i])
    <2>1. i - 1 \in 0..n
      BY <1>1
    <2> QED
      BY <1>2, <1>3, <2>1
  <1>5. Fits(e)
    BY <1>3, <1>4
  <1>6. Ends(a) = CHOOSE f \in [0..n -> Nat] : Fits(f)
    BY DEF Ends, n
  <1> HIDE DEF Fits
  <1>7. Ends(a) \in [0..n -> Nat] /\ Fits(Ends(a))
    BY <1>5, <1>6
  <1> QED
    BY <1>7 DEF Fits, n

\* They do not decrease.
LEMMA EndsGrow ==
    ASSUME NEW a \in Seq(Attribute), NEW k \in 0..Len(a)
    PROVE  /\ Ends(a)[k] \in Nat /\ Ends(a)[k] <= Ends(a)[Len(a)]
  <1> DEFINE n == Len(a)
             e == Ends(a)
             S == {i \in 0..n : k <= i => e[k] <= e[i]}
  <1>1. n \in Nat /\ \A i \in 1..n : a[i] \in Attribute
    OBVIOUS
  <1>2. e \in [0..n -> Nat] /\ \A i \in 1..n : e[i] = After(e[i - 1], a[i])
    BY EndsAre
  <1> HIDE DEF n, e
  <1>3. k \in 0..n /\ k \in Nat
    BY DEF n
  <1>4. 0 \in S
    BY <1>1, <1>2, <1>3
  <1>5. ASSUME NEW i \in 1..n, i - 1 \in S PROVE i \in S
    <2>1. i - 1 \in 0..n /\ i \in 0..n
      BY <1>1
    <2>2. e[i - 1] \in Nat /\ e[i] \in Nat /\ e[k] \in Nat /\ e[i - 1] <= e[i]
      BY <1>1, <1>2, <1>3, <2>1, StartNat
    <2>3. k <= i - 1 => e[k] <= e[i - 1]
      BY <1>5
    <2>4. k <= i => k <= i - 1 \/ k = i
      BY <1>3, <2>1
    <2> QED
      BY <2>1, <2>2, <2>3, <2>4
  <1> HIDE DEF S
  <1>6. \A i \in 0..n : i \in S
    BY <1>1, <1>4, <1>5, CountingUp
  <1>7. n \in 0..n
    BY <1>1
  <1> QED
    BY <1>2, <1>3, <1>6, <1>7 DEF S, n, e

-----------------------------------------------------------------------------
(* What the console and the compiler compute from the attributes.          *)

\* A member of a struct that the compiler puts in an even place.
Wide(member) == member.kind # "bytes" /\ member.widths[1] = 2

\* The attributes that are asked for are those of the struct.
Agree(a, struct) ==
    /\ a \in Seq(Attribute) /\ Len(struct) = Len(a)
    /\ \A i \in 1..Len(a) : /\ SizeOf(struct[i]) = Room(a[i])
                            /\ Wide(struct[i]) <=> a[i].size = 2

\* The compiler puts each member where the one before has ended, or in the next even place.
LEMMA OffsetsComputed ==
    ASSUME NEW a, NEW struct, Agree(a, struct), NEW k \in 1..Len(a)
    PROVE  Offsets(struct)[k] = Start(Ends(a)[k - 1], a[k])
  <1> DEFINE n == Len(a)
             e == Ends(a)
             R(f) == [i \in 0..Len(struct) |->
                        IF i = 0 THEN 0 ELSE Aligned(f[i - 1], struct[i]) + SizeOf(struct[i])]
             end == CHOOSE f : f = R(f)
  <1>1. /\ n \in Nat /\ Len(struct) = n /\ k \in 1..n /\ \A i \in 1..n : a[i] \in Attribute
        /\ a \in Seq(Attribute)
    BY DEF Agree
  <1>2. /\ e \in [0..n -> Nat] /\ e[0] = 0
        /\ \A i \in 1..n : e[i] = After(e[i - 1], a[i])
    BY <1>1, EndsAre
  <1>3. ASSUME NEW i \in 1..n, NEW p
        PROVE  /\ Aligned(p, struct[i]) = Start(p, a[i])
               /\ Aligned(p, struct[i]) + SizeOf(struct[i]) = After(p, a[i])
    <2>1. SizeOf(struct[i]) = Room(a[i]) /\ (Wide(struct[i]) <=> a[i].size = 2)
      BY <1>1 DEF Agree
    <2>2. Aligned(p, struct[i]) = Start(p, a[i])
      BY <2>1 DEF Aligned, Start, Wide, Up
    <2> QED
      BY <2>1, <2>2 DEF After
  <1>4. Offsets(struct)[k] = Aligned(end[k - 1], struct[k])
    <2>1. Offsets(struct) = [i \in DOMAIN struct |-> Aligned(end[i - 1], struct[i])]
      BY DEF Offsets
    <2>2. k \in DOMAIN struct
      BY <1>1 DEF Agree
    <2> QED
      BY <2>1, <2>2
  <1> HIDE DEF n, e
  <1>5. e = R(e)
    <2>1. ASSUME NEW i \in 0..n PROVE e[i] = R(e)[i]
      <3>1. CASE i = 0
        BY <1>1, <1>2, <3>1
      <3>2. CASE i # 0
        <4>1. i \in 1..n
          BY <1>1, <3>2
        <4>2. e[i] = After(e[i - 1], a[i])
          BY <1>2, <4>1
        <4>3. R(e)[i] = Aligned(e[i - 1], struct[i]) + SizeOf(struct[i])
          BY <1>1, <3>2
        <4> QED
          BY <1>3, <4>1, <4>2, <4>3
      <3> QED
        BY <3>1, <3>2
    <2>2. e = [i \in 0..n |-> e[i]] /\ R(e) = [i \in 0..n |-> R(e)[i]]
      BY <1>1, <1>2
    <2> HIDE DEF R
    <2> QED
      BY <2>1, <2>2
  <1>6. end = R(end)
    <2> HIDE DEF R
    <2> QED
      BY <1>5 DEF end
  <1>7. \A i \in 0..n : end[i] = e[i]
    <2> HIDE DEF end
    <2>1. end[0] = e[0]
      <3>1. 0 \in 0..Len(struct)
        BY <1>1
      <3>2. R(end)[0] = 0
        BY <3>1
      <3> HIDE DEF R
      <3> QED
        BY <1>2, <1>6, <3>2
    <2>2. ASSUME NEW i \in 1..n, end[i - 1] = e[i - 1] PROVE end[i] = e[i]
      <3>1. i \in 0..Len(struct) /\ i # 0
        BY <1>1
      <3>2. R(end)[i] = Aligned(end[i - 1], struct[i]) + SizeOf(struct[i])
        BY <3>1
      <3> HIDE DEF R
      <3>3. end[i] = After(end[i - 1], a[i])
        BY <1>3, <1>6, <3>2
      <3> QED
        BY <1>2, <2>2, <3>3
    <2>3. Lockstep(end, e, n)
      BY <2>1, <2>2 DEF Lockstep
    <2> QED
      BY <1>1, <2>3, SameComputed
  <1>8. k - 1 \in 0..n
    BY <1>1
  <1> HIDE DEF end
  <1>9. end[k - 1] = e[k - 1]
    BY <1>7, <1>8
  <1> QED
    BY <1>1, <1>3, <1>4, <1>9 DEF e

\* One attribute more, in a byte.
LEMMA SizeStep ==
    ASSUME NEW p \in Nat, NEW att \in Attribute
    PROVE  Evened((Byte(p) + Room(att)) % 256, att) = Byte(After(p, att))
  <1> DEFINE r == Room(att)
             s == (Byte(p) + r) % 256
  <1>1. r \in Nat /\ (att.size = 2 => r % 2 = 0)
    BY RoomNat
  <1>2. s = Byte(p + r)
    BY <1>1, ByteSum DEF Byte
  <1>3. After(p, att) = (IF att.size = 2 THEN Up(p) ELSE p) + r
    BY DEF After, Start
  <1>4. Evened(s, att) = IF att.size = 2 THEN Byte(Up(s)) ELSE s
    BY DEF Evened, Byte, Up
  <1> HIDE DEF r, s
  <1>5. ASSUME att.size = 2 PROVE Evened(s, att) = Byte(After(p, att))
    <2>1. p + r \in Nat /\ r % 2 = 0
      BY <1>1, <1>5
    <2>2. Up(p + r) = Up(p) + r
      BY <1>1, <2>1, UpNat, Zenon
    <2>3. Byte(Up(Byte(p + r))) = Byte(Up(p + r))
      BY <2>1, ByteNat
    <2> QED
      BY <1>2, <1>3, <1>4, <1>5, <2>2, <2>3
  <1>6. ASSUME att.size # 2 PROVE Evened(s, att) = Byte(After(p, att))
    BY <1>2, <1>3, <1>4, <1>6
  <1>7. Evened(s, att) = Byte(After(p, att))
    BY <1>5, <1>6
  <1> QED
    BY <1>7 DEF r, s

\* The size of the buffer is where the last attribute ends, if that is a byte.
LEMMA SizeComputed ==
    ASSUME NEW a \in Seq(Attribute)
    PROVE  SizeOfInput(a) = Byte(Ends(a)[Len(a)])
  <1> DEFINE n == Len(a)
             e == Ends(a)
             R(f) == [i \in 0..n |->
                        IF i = 0 THEN 0 ELSE Evened((f[i - 1] + Room(a[i])) % 256, a[i])]
             size == CHOOSE f : f = R(f)
             g == [i \in 0..n |-> Byte(e[i])]
  <1>1. n \in Nat /\ n \in 0..n /\ \A i \in 1..n : a[i] \in Attribute
    OBVIOUS
  <1>2. /\ e \in [0..n -> Nat] /\ e[0] = 0
        /\ \A i \in 1..n : e[i] = After(e[i - 1], a[i])
    BY EndsAre
  <1>3. SizeOfInput(a) = size[n]
    BY DEF SizeOfInput
  <1> HIDE DEF n, e
  <1>4. \A i \in 0..n : g[i] = Byte(e[i])
    OBVIOUS
  <1>5. g[0] = 0
    BY <1>1, <1>2, <1>4 DEF Byte
  <1>6. ASSUME NEW i \in 1..n
        PROVE  g[i] = Evened((g[i - 1] + Room(a[i])) % 256, a[i])
    <2>1. i - 1 \in 0..n /\ i \in 0..n /\ e[i - 1] \in Nat
      BY <1>1, <1>2
    <2>2. g[i] = Byte(After(e[i - 1], a[i])) /\ g[i - 1] = Byte(e[i - 1])
      BY <1>2, <1>4, <2>1
    <2> HIDE DEF g
    <2> QED
      BY <1>1, <2>1, <2>2, SizeStep
  <1>7. g = R(g)
    <2>1. ASSUME NEW i \in 0..n PROVE g[i] = R(g)[i]
      <3>1. CASE i = 0
        BY <1>5, <3>1
      <3>2. CASE i # 0
        <4>1. i \in 1..n
          BY <1>1, <3>2
        <4>2. R(g)[i] = Evened((g[i - 1] + Room(a[i])) % 256, a[i])
          BY <3>2
        <4> QED
          BY <1>6, <4>1, <4>2, ZenonT(60)
      <3> QED
        BY <3>1, <3>2
    <2>2. g = [i \in 0..n |-> g[i]] /\ R(g) = [i \in 0..n |-> R(g)[i]]
      OBVIOUS
    <2> HIDE DEF R, g
    <2> QED
      BY <2>1, <2>2
  <1> HIDE DEF g
  <1>8. size = R(size)
    <2> HIDE DEF R
    <2> QED
      BY <1>7 DEF size
  <1> HIDE DEF size
  <1>9. Lockstep(size, g, n)
    <2>1. size[0] = 0
      <3>1. 0 \in 0..n
        BY <1>1
      <3>2. R(size)[0] = 0
        BY <3>1
      <3> HIDE DEF R
      <3> QED
        BY <1>8, <3>2
    <2>2. ASSUME NEW i \in 1..n
          PROVE  size[i] = Evened((size[i - 1] + Room(a[i])) % 256, a[i])
      <3>1. i \in 0..n /\ i # 0
        BY <1>1
      <3>2. R(size)[i] = Evened((size[i - 1] + Room(a[i])) % 256, a[i])
        BY <3>1
      <3> HIDE DEF R
      <3> QED
        BY <1>8, <3>2
    <2> QED
      BY <1>5, <1>6, <2>1, <2>2 DEF Lockstep
  <1>10. size[n] = g[n]
    BY <1>1, <1>9, SameComputed
  <1> QED
    BY <1>1, <1>3, <1>4, <1>10 DEF n, e

\* What the attributes take, and what they take at most with a byte before each wide one.
Rooms(a) == [i \in 1..Len(a) |-> Room(a[i])]
Needs(a) == [i \in 1..Len(a) |-> Room(a[i]) + (IF a[i].size = 2 THEN 1 ELSE 0)]

\* They are few enough to be added up.
Few(a) == a \in Seq(Attribute) /\ Len(a) <= 12

\* Attributes end within what they need.
LEMMA NeedsNat ==
    ASSUME NEW a, Few(a)
    PROVE  /\ Len(a) \in 0..12
           /\ \A i \in 1..Len(a) : /\ Rooms(a)[i] = Room(a[i]) /\ Rooms(a)[i] \in Nat
                                   /\ Needs(a)[i] \in Nat
                                   /\ \A p \in Nat : After(p, a[i]) <= p + Needs(a)[i]
           /\ \A k \in 0..Len(a) : Written(Rooms(a), k) \in Nat /\ Written(Needs(a), k) \in Nat
           /\ Written(Rooms(a), 0) = 0 /\ Written(Needs(a), 0) = 0
           /\ \A k \in 1..Len(a) :
                 /\ Written(Rooms(a), k) = Written(Rooms(a), k - 1) + Rooms(a)[k]
                 /\ Written(Needs(a), k) = Written(Needs(a), k - 1) + Needs(a)[k]
  <1> DEFINE n == Len(a)
             rooms == Rooms(a)
             needs == Needs(a)
  <1>1. n \in Nat /\ n <= 12 /\ \A i \in 1..n : a[i] \in Attribute
    BY DEF Few
  <1>2. \A i \in 1..n : rooms[i] = Room(a[i]) /\ rooms[i] \in Nat
    BY <1>1, RoomNat DEF Rooms
  <1>3. \A i \in 1..n : needs[i] = Room(a[i]) + (IF a[i].size = 2 THEN 1 ELSE 0)
    BY DEF Needs
  <1>a. \A i \in 1..n : needs[i] \in Nat
    BY <1>2, <1>3
  <1> HIDE DEF n, rooms, needs
  <1>4. ASSUME NEW i \in 1..n, NEW p \in Nat PROVE After(p, a[i]) <= p + needs[i]
    <2>1. Up(p) \in Nat /\ Up(p) <= p + 1
      BY DEF Up
    <2>2. Room(a[i]) \in Nat
      BY <1>1, RoomNat
    <2> QED
      BY <1>3, <2>1, <2>2 DEF After, Start
  <1>5. ASSUME NEW k \in 0..n
        PROVE  /\ Written(rooms, k) \in Nat /\ Written(needs, k) \in Nat
               /\ Written(rooms, 0) = 0 /\ Written(needs, 0) = 0
    <2>1. k \in 0..12 /\ \A i \in 1..k : i \in 1..n
      BY <1>1
    <2>2. \A i \in 1..k : rooms[i] \in Nat /\ needs[i] \in Nat
      BY <1>2, <1>a, <2>1
    <2> QED
      BY <2>1, <2>2, WrittenNat
  <1>6. ASSUME NEW k \in 1..n
        PROVE  /\ Written(rooms, k) = Written(rooms, k - 1) + rooms[k]
               /\ Written(needs, k) = Written(needs, k - 1) + needs[k]
    <2> DEFINE j == k - 1
    <2>1. j \in 0..11 /\ j + 1 = k /\ \A i \in 1..(j + 1) : i \in 1..n
      BY <1>1
    <2> HIDE DEF j
    <2>2. \A i \in 1..(j + 1) : rooms[i] \in Nat /\ needs[i] \in Nat
      BY <1>2, <1>a, <2>1
    <2>3. /\ Written(rooms, j + 1) = Written(rooms, j) + rooms[j + 1]
          /\ Written(needs, j + 1) = Written(needs, j) + needs[j + 1]
      BY <2>1, <2>2, WrittenNext
    <2> QED
      BY <2>1, <2>3 DEF j
  <1>7. 0 \in 0..n /\ n \in 0..12
    BY <1>1
  <1> QED
    BY <1>2, <1>a, <1>4, <1>5, <1>6, <1>7 DEF n, rooms, needs

\* The attributes' bytes, added up.
LEMMA WholeComputed ==
    ASSUME NEW a, Few(a)
    PROVE  Whole(a) = Written(Rooms(a), Len(a))
  <1> DEFINE n == Len(a)
             rooms == Rooms(a)
             R(f) == [i \in 0..n |-> IF i = 0 THEN 0 ELSE f[i - 1] + Room(a[i])]
             sum == CHOOSE f : f = R(f)
             g == [i \in 0..n |-> Written(rooms, i)]
  <1>1. n \in Nat /\ n \in 0..n
    BY DEF Few
  <1>2. /\ \A i \in 1..n : /\ rooms[i] = Room(a[i])
                           /\ Written(rooms, i) = Written(rooms, i - 1) + rooms[i]
        /\ Written(rooms, 0) = 0
    BY NeedsNat
  <1>3. Whole(a) = sum[n]
    BY DEF Whole
  <1> HIDE DEF n, rooms
  <1>4. \A i \in 0..n : g[i] = Written(rooms, i)
    OBVIOUS
  <1>5. g[0] = 0
    BY <1>1, <1>2, <1>4
  <1>6. ASSUME NEW i \in 1..n PROVE g[i] = g[i - 1] + Room(a[i])
    <2>1. i - 1 \in 0..n /\ i \in 0..n
      BY <1>1
    <2>2. g[i] = Written(rooms, i) /\ g[i - 1] = Written(rooms, i - 1)
      BY <1>4, <2>1
    <2> HIDE DEF g
    <2> QED
      BY <1>2, <2>2
  <1>7. g = R(g)
    <2>1. ASSUME NEW i \in 0..n PROVE g[i] = R(g)[i]
      <3>1. CASE i = 0
        BY <1>5, <3>1
      <3>2. CASE i # 0
        <4>1. i \in 1..n
          BY <1>1, <3>2
        <4>2. R(g)[i] = g[i - 1] + Room(a[i])
          BY <3>2
        <4> QED
          BY <1>6, <4>1, <4>2
      <3> QED
        BY <3>1, <3>2
    <2>2. g = [i \in 0..n |-> g[i]] /\ R(g) = [i \in 0..n |-> R(g)[i]]
      OBVIOUS
    <2> HIDE DEF R, g
    <2> QED
      BY <2>1, <2>2
  <1> HIDE DEF g
  <1>8. sum = R(sum)
    <2> HIDE DEF R
    <2> QED
      BY <1>7 DEF sum
  <1> HIDE DEF sum
  <1>9. Lockstep(sum, g, n)
    <2>1. sum[0] = 0
      <3>1. 0 \in 0..n
        BY <1>1
      <3>2. R(sum)[0] = 0
        BY <3>1
      <3> HIDE DEF R
      <3> QED
        BY <1>8, <3>2
    <2>2. ASSUME NEW i \in 1..n PROVE sum[i] = sum[i - 1] + Room(a[i])
      <3>1. i \in 0..n /\ i # 0
        BY <1>1
      <3>2. R(sum)[i] = sum[i - 1] + Room(a[i])
        BY <3>1
      <3> HIDE DEF R
      <3> QED
        BY <1>8, <3>2
    <2> QED
      BY <1>5, <1>6, <2>1, <2>2 DEF Lockstep
  <1>10. sum[n] = g[n]
    BY <1>1, <1>9, SameComputed
  <1> QED
    BY <1>1, <1>3, <1>4, <1>10 DEF n, rooms

\* The last attribute ends within what they take at most.
LEMMA EndsBound ==
    ASSUME NEW a, Few(a)
    PROVE  Ends(a)[Len(a)] <= Written(Needs(a), Len(a))
  <1> DEFINE n == Len(a)
             e == Ends(a)
             needs == Needs(a)
             S == {i \in 0..n : e[i] <= Written(needs, i)}
  <1>1. n \in Nat /\ n \in 0..n /\ a \in Seq(Attribute)
    BY DEF Few
  <1>2. /\ e \in [0..n -> Nat] /\ e[0] = 0
        /\ \A i \in 1..n : e[i] = After(e[i - 1], a[i])
    BY <1>1, EndsAre
  <1>3. /\ \A i \in 1..n : /\ needs[i] \in Nat /\ \A p \in Nat : After(p, a[i]) <= p + needs[i]
                           /\ Written(needs, i) = Written(needs, i - 1) + needs[i]
        /\ \A i \in 0..n : Written(needs, i) \in Nat
        /\ Written(needs, 0) = 0
    BY NeedsNat
  <1> HIDE DEF n, e, needs
  <1>4. 0 \in S
    BY <1>1, <1>2, <1>3
  <1>5. ASSUME NEW i \in 1..n, i - 1 \in S PROVE i \in S
    <2>1. i - 1 \in 0..n /\ i \in 0..n /\ e[i - 1] <= Written(needs, i - 1)
      BY <1>1, <1>5
    <2>2. e[i - 1] \in Nat /\ e[i] \in Nat /\ Written(needs, i - 1) \in Nat
      BY <1>2, <1>3, <2>1
    <2>3. e[i] <= e[i - 1] + needs[i]
      BY <1>2, <1>3, <2>2
    <2>4. Written(needs, i) = Written(needs, i - 1) + needs[i] /\ needs[i] \in Nat
      BY <1>3
    <2>5. e[i] <= Written(needs, i)
      BY <2>1, <2>2, <2>3, <2>4
    <2> QED
      BY <2>1, <2>5
  <1>6. \A i \in 0..n : i \in S
    <2> HIDE DEF S
    <2> QED
      BY <1>1, <1>4, <1>5, CountingUp
  <1> QED
    BY <1>1, <1>6 DEF n, e, needs

\* The commands whose attributes, with all that is skipped, are fewer bytes than the size
\* can count, or more without it.
Tight(a) == Size(Needs(a)) < 256 \/ Size(Rooms(a)) >= 256

\* The buffer reaches to the end of the last attribute.
LEMMA SizeSuffices ==
    ASSUME NEW a, Few(a), Tight(a), Whole(a) < 256
    PROVE  SizeOfInput(a) = Ends(a)[Len(a)]
  <1> DEFINE n == Len(a)
             last == Ends(a)[n]
             needs == Written(Needs(a), n)
             rooms == Written(Rooms(a), n)
  <1>1. a \in Seq(Attribute) /\ n \in Nat /\ n \in 0..n
    BY DEF Few
  <1>2. last \in Nat
    BY <1>1, EndsAre
  <1>3. last <= needs /\ Whole(a) = rooms /\ SizeOfInput(a) = Byte(last)
    BY <1>1, EndsBound, WholeComputed, SizeComputed
  <1>4. needs \in Nat /\ rooms \in Nat
    BY <1>1, NeedsNat
  <1>5. Len(Needs(a)) = n /\ Len(Rooms(a)) = n
    BY <1>1 DEF Needs, Rooms
  <1>6. needs < 256 \/ rooms >= 256
    BY <1>5 DEF Tight, Size
  <1> HIDE DEF n, last, needs, rooms
  <1>7. last < 256
    BY <1>2, <1>3, <1>4, <1>6
  <1>8. Byte(last) = last
    BY <1>2, <1>7, ByteNat
  <1> QED
    BY <1>3, <1>8 DEF n, last

-----------------------------------------------------------------------------
(* Where the console puts them.                                            *)

Entry == [at : Nat, value : Nat]

\* Where the first k attributes end that were typed.
EndOf(a, t, k) == IF k = 0 THEN 0 ELSE t[k].at + Room(a[k])

\* A list of 16-bit entries may be put where it would not be if it had entries.
WideList(att) == att.isList > 0 /\ att.size = 2

Placed(a, t, k) ==
    \/ t[k].at = Start(EndOf(a, t, k - 1), a[k])
    \/ WideList(a[k]) /\ t[k].at = EndOf(a, t, k - 1)

Laying(a, t) ==
    /\ a \in Seq(Attribute) /\ t \in Seq(Entry) /\ Len(t) <= Len(a)
    /\ \A k \in 1..Len(t) : Placed(a, t, k)

\* An empty list of 16-bit entries in an odd place.
Skewed(a, t, j) == WideList(a[j]) /\ t[j].at % 2 = 1

\* What is typed is a place in the buffer and ends somewhere.
LEMMA PlacedNat ==
    ASSUME NEW a, NEW t, Laying(a, t)
    PROVE  /\ \A k \in 1..Len(t) : /\ k \in 1..Len(a) /\ a[k] \in Attribute
                                   /\ t[k].at \in Nat /\ k - 1 \in 0..Len(t)
                                   /\ EndOf(a, t, k) = t[k].at + Room(a[k])
                                   /\ Room(a[k]) \in Nat
           /\ \A k \in 0..Len(t) : EndOf(a, t, k) \in Nat /\ k \in 0..Len(a)
           /\ EndOf(a, t, 0) = 0
           /\ Len(t) \in Nat /\ Len(a) \in Nat /\ Len(t) <= Len(a)
  <1>1. /\ a \in Seq(Attribute) /\ t \in Seq(Entry)
        /\ Len(t) \in Nat /\ Len(a) \in Nat /\ Len(t) <= Len(a)
    BY DEF Laying
  <1>2. ASSUME NEW k \in 1..Len(t)
        PROVE  /\ k \in 1..Len(a) /\ a[k] \in Attribute
               /\ t[k].at \in Nat /\ k - 1 \in 0..Len(t)
               /\ EndOf(a, t, k) = t[k].at + Room(a[k]) /\ Room(a[k]) \in Nat
    <2>1. k \in 1..Len(a) /\ a[k] \in Attribute /\ t[k] \in Entry /\ k - 1 \in 0..Len(t) /\ k # 0
      BY <1>1
    <2>2. t[k].at \in Nat
      BY <2>1 DEF Entry
    <2>3. Room(a[k]) \in Nat
      BY <2>1, RoomNat
    <2> QED
      BY <2>1, <2>2, <2>3 DEF EndOf
  <1>3. EndOf(a, t, 0) = 0
    BY DEF EndOf
  <1>4. ASSUME NEW k \in 0..Len(t) PROVE EndOf(a, t, k) \in Nat /\ k \in 0..Len(a)
    <2>1. CASE k = 0
      BY <1>1, <1>3, <2>1
    <2>2. CASE k # 0
      <3>1. k \in 1..Len(t)
        BY <1>1, <2>2
      <3>2. t[k].at \in Nat /\ Room(a[k]) \in Nat /\ EndOf(a, t, k) = t[k].at + Room(a[k])
        BY <1>2, <3>1
      <3> QED
        BY <1>1, <3>1, <3>2
    <2> QED
      BY <2>1, <2>2
  <1> QED
    BY <1>1, <1>2, <1>3, <1>4

\* It ends where the struct would have it end, or before.
LEMMA PlacedBound ==
    ASSUME NEW a, NEW t, Laying(a, t)
    PROVE  \A k \in 0..Len(t) : EndOf(a, t, k) <= Ends(a)[k]
  <1> DEFINE n == Len(t)
             e == Ends(a)
             S == {k \in 0..n : EndOf(a, t, k) <= e[k]}
  <1>1. /\ \A k \in 1..n : /\ k \in 1..Len(a) /\ a[k] \in Attribute /\ k - 1 \in 0..n
                           /\ EndOf(a, t, k) = t[k].at + Room(a[k]) /\ Room(a[k]) \in Nat
                           /\ t[k].at \in Nat
        /\ \A k \in 0..n : EndOf(a, t, k) \in Nat /\ k \in 0..Len(a)
        /\ EndOf(a, t, 0) = 0 /\ n \in Nat
    BY PlacedNat
  <1>2. /\ e \in [0..Len(a) -> Nat] /\ e[0] = 0
        /\ \A k \in 1..Len(a) : e[k] = After(e[k - 1], a[k])
    BY EndsAre DEF Laying
  <1>3. \A k \in 1..n : Placed(a, t, k)
    BY DEF Laying
  <1> HIDE DEF n, e
  <1>4. 0 \in S
    BY <1>1, <1>2
  <1>5. ASSUME NEW k \in 1..n, k - 1 \in S PROVE k \in S
    <2> DEFINE was == EndOf(a, t, k - 1)
    <2>0. k - 1 \in 0..n /\ was <= e[k - 1]
      BY <1>5
    <2>1. was \in Nat /\ was <= e[k - 1] /\ e[k - 1] \in Nat /\ a[k] \in Attribute /\ k \in 0..n
      <3>1. was \in Nat /\ k - 1 \in 0..Len(a) /\ a[k] \in Attribute
        BY <1>1, <2>0
      <3>2. e[k - 1] \in Nat /\ k \in 0..n
        BY <1>1, <1>2, <3>1, SMTT(60)
      <3> QED
        BY <2>0, <3>1, <3>2
    <2>2. t[k].at = Start(was, a[k]) \/ t[k].at = was
      BY <1>3 DEF Placed
    <2>3. e[k] = Start(e[k - 1], a[k]) + Room(a[k])
      BY <1>1, <1>2 DEF After
    <2> HIDE DEF was
    <2>4. /\ Start(was, a[k]) <= Start(e[k - 1], a[k]) /\ was <= Start(was, a[k])
          /\ Start(was, a[k]) \in Nat /\ Start(e[k - 1], a[k]) \in Nat
      BY <2>1, StartNat
    <2>5. t[k].at <= Start(e[k - 1], a[k]) /\ t[k].at \in Nat /\ Room(a[k]) \in Nat
      BY <1>1, <2>1, <2>2, <2>4
    <2>6. EndOf(a, t, k) = t[k].at + Room(a[k])
      BY <1>1
    <2>7. EndOf(a, t, k) <= e[k]
      BY <2>3, <2>4, <2>5, <2>6
    <2> QED
      BY <2>1, <2>7
  <1>6. \A k \in 0..n : k \in S
    <2> HIDE DEF S
    <2> QED
      BY <1>1, <1>4, <1>5, CountingUp
  <1> QED
    BY <1>6 DEF n, e

\* Without such lists it is in its place.
LEMMA PlacedStraight ==
    ASSUME NEW a, NEW t, Laying(a, t), NEW m \in 0..Len(t),
           \A j \in 1..m : ~Skewed(a, t, j)
    PROVE  /\ EndOf(a, t, m) = Ends(a)[m]
           /\ \A k \in 1..m : t[k].at = Start(Ends(a)[k - 1], a[k])
  <1> DEFINE n == Len(t)
             e == Ends(a)
             S == {k \in 0..m : EndOf(a, t, k) = e[k]}
  <1>1. /\ \A k \in 1..n : /\ k \in 1..Len(a) /\ a[k] \in Attribute /\ k - 1 \in 0..n
                           /\ EndOf(a, t, k) = t[k].at + Room(a[k]) /\ Room(a[k]) \in Nat
                           /\ t[k].at \in Nat
        /\ \A k \in 0..n : EndOf(a, t, k) \in Nat
        /\ EndOf(a, t, 0) = 0 /\ n \in Nat
    BY PlacedNat
  <1>2. /\ e \in [0..Len(a) -> Nat] /\ e[0] = 0
        /\ \A k \in 1..Len(a) : e[k] = After(e[k - 1], a[k])
    BY EndsAre DEF Laying
  <1>3. \A k \in 1..n : Placed(a, t, k)
    BY DEF Laying
  <1>a. m \in 0..n /\ m \in Nat /\ m \in 0..m
    BY <1>1
  <1> HIDE DEF n, e
  <1>4. 0 \in S
    BY <1>1, <1>2, <1>a
  <1>5. ASSUME NEW k \in 1..m PROVE t[k].at = Start(EndOf(a, t, k - 1), a[k])
    <2> DEFINE was == EndOf(a, t, k - 1)
    <2>1. was \in Nat /\ k \in 1..n
      BY <1>1, <1>a
    <2>2. \/ t[k].at = Start(was, a[k])
          \/ WideList(a[k]) /\ t[k].at = was
      BY <1>3, <2>1 DEF Placed
    <2>3. ~Skewed(a, t, k)
      OBVIOUS
    <2> HIDE DEF was
    <2>4. CASE WideList(a[k]) /\ t[k].at = was
      <3>1. was % 2 = 0
        <4>1. was % 2 # 1
          BY <2>3, <2>4 DEF Skewed
        <4> QED
          BY <2>1, <4>1
      <3>2. Up(was) = was
        BY <2>1, <3>1, UpNat
      <3>3. Start(was, a[k]) = was
        BY <2>4, <3>2 DEF Start, WideList
      <3> QED
        BY <2>4, <3>3 DEF was
    <2> QED
      BY <2>2, <2>4 DEF was
  <1>6. ASSUME NEW k \in 1..m, k - 1 \in S PROVE k \in S
    <2>1. EndOf(a, t, k - 1) = e[k - 1] /\ k \in 0..m /\ k \in 1..n /\ k \in 1..Len(a)
      BY <1>1, <1>a, <1>6
    <2>2. EndOf(a, t, k) = t[k].at + Room(a[k]) /\ e[k] = Start(e[k - 1], a[k]) + Room(a[k])
      BY <1>1, <1>2, <2>1 DEF After
    <2>3. EndOf(a, t, k) = e[k]
      BY <1>5, <2>1, <2>2
    <2> QED
      BY <2>1, <2>3
  <1>7. \A k \in 0..m : k \in S
    <2> HIDE DEF S
    <2> QED
      BY <1>a, <1>4, <1>6, CountingUp
  <1>8. \A k \in 0..m : EndOf(a, t, k) = e[k]
    BY <1>7
  <1>9. ASSUME NEW k \in 1..m PROVE t[k].at = Start(e[k - 1], a[k])
    <2>1. k - 1 \in 0..m
      BY <1>a
    <2> QED
      BY <1>5, <1>8, <2>1
  <1> QED
    BY <1>8, <1>9, <1>a DEF e

\* After a list of 16-bit entries come a byte and one attribute more, or less.
ListsLast(a) ==
    \A i \in 1..Len(a) : WideList(a[i]) =>
        /\ Len(a) <= i + 2
        /\ i < Len(a) => a[i + 1].size = 1 /\ a[i + 1].isList = 0

\* Behind the first that is skewed everything comes too early.
LEMMA PlacedSkewed ==
    ASSUME NEW a, NEW t, Laying(a, t), ListsLast(a), NEW j \in 1..Len(t), NEW k \in j..Len(t),
           Skewed(a, t, j), \A i \in 1..(j - 1) : ~Skewed(a, t, i)
    PROVE  t[k].at < Start(Ends(a)[k - 1], a[k])
  <1> DEFINE n == Len(t)
             e == Ends(a)
             pos(i) == t[i].at
             end(i) == EndOf(a, t, i)
             room(i) == Room(a[i])
  <1>1. /\ \A i \in 1..n : /\ i \in 1..Len(a) /\ a[i] \in Attribute /\ i - 1 \in 0..n
                           /\ end(i) = pos(i) + room(i) /\ room(i) \in Nat /\ pos(i) \in Nat
        /\ \A i \in 0..n : end(i) \in Nat
        /\ n \in Nat /\ Len(a) \in Nat /\ n <= Len(a)
    BY PlacedNat
  <1>2. /\ e \in [0..Len(a) -> Nat]
        /\ \A i \in 1..Len(a) : e[i] = After(e[i - 1], a[i])
    BY EndsAre DEF Laying
  <1>3. \A i \in 1..n : \/ pos(i) = Start(end(i - 1), a[i])
                        \/ WideList(a[i]) /\ pos(i) = end(i - 1)
    BY DEF Laying, Placed
  <1>4. WideList(a[j]) /\ pos(j) % 2 = 1
    BY DEF Skewed
  <1>5. j - 1 \in 0..n /\ j \in 1..n /\ j \in Nat /\ j - 1 \in 0..Len(a)
    BY <1>1
  <1>6. end(j - 1) = e[j - 1]
    BY <1>5, PlacedStraight
  <1>7. Len(a) <= j + 2 /\ (j < Len(a) => a[j + 1].size = 1 /\ a[j + 1].isList = 0)
    BY <1>1, <1>4, <1>5 DEF ListsLast
  <1>8. k \in j..n
    OBVIOUS
  <1>9. a[j].size = 2
    BY <1>4 DEF WideList
  <1>10. ASSUME NEW i \in 1..n
         PROVE  e[i - 1] \in Nat /\ e[i] = Start(e[i - 1], a[i]) + room(i)
    <2>1. i \in 1..Len(a) /\ i - 1 \in 0..Len(a)
      BY <1>1
    <2>2. e[i - 1] \in Nat /\ e[i] = After(e[i - 1], a[i])
      BY <1>2, <2>1
    <2> QED
      BY <2>2 DEF After
  <1>11. room(j) % 2 = 0
    BY <1>1, <1>5, <1>9, RoomNat
  <1> HIDE DEF n, e, pos, end, room
  <1>12. pos(j) = e[j - 1] /\ Start(e[j - 1], a[j]) = pos(j) + 1
    <2> DEFINE was == end(j - 1)
    <2>1. was \in Nat /\ Start(was, a[j]) = Up(was)
      BY <1>1, <1>5, <1>9 DEF Start
    <2>2. Up(was) % 2 = 0
      BY <2>1, UpNat
    <2>3. pos(j) # Up(was)
      BY <1>4, <2>2
    <2>4. pos(j) = was
      BY <1>3, <1>5, <2>1, <2>3
    <2>5. Up(was) = was + 1
      BY <1>4, <2>1, <2>4 DEF Up
    <2> QED
      BY <1>6, <2>1, <2>4, <2>5
  <1>0. n \in Nat /\ Len(a) \in Nat /\ n <= Len(a)
    BY <1>1
  <1>13. CASE k = j
    <2>1. pos(j) \in Nat /\ pos(j) < Start(e[j - 1], a[j])
      BY <1>1, <1>5, <1>12, SMTT(60)
    <2> QED
      BY <1>13, <2>1 DEF pos, e
  <1>14. e[j] = end(j) + 1 /\ end(j) % 2 = 1 /\ end(j) \in Nat
    <2>1. end(j) = pos(j) + room(j) /\ pos(j) \in Nat /\ room(j) \in Nat
      BY <1>1, <1>5
    <2>2. (pos(j) + room(j)) % 2 = pos(j) % 2
      BY <1>11, <2>1, UpNat, Zenon
    <2>3. e[j] = pos(j) + 1 + room(j)
      BY <1>5, <1>10, <1>12
    <2> QED
      BY <1>4, <2>1, <2>2, <2>3, SMTT(60)
  <1>15. ASSUME j + 1 \in 1..n
         PROVE  /\ pos(j + 1) = end(j) /\ Start(e[j], a[j + 1]) = e[j]
                /\ end(j + 1) = end(j) + 1 /\ e[j + 1] = end(j) + 2
    <2>1. a[j + 1].size = 1 /\ a[j + 1].isList = 0 /\ (j + 1) - 1 = j
      BY <1>0, <1>5, <1>7, <1>15
    <2>2. ~WideList(a[j + 1]) /\ \A p : Start(p, a[j + 1]) = p
      BY <2>1 DEF WideList, Start
    <2>3. pos(j + 1) = end(j)
      BY <1>3, <1>15, <2>1, <2>2
    <2>4. room(j + 1) = 1
      BY <1>1, <1>15, <2>1, RoomNat DEF room
    <2>5. end(j + 1) = end(j) + 1
      BY <1>1, <1>15, <2>3, <2>4
    <2>6. e[j + 1] = e[j] + 1
      BY <1>10, <1>15, <2>1, <2>2, <2>4
    <2> QED
      BY <1>14, <2>2, <2>3, <2>5, <2>6
  <1>16. CASE k = j + 1
    <2>1. pos(k) = end(j) /\ Start(e[k - 1], a[k]) = end(j) + 1
      BY <1>1, <1>5, <1>8, <1>14, <1>15, <1>16
    <2> QED
      BY <1>14, <2>1 DEF pos, e
  <1>17. CASE k = j + 2
    <2>1. k \in 1..n /\ j + 1 \in 1..n /\ k - 1 = j + 1
      BY <1>1, <1>5, <1>8, <1>17
    <2>2. end(k - 1) = end(j) + 1 /\ e[k - 1] = end(j) + 2 /\ a[k] \in Attribute
      BY <1>1, <1>15, <2>1
    <2>3. Up(end(k - 1)) = end(k - 1)
      BY <1>14, <2>2 DEF Up
    <2>4. pos(k) = end(k - 1)
      BY <1>3, <2>1, <2>3 DEF Start
    <2>5. e[k - 1] <= Start(e[k - 1], a[k]) /\ Start(e[k - 1], a[k]) \in Nat
      BY <1>10, <2>1, <2>2, StartNat
    <2>6. pos(k) < Start(e[k - 1], a[k])
      BY <1>14, <2>2, <2>4, <2>5
    <2> QED
      BY <2>6 DEF pos, e
  <1>18. k = j \/ k = j + 1 \/ k = j + 2
    BY <1>0, <1>5, <1>7, <1>8
  <1> QED
    BY <1>13, <1>16, <1>17, <1>18 DEF pos, e

\* One that is skewed has a first.
LEMMA FirstSkewed ==
    ASSUME NEW a, NEW t, Laying(a, t), NEW k \in 1..Len(t), \E j \in 1..k : Skewed(a, t, j)
    PROVE  \E j \in 1..k : Skewed(a, t, j) /\ \A i \in 1..(j - 1) : ~Skewed(a, t, i)
  <1> DEFINE T == {j \in 1..k : Skewed(a, t, j)}
  <1>1. T \in SUBSET Nat /\ T # {}
    OBVIOUS
  <1>2. PICK j \in T : \A i \in T : j <= i
    BY <1>1, Least
  <1>3. \A i \in 1..(j - 1) : i \in 1..k /\ ~(j <= i)
    BY PlacedNat
  <1> QED
    BY <1>2, <1>3

\* An attribute is where the compiler has put its member unless a list before it, or the
\* attribute itself, is skewed.
LEMMA PlacedWhere ==
    ASSUME NEW a, NEW t, NEW struct, Laying(a, t), ListsLast(a), Agree(a, struct),
           NEW k \in 1..Len(t)
    PROVE  t[k].at = Offsets(struct)[k] <=> ~\E j \in 1..k : Skewed(a, t, j)
  <1>1. k \in 1..Len(a) /\ k \in 0..Len(t) /\ t[k].at \in Nat /\ Len(t) \in Nat
    BY PlacedNat
  <1>2. Offsets(struct)[k] = Start(Ends(a)[k - 1], a[k])
    BY <1>1, OffsetsComputed
  <1>3. CASE \A j \in 1..k : ~Skewed(a, t, j)
    <2>1. \A i \in 1..k : t[i].at = Start(Ends(a)[i - 1], a[i])
      BY <1>1, <1>3, PlacedStraight
    <2> QED
      BY <1>1, <1>2, <1>3, <2>1
  <1>4. CASE \E j \in 1..k : Skewed(a, t, j)
    <2>1. PICK j \in 1..k : Skewed(a, t, j) /\ \A i \in 1..(j - 1) : ~Skewed(a, t, i)
      BY <1>4, FirstSkewed
    <2>2. j \in 1..Len(t) /\ k \in j..Len(t)
      BY <1>1
    <2>3. t[k].at < Start(Ends(a)[k - 1], a[k])
      BY <2>1, <2>2, PlacedSkewed
    <2> QED
      BY <1>1, <1>2, <1>4, <2>3
  <1> QED
    BY <1>3, <1>4

-----------------------------------------------------------------------------
(* The tables: what makes the two sides agree, for each command.           *)

\* A list comes behind its length, and has entries of one byte or two.
ListsAsked(a) ==
    \A i \in 1..Len(a) : a[i].isList > 0 =>
        i > 1 /\ a[i - 1].isList = 0 /\ a[i].size \in {1, 2}

Sensible(a, struct) ==
    Agree(a, struct) /\ Few(a) /\ Tight(a) /\ ListsLast(a) /\ ListsAsked(a)

IsSeq(s) == s \in Seq({s[i] : i \in DOMAIN s})

\* Two tables, one after the other.
LEMMA Joined ==
    ASSUME NEW s, NEW u, IsSeq(s), IsSeq(u)
    PROVE  /\ IsSeq(s \o u) /\ Len(s \o u) = Len(s) + Len(u)
           /\ Len(s) \in Nat /\ Len(u) \in Nat
           /\ \A i \in 1..Len(s) : (s \o u)[i] = s[i]
           /\ \A i \in 1..Len(u) : (s \o u)[i + Len(s)] = u[i]
           /\ \A i \in 1..(Len(s) + Len(u)) : \/ i \in 1..Len(s)
                                              \/ i - Len(s) \in 1..Len(u)
  <1> DEFINE S == {s[i] : i \in DOMAIN s} \union {u[i] : i \in DOMAIN u}
             v == s \o u
  <1>1. s \in Seq(S) /\ u \in Seq(S)
    BY DEF IsSeq
  <1> HIDE DEF S
  <1>2. v \in Seq(S) /\ Len(v) = Len(s) + Len(u) /\ Len(s) \in Nat /\ Len(u) \in Nat
    BY <1>1
  <1>3. /\ \A i \in 1..Len(s) : v[i] = s[i]
        /\ \A i \in 1..Len(u) : v[i + Len(s)] = u[i]
    BY <1>1
  <1> HIDE DEF v
  <1>4. IsSeq(v)
    <2> DEFINE W == {v[i] : i \in DOMAIN v}
    <2>1. DOMAIN v = 1..Len(v) /\ Len(v) \in Nat /\ v = [i \in 1..Len(v) |-> v[i]]
      BY <1>2
    <2>2. \A i \in 1..Len(v) : v[i] \in W
      BY <2>1
    <2> HIDE DEF W
    <2>3. v \in [1..Len(v) -> W]
      BY <2>1, <2>2
    <2>4. v \in Seq(W)
      BY <2>1, <2>3
    <2> QED
      BY <2>4 DEF IsSeq, W
  <1>5. \A i \in 1..(Len(s) + Len(u)) : i \in 1..Len(s) \/ i - Len(s) \in 1..Len(u)
    BY <1>2
  <1> QED
    BY <1>2, <1>3, <1>4, <1>5 DEF v

\* Two sequences one after the other are a sequence as long as both.
LEMMA JoinedLength ==
    ASSUME NEW s, NEW u, IsSeq(s), IsSeq(u)
    PROVE  IsSeq(s \o u) /\ Len(s \o u) = Len(s) + Len(u)
  BY Joined, ZenonT(60)

\* Each command of a table agrees with the function that is so many places further on.
Rows(cs, fs, d) ==
    /\ IsSeq(cs) /\ IsSeq(fs) /\ d \in Nat /\ d + Len(cs) <= Len(fs)
    /\ \A i \in 1..Len(cs) : Sensible(cs[i].atts, fs[i + d].struct)

\* Two tables of commands for the functions of one.
LEMMA RowsJoin ==
    ASSUME NEW c1, NEW c2, NEW fs, NEW d, Rows(c1, fs, d), Rows(c2, fs, d + Len(c1))
    PROVE  Rows(c1 \o c2, fs, d)
  <1> DEFINE c == c1 \o c2
             m == Len(c1)
             n == Len(c2)
  <1>1. IsSeq(c1) /\ IsSeq(c2) /\ IsSeq(fs) /\ d \in Nat /\ d + m + n <= Len(fs)
    BY DEF Rows
  <1>2. /\ IsSeq(c) /\ Len(c) = m + n /\ m \in Nat /\ n \in Nat
        /\ \A i \in 1..m : c[i] = c1[i]
        /\ \A i \in 1..n : c[i + m] = c2[i]
        /\ \A i \in 1..(m + n) : i \in 1..m \/ i - m \in 1..n
    BY <1>1, Joined
  <1>3. /\ \A i \in 1..m : Sensible(c1[i].atts, fs[i + d].struct)
        /\ \A i \in 1..n : Sensible(c2[i].atts, fs[i + (d + m)].struct)
    BY DEF Rows
  <1> HIDE DEF c, m, n
  <1>4. ASSUME NEW i \in 1..(m + n) PROVE Sensible(c[i].atts, fs[i + d].struct)
    <2>1. CASE i \in 1..m
      <3>1. c[i] = c1[i] /\ Sensible(c1[i].atts, fs[i + d].struct)
        BY <1>2, <1>3, <2>1
      <3> QED
        BY <3>1
    <2>2. CASE i - m \in 1..n
      <3> DEFINE j == i - m
      <3>1. j \in 1..n /\ j + m = i /\ j + (d + m) = i + d
        BY <1>1, <1>2, <2>2
      <3> HIDE DEF j
      <3>2. c[j + m] = c2[j] /\ Sensible(c2[j].atts, fs[j + (d + m)].struct)
        BY <1>2, <1>3, <3>1
      <3> QED
        BY <3>1, <3>2
    <2> QED
      BY <1>2, <2>1, <2>2
  <1>5. d + Len(c) <= Len(fs)
    BY <1>1, <1>2
  <1>6. \A i \in 1..Len(c) : Sensible(c[i].atts, fs[i + d].struct)
    BY <1>2, <1>4
  <1>7. Rows(c, fs, d)
    BY <1>1, <1>2, <1>5, <1>6 DEF Rows
  <1> QED
    BY <1>7 DEF c

\* More functions behind or before those of the table.
LEMMA RowsMore ==
    ASSUME NEW cs, NEW fs, NEW d, Rows(cs, fs, d), NEW gs, IsSeq(gs)
    PROVE  Rows(cs, fs \o gs, d) /\ Rows(cs, gs \o fs, d + Len(gs))
  <1> DEFINE u == fs \o gs
             v == gs \o fs
             m == Len(fs)
             n == Len(gs)
  <1>1. /\ IsSeq(cs) /\ IsSeq(fs) /\ d \in Nat /\ d + Len(cs) <= m
        /\ \A i \in 1..Len(cs) : Sensible(cs[i].atts, fs[i + d].struct)
    BY DEF Rows
  <1>2. /\ IsSeq(u) /\ Len(u) = m + n /\ m \in Nat /\ n \in Nat
        /\ \A i \in 1..m : u[i] = fs[i]
    BY <1>1, Joined
  <1>3. /\ IsSeq(v) /\ Len(v) = n + m
        /\ \A i \in 1..m : v[i + n] = fs[i]
    BY <1>1, Joined
  <1>4. Len(cs) \in Nat
    BY <1>1 DEF IsSeq
  <1> HIDE DEF u, v, m, n
  <1>5. ASSUME NEW i \in 1..Len(cs)
        PROVE  /\ Sensible(cs[i].atts, u[i + d].struct)
               /\ Sensible(cs[i].atts, v[i + (d + n)].struct)
    <2>1. i + d \in 1..m /\ i + (d + n) = (i + d) + n
      BY <1>1, <1>2, <1>4
    <2>2. u[i + d] = fs[i + d] /\ v[i + (d + n)] = fs[i + d]
      BY <1>2, <1>3, <2>1
    <2> QED
      BY <1>1, <2>2
  <1>6. d + Len(cs) <= Len(u) /\ (d + n) + Len(cs) <= Len(v) /\ d + n \in Nat
    BY <1>1, <1>2, <1>3, <1>4
  <1>7. Rows(cs, u, d) /\ Rows(cs, v, d + n)
    BY <1>1, <1>2, <1>3, <1>5, <1>6 DEF Rows
  <1> QED
    BY <1>7 DEF u, v, n

\* The commands for mtSys.c.
LEMMA SysCommandsAgree ==
    Rows(SysCommands, SysSends, 0) /\ Len(SysCommands) = 11 /\ Len(SysSends) = 21
  <1> USE DEF Sensible, Agree, Few, Tight, Needs, Rooms, Size, Written, Three, Item, ListsLast,
              ListsAsked, Attribute, Att, ListAtt, Field, Count, List, Bytes, SizeOf, Room,
              Wide, WideList
  <1>1. Sensible(<<>>, <<>>)
    OBVIOUS
  <1>2. Sensible(<<Att(8)>>, SetExtAddrFormat)
    BY DEF SetExtAddrFormat
  <1>3. Sensible(<<Att(2), Att(1)>>, RamReadFormat)
    BY DEF RamReadFormat
  <1>4. Sensible(<<Att(2), Att(1), ListAtt(1, 128)>>, RamWriteFormat)
    BY DEF RamWriteFormat
  <1>5. Sensible(<<Att(1)>>, ResetReqFormat)
    BY DEF ResetReqFormat
  <1>6. Sensible(<<Att(2), Att(1)>>, OsalNvReadFormat)
    BY DEF OsalNvReadFormat
  <1>7. Sensible(<<Att(2), Att(1), Att(1), ListAtt(1, 246)>>, OsalNvWriteFormat)
    BY DEF OsalNvWriteFormat
  <1>8. Sensible(<<Att(2), Att(2), Att(1), ListAtt(1, 245)>>, OsalNvItemInitFormat)
    BY DEF OsalNvItemInitFormat
  <1>9. Sensible(<<Att(2), Att(2)>>, OsalNvDeleteFormat)
    BY DEF OsalNvDeleteFormat
  <1> HIDE DEF Sensible, Agree, Few, Tight, Needs, Rooms, Size, Written, Three, Item, ListsLast,
              ListsAsked, Attribute, Att, ListAtt, Field, Count, List, Bytes, SizeOf, Room,
              Wide, WideList
  <1> USE DEF Command, Function
  <1>10. Sensible(SysCommands[1].atts, SysSends[1].struct)
    BY <1>1 DEF SysCommands, SysSends
  <1>11. Sensible(SysCommands[2].atts, SysSends[2].struct)
    BY <1>2 DEF SysCommands, SysSends
  <1>12. Sensible(SysCommands[3].atts, SysSends[3].struct)
    BY <1>1 DEF SysCommands, SysSends
  <1>13. Sensible(SysCommands[4].atts, SysSends[4].struct)
    BY <1>3 DEF SysCommands, SysSends
  <1>14. Sensible(SysCommands[5].atts, SysSends[5].struct)
    BY <1>4 DEF SysCommands, SysSends
  <1>15. Sensible(SysCommands[6].atts, SysSends[6].struct)
    BY <1>5 DEF SysCommands, SysSends
  <1>16. Sensible(SysCommands[7].atts, SysSends[7].struct)
    BY <1>1 DEF SysCommands, SysSends
  <1>17. Sensible(SysCommands[8].atts, SysSends[8].struct)
    BY <1>6 DEF SysCommands, SysSends
  <1>18. Sensible(SysCommands[9].atts, SysSends[9].struct)
    BY <1>7 DEF SysCommands, SysSends
  <1>19. Sensible(SysCommands[10].atts, SysSends[10].struct)
    BY <1>8 DEF SysCommands, SysSends
  <1>20. Sensible(SysCommands[11].atts, SysSends[11].struct)
    BY <1>9 DEF SysCommands, SysSends
  <1> HIDE DEF Command, Function
  <1>21. IsSeq(SysCommands) /\ Len(SysCommands) = 11
    BY DEF IsSeq, SysCommands
  <1>22. IsSeq(SysSends) /\ Len(SysSends) = 21
    BY DEF IsSeq, SysSends
  <1>23. \A i \in 1..11 : Sensible(SysCommands[i].atts, SysSends[i + 0].struct)
    BY <1>10, <1>11, <1>12, <1>13, <1>14, <1>15, <1>16, <1>17, <1>18, <1>19, <1>20
  <1> QED
    BY <1>21, <1>22, <1>23 DEF Rows

\* The commands for mtSys.c, continued.
LEMMA SysCommands2Agree ==
    Rows(SysCommands2, SysSends, 11) /\ Len(SysCommands2) = 10 /\ Len(SysSends) = 21
  <1> USE DEF Sensible, Agree, Few, Tight, Needs, Rooms, Size, Written, Three, Item, ListsLast,
              ListsAsked, Attribute, Att, ListAtt, Field, Count, List, Bytes, SizeOf, Room,
              Wide, WideList
  <1>1. Sensible(<<Att(2)>>, OsalNvLengthFormat)
    BY DEF OsalNvLengthFormat
  <1>2. Sensible(<<Att(1), Att(2)>>, OsalStartTimerFormat)
    BY DEF OsalStartTimerFormat
  <1>3. Sensible(<<Att(1)>>, OsalStopTimerFormat)
    BY DEF OsalStopTimerFormat
  <1>4. Sensible(<<Att(1), Att(1)>>, StackTuneFormat)
    BY DEF StackTuneFormat
  <1>5. Sensible(<<Att(1), Att(1)>>, AdcReadFormat)
    BY DEF AdcReadFormat
  <1>6. Sensible(<<Att(1), Att(1)>>, GpioFormat)
    BY DEF GpioFormat
  <1>7. Sensible(<<>>, <<>>)
    OBVIOUS
  <1>8. Sensible(<<Att(4), Att(1), Att(1), Att(1), Att(1), Att(1), Att(2)>>, SetTimeFormat)
    BY DEF SetTimeFormat
  <1>9. Sensible(<<Att(1)>>, SetTxPowerFormat)
    BY DEF SetTxPowerFormat
  <1> HIDE DEF Sensible, Agree, Few, Tight, Needs, Rooms, Size, Written, Three, Item, ListsLast,
              ListsAsked, Attribute, Att, ListAtt, Field, Count, List, Bytes, SizeOf, Room,
              Wide, WideList
  <1> USE DEF Command, Function
  <1>10. Sensible(SysCommands2[1].atts, SysSends[12].struct)
    BY <1>1 DEF SysCommands2, SysSends
  <1>11. Sensible(SysCommands2[2].atts, SysSends[13].struct)
    BY <1>2 DEF SysCommands2, SysSends
  <1>12. Sensible(SysCommands2[3].atts, SysSends[14].struct)
    BY <1>3 DEF SysCommands2, SysSends
  <1>13. Sensible(SysCommands2[4].atts, SysSends[15].struct)
    BY <1>4 DEF SysCommands2, SysSends
  <1>14. Sensible(SysCommands2[5].atts, SysSends[16].struct)
    BY <1>5 DEF SysCommands2, SysSends
  <1>15. Sensible(SysCommands2[6].atts, SysSends[17].struct)
    BY <1>6 DEF SysCommands2, SysSends
  <1>16. Sensible(SysCommands2[7].atts, SysSends[18].struct)
    BY <1>7 DEF SysCommands2, SysSends
  <1>17. Sensible(SysCommands2[8].atts, SysSends[19].struct)
    BY <1>8 DEF SysCommands2, SysSends
  <1>18. Sensible(SysCommands2[9].atts, SysSends[20].struct)
    BY <1>7 DEF SysCommands2, SysSends
  <1>19. Sensible(SysCommands2[10].atts, SysSends[21].struct)
    BY <1>9 DEF SysCommands2, SysSends
  <1> HIDE DEF Command, Function
  <1>20. IsSeq(SysCommands2) /\ Len(SysCommands2) = 10
    BY DEF IsSeq, SysCommands2
  <1>21. IsSeq(SysSends) /\ Len(SysSends) = 21
    BY DEF IsSeq, SysSends
  <1>22. \A i \in 1..10 : Sensible(SysCommands2[i].atts, SysSends[i + 11].struct)
    BY <1>10, <1>11, <1>12, <1>13, <1>14, <1>15, <1>16, <1>17, <1>18, <1>19
  <1> QED
    BY <1>20, <1>21, <1>22 DEF Rows

\* The commands for mtAf.c.
LEMMA AfCommandsAgree ==
    Rows(AfCommands, AfSends, 0) /\ Len(AfCommands) = 3 /\ Len(AfSends) = 8
  <1> USE DEF Sensible, Agree, Few, Tight, Needs, Rooms, Size, Written, Three, Item, ListsLast,
              ListsAsked, Attribute, Att, ListAtt, Field, Count, List, Bytes, SizeOf, Room,
              Wide, WideList
  <1>1. Sensible(<<Att(1), Att(2), Att(2), Att(1), Att(1), Att(1), ListAtt(2, 16), Att(1),
                 ListAtt(2, 16)>>, RegisterFormat)
    BY SMTT(60) DEF RegisterFormat
  <1>2. Sensible(<<Att(2), Att(1), Att(1), Att(2), Att(1), Att(1), Att(1), Att(1),
                 ListAtt(1, 128)>>, DataRequestFormat)
    BY SMTT(60) DEF DataRequestFormat
  <1>3. Sensible(<<Att(1), Att(8), Att(1), Att(2), Att(1), Att(2), Att(1), Att(1), Att(1),
                 Att(2), ListAtt(1, 230)>>, DataRequestExtFormat)
    BY SMTT(60) DEF DataRequestExtFormat
  <1> HIDE DEF Sensible, Agree, Few, Tight, Needs, Rooms, Size, Written, Three, Item, ListsLast,
              ListsAsked, Attribute, Att, ListAtt, Field, Count, List, Bytes, SizeOf, Room,
              Wide, WideList
  <1> USE DEF Command, Function
  <1>4. Sensible(AfCommands[1].atts, AfSends[1].struct)
    BY <1>1 DEF AfCommands, AfSends
  <1>5. Sensible(AfCommands[2].atts, AfSends[2].struct)
    BY <1>2 DEF AfCommands, AfSends
  <1>6. Sensible(AfCommands[3].atts, AfSends[3].struct)
    BY <1>3 DEF AfCommands, AfSends
  <1> HIDE DEF Command, Function
  <1>7. IsSeq(AfCommands) /\ Len(AfCommands) = 3
    BY DEF IsSeq, AfCommands
  <1>8. IsSeq(AfSends) /\ Len(AfSends) = 8
    BY DEF IsSeq, AfSends
  <1>9. \A i \in 1..3 : Sensible(AfCommands[i].atts, AfSends[i + 0].struct)
    BY <1>4, <1>5, <1>6
  <1> QED
    BY <1>7, <1>8, <1>9 DEF Rows

\* The commands for mtAf.c, continued.
LEMMA AfCommands2Agree ==
    Rows(AfCommands2, AfSends, 3) /\ Len(AfCommands2) = 5 /\ Len(AfSends) = 8
  <1> USE DEF Sensible, Agree, Few, Tight, Needs, Rooms, Size, Written, Three, Item, ListsLast,
              ListsAsked, Attribute, Att, ListAtt, Field, Count, List, Bytes, SizeOf, Room,
              Wide, WideList
  <1>1. Sensible(<<Att(2), Att(1), Att(1), Att(2), Att(1), Att(1), Att(1), Att(1),
                 ListAtt(2, 255), Att(1), ListAtt(1, 128)>>, DataRequestSrcRtgFormat)
    BY SMTT(60) DEF DataRequestSrcRtgFormat
  <1>2. Sensible(<<Att(1), ListAtt(1, 3)>>, InterPanCtlFormat)
    BY DEF InterPanCtlFormat
  <1>3. Sensible(<<Att(2), Att(1), ListAtt(1, 247)>>, DataStoreFormat)
    BY DEF DataStoreFormat
  <1>4. Sensible(<<Att(4), Att(2), Att(1)>>, DataRetrieveFormat)
    BY DEF DataRetrieveFormat
  <1>5. Sensible(<<Att(1), Att(1), Att(1)>>, ApsfConfigSetFormat)
    BY DEF ApsfConfigSetFormat
  <1> HIDE DEF Sensible, Agree, Few, Tight, Needs, Rooms, Size, Written, Three, Item, ListsLast,
              ListsAsked, Attribute, Att, ListAtt, Field, Count, List, Bytes, SizeOf, Room,
              Wide, WideList
  <1> USE DEF Command, Function
  <1>6. Sensible(AfCommands2[1].atts, AfSends[4].struct)
    BY <1>1 DEF AfCommands2, AfSends
  <1>7. Sensible(AfCommands2[2].atts, AfSends[5].struct)
    BY <1>2 DEF AfCommands2, AfSends
  <1>8. Sensible(AfCommands2[3].atts, AfSends[6].struct)
    BY <1>3 DEF AfCommands2, AfSends
  <1>9. Sensible(AfCommands2[4].atts, AfSends[7].struct)
    BY <1>4 DEF AfCommands2, AfSends
  <1>10. Sensible(AfCommands2[5].atts, AfSends[8].struct)
    BY <1>5 DEF AfCommands2, AfSends
  <1> HIDE DEF Command, Function
  <1>11. IsSeq(AfCommands2) /\ Len(AfCommands2) = 5
    BY DEF IsSeq, AfCommands2
  <1>12. IsSeq(AfSends) /\ Len(AfSends) = 8
    BY DEF IsSeq, AfSends
  <1>13. \A i \in 1..5 : Sensible(AfCommands2[i].atts, AfSends[i + 3].struct)
    BY <1>6, <1>7, <1>8, <1>9, <1>10
  <1> QED
    BY <1>11, <1>12, <1>13 DEF Rows

\* The commands for mtZdo.c.
LEMMA ZdoCommandsAgree ==
    Rows(ZdoCommands, ZdoSends, 0) /\ Len(ZdoCommands) = 9 /\ Len(ZdoSends) = 32
  <1> USE DEF Sensible, Agree, Few, Tight, Needs, Rooms, Size, Written, Three, Item, ListsLast,
              ListsAsked, Attribute, Att, ListAtt, Field, Count, List, Bytes, SizeOf, Room,
              Wide, WideList
  <1>1. Sensible(<<Att(8), Att(1), Att(1)>>, NwkAddrReqFormat)
    BY DEF NwkAddrReqFormat
  <1>2. Sensible(<<Att(2), Att(1), Att(1)>>, IeeeAddrReqFormat)
    BY DEF IeeeAddrReqFormat
  <1>3. Sensible(<<Att(2), Att(2)>>, NodeDescReqFormat)
    BY DEF NodeDescReqFormat
  <1>4. Sensible(<<Att(2), Att(2)>>, PowerDescReqFormat)
    BY DEF PowerDescReqFormat
  <1>5. Sensible(<<Att(2), Att(2), Att(1)>>, SimpleDescReqFormat)
    BY DEF SimpleDescReqFormat
  <1>6. Sensible(<<Att(2), Att(2)>>, ActiveEpReqFormat)
    BY DEF ActiveEpReqFormat
  <1>7. Sensible(<<Att(2), Att(2), Att(2), Att(1), ListAtt(2, 16), Att(1), ListAtt(2,
                 16)>>, MatchDescReqFormat)
    BY SMTT(60) DEF MatchDescReqFormat
  <1>8. Sensible(<<Att(2), Att(2)>>, ComplexDescReqFormat)
    BY DEF ComplexDescReqFormat
  <1>9. Sensible(<<Att(2), Att(2)>>, UserDescReqFormat)
    BY DEF UserDescReqFormat
  <1> HIDE DEF Sensible, Agree, Few, Tight, Needs, Rooms, Size, Written, Three, Item, ListsLast,
              ListsAsked, Attribute, Att, ListAtt, Field, Count, List, Bytes, SizeOf, Room,
              Wide, WideList
  <1> USE DEF Command, Function
  <1>10. Sensible(ZdoCommands[1].atts, ZdoSends[1].struct)
    BY <1>1 DEF ZdoCommands, ZdoSends
  <1>11. Sensible(ZdoCommands[2].atts, ZdoSends[2].struct)
    BY <1>2 DEF ZdoCommands, ZdoSends
  <1>12. Sensible(ZdoCommands[3].atts, ZdoSends[3].struct)
    BY <1>3 DEF ZdoCommands, ZdoSends
  <1>13. Sensible(ZdoCommands[4].atts, ZdoSends[4].struct)
    BY <1>4 DEF ZdoCommands, ZdoSends
  <1>14. Sensible(ZdoCommands[5].atts, ZdoSends[5].struct)
    BY <1>5 DEF ZdoCommands, ZdoSends
  <1>15. Sensible(ZdoCommands[6].atts, ZdoSends[6].struct)
    BY <1>6 DEF ZdoCommands, ZdoSends
  <1>16. Sensible(ZdoCommands[7].atts, ZdoSends[7].struct)
    BY <1>7 DEF ZdoCommands, ZdoSends
  <1>17. Sensible(ZdoCommands[8].atts, ZdoSends[8].struct)
    BY <1>8 DEF ZdoCommands, ZdoSends
  <1>18. Sensible(ZdoCommands[9].atts, ZdoSends[9].struct)
    BY <1>9 DEF ZdoCommands, ZdoSends
  <1> HIDE DEF Command, Function
  <1>19. IsSeq(ZdoCommands) /\ Len(ZdoCommands) = 9
    BY DEF IsSeq, ZdoCommands
  <1>20. IsSeq(ZdoSends) /\ Len(ZdoSends) = 32
    BY DEF IsSeq, ZdoSends
  <1>21. \A i \in 1..9 : Sensible(ZdoCommands[i].atts, ZdoSends[i + 0].struct)
    BY <1>10, <1>11, <1>12, <1>13, <1>14, <1>15, <1>16, <1>17, <1>18
  <1> QED
    BY <1>19, <1>20, <1>21 DEF Rows

\* The commands for mtZdo.c, continued.
LEMMA ZdoCommands2Agree ==
    Rows(ZdoCommands2, ZdoSends, 9) /\ Len(ZdoCommands2) = 6 /\ Len(ZdoSends) = 32
  <1> USE DEF Sensible, Agree, Few, Tight, Needs, Rooms, Size, Written, Three, Item, ListsLast,
              ListsAsked, Attribute, Att, ListAtt, Field, Count, List, Bytes, SizeOf, Room,
              Wide, WideList
  <1>1. Sensible(<<Att(2), Att(8), Att(1)>>, DeviceAnnceFormat)
    BY DEF DeviceAnnceFormat
  <1>2. Sensible(<<Att(2), Att(2), Att(1), ListAtt(1, 16)>>, UserDescSetFormat)
    BY DEF UserDescSetFormat
  <1>3. Sensible(<<Att(2)>>, ServerDiscReqFormat)
    BY DEF ServerDiscReqFormat
  <1>4. Sensible(<<Att(2), Att(2), Att(8), Att(1), Att(2), Att(1), ListAtt(2, 16), Att(1),
                 ListAtt(2, 16)>>, EndDeviceBindReqFormat)
    BY SMTT(60) DEF EndDeviceBindReqFormat
  <1>5. Sensible(<<Att(2), Att(8), Att(1), Att(2), Att(1), Att(8), Att(1)>>, BindReqFormat)
    BY SMTT(60) DEF BindReqFormat
  <1>6. Sensible(<<Att(2), Att(8), Att(1), Att(2), Att(1), Att(8), Att(1)>>,
                 UnbindReqFormat)
    BY DEF UnbindReqFormat
  <1> HIDE DEF Sensible, Agree, Few, Tight, Needs, Rooms, Size, Written, Three, Item, ListsLast,
              ListsAsked, Attribute, Att, ListAtt, Field, Count, List, Bytes, SizeOf, Room,
              Wide, WideList
  <1> USE DEF Command, Function
  <1>7. Sensible(ZdoCommands2[1].atts, ZdoSends[10].struct)
    BY <1>1 DEF ZdoCommands2, ZdoSends
  <1>8. Sensible(ZdoCommands2[2].atts, ZdoSends[11].struct)
    BY <1>2 DEF ZdoCommands2, ZdoSends
  <1>9. Sensible(ZdoCommands2[3].atts, ZdoSends[12].struct)
    BY <1>3 DEF ZdoCommands2, ZdoSends
  <1>10. Sensible(ZdoCommands2[4].atts, ZdoSends[13].struct)
    BY <1>4 DEF ZdoCommands2, ZdoSends
  <1>11. Sensible(ZdoCommands2[5].atts, ZdoSends[14].struct)
    BY <1>5 DEF ZdoCommands2, ZdoSends
  <1>12. Sensible(ZdoCommands2[6].atts, ZdoSends[15].struct)
    BY <1>6 DEF ZdoCommands2, ZdoSends
  <1> HIDE DEF Command, Function
  <1>13. IsSeq(ZdoCommands2) /\ Len(ZdoCommands2) = 6
    BY DEF IsSeq, ZdoCommands2
  <1>14. IsSeq(ZdoSends) /\ Len(ZdoSends) = 32
    BY DEF IsSeq, ZdoSends
  <1>15. \A i \in 1..6 : Sensible(ZdoCommands2[i].atts, ZdoSends[i + 9].struct)
    BY <1>7, <1>8, <1>9, <1>10, <1>11, <1>12
  <1> QED
    BY <1>13, <1>14, <1>15 DEF Rows

\* The commands for mtZdo.c, continued.
LEMMA ZdoCommands3Agree ==
    Rows(ZdoCommands3, ZdoSends, 15) /\ Len(ZdoCommands3) = 9 /\ Len(ZdoSends) = 32
  <1> USE DEF Sensible, Agree, Few, Tight, Needs, Rooms, Size, Written, Three, Item, ListsLast,
              ListsAsked, Attribute, Att, ListAtt, Field, Count, List, Bytes, SizeOf, Room,
              Wide, WideList
  <1>1. Sensible(<<Att(2), Att(4), Att(1), Att(1)>>, MgmtNwkDiscReqFormat)
    BY DEF MgmtNwkDiscReqFormat
  <1>2. Sensible(<<Att(2), Att(1)>>, MgmtLqiReqFormat)
    BY DEF MgmtLqiReqFormat
  <1>3. Sensible(<<Att(2), Att(1)>>, MgmtRtgReqFormat)
    BY DEF MgmtRtgReqFormat
  <1>4. Sensible(<<Att(2), Att(1)>>, MgmtBindReqFormat)
    BY DEF MgmtBindReqFormat
  <1>5. Sensible(<<Att(2), Att(8), Att(1)>>, MgmtLeaveReqFormat)
    BY DEF MgmtLeaveReqFormat
  <1>6. Sensible(<<Att(2), Att(8), Att(1)>>, MgmtDirectJoinReqFormat)
    BY DEF MgmtDirectJoinReqFormat
  <1>7. Sensible(<<Att(1), Att(2), Att(1), Att(1)>>, MgmtPermitJoinReqFormat)
    BY DEF MgmtPermitJoinReqFormat
  <1>8. Sensible(<<Att(2), Att(1), Att(4), Att(1), Att(1), Att(2)>>, MgmtNwkUpdateReqFormat)
    BY SMTT(60) DEF MgmtNwkUpdateReqFormat
  <1>9. Sensible(<<Att(2)>>, StartupFromAppFormat)
    BY DEF StartupFromAppFormat
  <1> HIDE DEF Sensible, Agree, Few, Tight, Needs, Rooms, Size, Written, Three, Item, ListsLast,
              ListsAsked, Attribute, Att, ListAtt, Field, Count, List, Bytes, SizeOf, Room,
              Wide, WideList
  <1> USE DEF Command, Function
  <1>10. Sensible(ZdoCommands3[1].atts, ZdoSends[16].struct)
    BY <1>1 DEF ZdoCommands3, ZdoSends
  <1>11. Sensible(ZdoCommands3[2].atts, ZdoSends[17].struct)
    BY <1>2 DEF ZdoCommands3, ZdoSends
  <1>12. Sensible(ZdoCommands3[3].atts, ZdoSends[18].struct)
    BY <1>3 DEF ZdoCommands3, ZdoSends
  <1>13. Sensible(ZdoCommands3[4].atts, ZdoSends[19].struct)
    BY <1>4 DEF ZdoCommands3, ZdoSends
  <1>14. Sensible(ZdoCommands3[5].atts, ZdoSends[20].struct)
    BY <1>5 DEF ZdoCommands3, ZdoSends
  <1>15. Sensible(ZdoCommands3[6].atts, ZdoSends[21].struct)
    BY <1>6 DEF ZdoCommands3, ZdoSends
  <1>16. Sensible(ZdoCommands3[7].atts, ZdoSends[22].struct)
    BY <1>7 DEF ZdoCommands3, ZdoSends
  <1>17. Sensible(ZdoCommands3[8].atts, ZdoSends[23].struct)
    BY <1>8 DEF ZdoCommands3, ZdoSends
  <1>18. Sensible(ZdoCommands3[9].atts, ZdoSends[24].struct)
    BY <1>9 DEF ZdoCommands3, ZdoSends
  <1> HIDE DEF Command, Function
  <1>19. IsSeq(ZdoCommands3) /\ Len(ZdoCommands3) = 9
    BY DEF IsSeq, ZdoCommands3
  <1>20. IsSeq(ZdoSends) /\ Len(ZdoSends) = 32
    BY DEF IsSeq, ZdoSends
  <1>21. \A i \in 1..9 : Sensible(ZdoCommands3[i].atts, ZdoSends[i + 15].struct)
    BY <1>10, <1>11, <1>12, <1>13, <1>14, <1>15, <1>16, <1>17, <1>18
  <1> QED
    BY <1>19, <1>20, <1>21 DEF Rows

\* The commands for mtZdo.c, continued.
LEMMA ZdoCommands4Agree ==
    Rows(ZdoCommands4, ZdoSends, 24) /\ Len(ZdoCommands4) = 8 /\ Len(ZdoSends) = 32
  <1> USE DEF Sensible, Agree, Few, Tight, Needs, Rooms, Size, Written, Three, Item, ListsLast,
              ListsAsked, Attribute, Att, ListAtt, Field, Count, List, Bytes, SizeOf, Room,
              Wide, WideList
  <1>1. Sensible(<<Att(1)>>, AutoFindDestinationFormat)
    BY DEF AutoFindDestinationFormat
  <1>2. Sensible(<<Att(2), Att(8), Att(16)>>, SetLinkKeyFormat)
    BY DEF SetLinkKeyFormat
  <1>3. Sensible(<<Att(8)>>, RemoveLinkKeyFormat)
    BY DEF RemoveLinkKeyFormat
  <1>4. Sensible(<<Att(8)>>, GetLinkKeyFormat)
    BY DEF GetLinkKeyFormat
  <1>5. Sensible(<<Att(4), Att(1)>>, NwkDiscoveryReqFormat)
    BY DEF NwkDiscoveryReqFormat
  <1>6. Sensible(<<Att(1), Att(2), Att(8), Att(2), Att(1), Att(1)>>, JoinReqFormat)
    BY DEF JoinReqFormat
  <1>7. Sensible(<<Att(2)>>, MsgCbRegisterFormat)
    BY DEF MsgCbRegisterFormat
  <1>8. Sensible(<<Att(2)>>, MsgCbRemoveFormat)
    BY DEF MsgCbRemoveFormat
  <1> HIDE DEF Sensible, Agree, Few, Tight, Needs, Rooms, Size, Written, Three, Item, ListsLast,
              ListsAsked, Attribute, Att, ListAtt, Field, Count, List, Bytes, SizeOf, Room,
              Wide, WideList
  <1> USE DEF Command, Function
  <1>9. Sensible(ZdoCommands4[1].atts, ZdoSends[25].struct)
    BY <1>1 DEF ZdoCommands4, ZdoSends
  <1>10. Sensible(ZdoCommands4[2].atts, ZdoSends[26].struct)
    BY <1>2 DEF ZdoCommands4, ZdoSends
  <1>11. Sensible(ZdoCommands4[3].atts, ZdoSends[27].struct)
    BY <1>3 DEF ZdoCommands4, ZdoSends
  <1>12. Sensible(ZdoCommands4[4].atts, ZdoSends[28].struct)
    BY <1>4 DEF ZdoCommands4, ZdoSends
  <1>13. Sensible(ZdoCommands4[5].atts, ZdoSends[29].struct)
    BY <1>5 DEF ZdoCommands4, ZdoSends
  <1>14. Sensible(ZdoCommands4[6].atts, ZdoSends[30].struct)
    BY <1>6 DEF ZdoCommands4, ZdoSends
  <1>15. Sensible(ZdoCommands4[7].atts, ZdoSends[31].struct)
    BY <1>7 DEF ZdoCommands4, ZdoSends
  <1>16. Sensible(ZdoCommands4[8].atts, ZdoSends[32].struct)
    BY <1>8 DEF ZdoCommands4, ZdoSends
  <1> HIDE DEF Command, Function
  <1>17. IsSeq(ZdoCommands4) /\ Len(ZdoCommands4) = 8
    BY DEF IsSeq, ZdoCommands4
  <1>18. IsSeq(ZdoSends) /\ Len(ZdoSends) = 32
    BY DEF IsSeq, ZdoSends
  <1>19. \A i \in 1..8 : Sensible(ZdoCommands4[i].atts, ZdoSends[i + 24].struct)
    BY <1>9, <1>10, <1>11, <1>12, <1>13, <1>14, <1>15, <1>16
  <1> QED
    BY <1>17, <1>18, <1>19 DEF Rows

\* The commands for mtSapi.c.
LEMMA SapiCommandsAgree ==
    Rows(SapiCommands, SapiSends, 0) /\ Len(SapiCommands) = 11 /\ Len(SapiSends) = 11
  <1> USE DEF Sensible, Agree, Few, Tight, Needs, Rooms, Size, Written, Three, Item, ListsLast,
              ListsAsked, Attribute, Att, ListAtt, Field, Count, List, Bytes, SizeOf, Room,
              Wide, WideList
  <1>1. Sensible(<<>>, <<>>)
    OBVIOUS
  <1>2. Sensible(<<Att(1), Att(2), Att(2), Att(1), Att(1), Att(1), ListAtt(2, 255),
                 Att(1), ListAtt(2, 255)>>, AppRegisterReqFormat)
    BY SMTT(60) DEF AppRegisterReqFormat
  <1>3. Sensible(<<Att(2), Att(1)>>, PermitJoiningReqFormat)
    BY DEF PermitJoiningReqFormat
  <1>4. Sensible(<<Att(1), Att(2), Att(8)>>, BindDeviceFormat)
    BY DEF BindDeviceFormat
  <1>5. Sensible(<<Att(1)>>, AllowBindFormat)
    BY DEF AllowBindFormat
  <1>6. Sensible(<<Att(2), Att(2), Att(1), Att(1), Att(1), Att(1), ListAtt(1, 99)>>,
                 SendDataReqFormat)
    BY SMTT(60) DEF SendDataReqFormat
  <1>7. Sensible(<<Att(8)>>, FindDeviceReqFormat)
    BY DEF FindDeviceReqFormat
  <1>8. Sensible(<<Att(1), Att(1), ListAtt(1, 128)>>, WriteConfigurationFormat)
    BY DEF WriteConfigurationFormat
  <1>9. Sensible(<<Att(1)>>, GetDeviceInfoFormat)
    BY DEF GetDeviceInfoFormat
  <1>10. Sensible(<<Att(1)>>, ReadConfigurationFormat)
    BY DEF ReadConfigurationFormat
  <1> HIDE DEF Sensible, Agree, Few, Tight, Needs, Rooms, Size, Written, Three, Item, ListsLast,
              ListsAsked, Attribute, Att, ListAtt, Field, Count, List, Bytes, SizeOf, Room,
              Wide, WideList
  <1> USE DEF Command, Function
  <1>11. Sensible(SapiCommands[1].atts, SapiSends[1].struct)
    BY <1>1 DEF SapiCommands, SapiSends
  <1>12. Sensible(SapiCommands[2].atts, SapiSends[2].struct)
    BY <1>2 DEF SapiCommands, SapiSends
  <1>13. Sensible(SapiCommands[3].atts, SapiSends[3].struct)
    BY <1>1 DEF SapiCommands, SapiSends
  <1>14. Sensible(SapiCommands[4].atts, SapiSends[4].struct)
    BY <1>3 DEF SapiCommands, SapiSends
  <1>15. Sensible(SapiCommands[5].atts, SapiSends[5].struct)
    BY <1>4 DEF SapiCommands, SapiSends
  <1>16. Sensible(SapiCommands[6].atts, SapiSends[6].struct)
    BY <1>5 DEF SapiCommands, SapiSends
  <1>17. Sensible(SapiCommands[7].atts, SapiSends[7].struct)
    BY <1>6 DEF SapiCommands, SapiSends
  <1>18. Sensible(SapiCommands[8].atts, SapiSends[8].struct)
    BY <1>7 DEF SapiCommands, SapiSends
  <1>19. Sensible(SapiCommands[9].atts, SapiSends[9].struct)
    BY <1>8 DEF SapiCommands, SapiSends
  <1>20. Sensible(SapiCommands[10].atts, SapiSends[10].struct)
    BY <1>9 DEF SapiCommands, SapiSends
  <1>21. Sensible(SapiCommands[11].atts, SapiSends[11].struct)
    BY <1>10 DEF SapiCommands, SapiSends
  <1> HIDE DEF Command, Function
  <1>22. IsSeq(SapiCommands) /\ Len(SapiCommands) = 11
    BY DEF IsSeq, SapiCommands
  <1>23. IsSeq(SapiSends) /\ Len(SapiSends) = 11
    BY DEF IsSeq, SapiSends
  <1>24. \A i \in 1..11 : Sensible(SapiCommands[i].atts, SapiSends[i + 0].struct)
    BY <1>11, <1>12, <1>13, <1>14, <1>15, <1>16, <1>17, <1>18, <1>19, <1>20, <1>21
  <1> QED
    BY <1>22, <1>23, <1>24 DEF Rows

\* Their functions are those of the whole table.
LEMMA TableRows ==
    /\ Rows(SysCommands, Functions, 0)
    /\ Rows(SysCommands2, Functions, 11)
    /\ Rows(AfCommands, Functions, 21)
    /\ Rows(AfCommands2, Functions, 24)
    /\ Rows(ZdoCommands, Functions, 29)
    /\ Rows(ZdoCommands2, Functions, 38)
    /\ Rows(ZdoCommands3, Functions, 44)
    /\ Rows(ZdoCommands4, Functions, 53)
    /\ Rows(SapiCommands, Functions, 61)
  <1> DEFINE two == SysSends \o AfSends
             three == two \o ZdoSends
  <1>1. /\ IsSeq(SysSends) /\ IsSeq(AfSends) /\ IsSeq(ZdoSends) /\ IsSeq(SapiSends)
        /\ Len(SysSends) = 21 /\ Len(AfSends) = 8 /\ Len(ZdoSends) = 32
    BY SysCommandsAgree, AfCommandsAgree, ZdoCommandsAgree, SapiCommandsAgree DEF Rows
  <1>2. IsSeq(two) /\ Len(two) = 29
    <2>1. IsSeq(two) /\ Len(two) = Len(SysSends) + Len(AfSends)
      BY <1>1, JoinedLength, ZenonT(60)
    <2> QED
      BY <1>1, <2>1
  <1> HIDE DEF two
  <1>3. IsSeq(three) /\ Len(three) = 61
    <2>1. IsSeq(three) /\ Len(three) = Len(two) + Len(ZdoSends)
      BY <1>1, <1>2, JoinedLength, ZenonT(60)
    <2> QED
      BY <1>1, <1>2, <2>1
  <1> HIDE DEF three
  <1>4. two = SysSends \o AfSends /\ three = two \o ZdoSends /\ Functions = three \o SapiSends
    BY DEF two, three, Functions
  <1>5. /\ \A cs, d : Rows(cs, SysSends, d) => Rows(cs, two, d)
        /\ \A cs, d : Rows(cs, AfSends, d) => Rows(cs, two, d + 21)
        /\ \A cs, d : Rows(cs, ZdoSends, d) => Rows(cs, three, d + 29)
        /\ \A cs, d : Rows(cs, SapiSends, d) => Rows(cs, Functions, d + 61)
    <2>1. \A cs, d : Rows(cs, SysSends, d) => Rows(cs, two, d)
      BY <1>1, <1>4, RowsMore, ZenonT(60)
    <2>2. \A cs, d : Rows(cs, AfSends, d) => Rows(cs, two, d + 21)
      BY <1>1, <1>4, RowsMore, ZenonT(60)
    <2>3. \A cs, d : Rows(cs, ZdoSends, d) => Rows(cs, three, d + 29)
      BY <1>2, <1>4, RowsMore, ZenonT(60)
    <2>4. \A cs, d : Rows(cs, SapiSends, d) => Rows(cs, Functions, d + 61)
      BY <1>3, <1>4, RowsMore, ZenonT(60)
    <2> QED
      BY <2>1, <2>2, <2>3, <2>4
  <1>6. /\ \A cs, d : Rows(cs, two, d) => Rows(cs, three, d)
        /\ \A cs, d : Rows(cs, three, d) => Rows(cs, Functions, d)
    BY <1>1, <1>4, RowsMore
  <1>7. Rows(SysCommands, Functions, 0) /\ Rows(SysCommands2, Functions, 11)
    BY <1>5, <1>6, SysCommandsAgree, SysCommands2Agree
  <1>8. Rows(AfCommands, Functions, 21) /\ Rows(AfCommands2, Functions, 24)
    <2>1. Rows(AfCommands, two, 0 + 21) /\ Rows(AfCommands2, two, 3 + 21)
      BY <1>5, AfCommandsAgree, AfCommands2Agree
    <2> QED
      BY <1>6, <2>1
  <1>9. /\ Rows(ZdoCommands, Functions, 29) /\ Rows(ZdoCommands2, Functions, 38)
        /\ Rows(ZdoCommands3, Functions, 44) /\ Rows(ZdoCommands4, Functions, 53)
    <2>1. /\ Rows(ZdoCommands, three, 0 + 29) /\ Rows(ZdoCommands2, three, 9 + 29)
          /\ Rows(ZdoCommands3, three, 15 + 29) /\ Rows(ZdoCommands4, three, 24 + 29)
      BY <1>5, ZdoCommandsAgree, ZdoCommands2Agree, ZdoCommands3Agree, ZdoCommands4Agree
    <2> QED
      BY <1>6, <2>1
  <1>10. Rows(SapiCommands, Functions, 61)
    <2>1. Rows(SapiCommands, Functions, 0 + 61)
      BY <1>5, SapiCommandsAgree
    <2> QED
      BY <2>1
  <1> QED
    BY <1>7, <1>8, <1>9, <1>10

\* Each command of the console is for the function that has its place.
LEMMA TableSensible ==
    /\ IsSeq(commands) /\ Len(commands) = 72
    /\ \A i \in 1..Len(commands) : Sensible(commands[i].atts, Functions[i].struct)
  <1> DEFINE c2 == SysCommands \o SysCommands2
             c3 == c2 \o AfCommands
             c4 == c3 \o AfCommands2
             c5 == c4 \o ZdoCommands
             c6 == c5 \o ZdoCommands2
             c7 == c6 \o ZdoCommands3
             c8 == c7 \o ZdoCommands4
  <1>1. IsSeq(SysCommands) /\ Len(SysCommands) = 11 /\ Rows(SysCommands, Functions, 0)
    BY SysCommandsAgree, TableRows DEF Rows
  <1>2. IsSeq(c2) /\ Len(c2) = 21 /\ Rows(c2, Functions, 0)
    <2>1. IsSeq(SysCommands2) /\ Len(SysCommands2) = 10 /\ Rows(SysCommands2, Functions, 0 + 11)
      BY SysCommands2Agree, TableRows DEF Rows
    <2>2. c2 = SysCommands \o SysCommands2
      OBVIOUS
    <2> HIDE DEF c2
    <2>3. IsSeq(c2) /\ Len(c2) = Len(SysCommands) + Len(SysCommands2)
      BY <1>1, <2>1, <2>2, JoinedLength, ZenonT(60)
    <2>4. Rows(c2, Functions, 0)
      BY <1>1, <2>1, <2>2, RowsJoin, ZenonT(60)
    <2> QED
      BY <1>1, <2>1, <2>3, <2>4
  <1> HIDE DEF c2
  <1>3. IsSeq(c3) /\ Len(c3) = 24 /\ Rows(c3, Functions, 0)
    <2>1. IsSeq(AfCommands) /\ Len(AfCommands) = 3 /\ Rows(AfCommands, Functions, 0 + 21)
      BY AfCommandsAgree, TableRows DEF Rows
    <2>2. c3 = c2 \o AfCommands
      OBVIOUS
    <2> HIDE DEF c3
    <2>3. IsSeq(c3) /\ Len(c3) = Len(c2) + Len(AfCommands)
      BY <1>2, <2>1, <2>2, JoinedLength, ZenonT(60)
    <2>4. Rows(c3, Functions, 0)
      BY <1>2, <2>1, <2>2, RowsJoin, ZenonT(60)
    <2> QED
      BY <1>2, <2>1, <2>3, <2>4
  <1> HIDE DEF c3
  <1>4. IsSeq(c4) /\ Len(c4) = 29 /\ Rows(c4, Functions, 0)
    <2>1. IsSeq(AfCommands2) /\ Len(AfCommands2) = 5 /\ Rows(AfCommands2, Functions, 0 + 24)
      BY AfCommands2Agree, TableRows DEF Rows
    <2>2. c4 = c3 \o AfCommands2
      OBVIOUS
    <2> HIDE DEF c4
    <2>3. IsSeq(c4) /\ Len(c4) = Len(c3) + Len(AfCommands2)
      BY <1>3, <2>1, <2>2, JoinedLength, ZenonT(60)
    <2>4. Rows(c4, Functions, 0)
      BY <1>3, <2>1, <2>2, RowsJoin, ZenonT(60)
    <2> QED
      BY <1>3, <2>1, <2>3, <2>4
  <1> HIDE DEF c4
  <1>5. IsSeq(c5) /\ Len(c5) = 38 /\ Rows(c5, Functions, 0)
    <2>1. IsSeq(ZdoCommands) /\ Len(ZdoCommands) = 9 /\ Rows(ZdoCommands, Functions, 0 + 29)
      BY ZdoCommandsAgree, TableRows DEF Rows
    <2>2. c5 = c4 \o ZdoCommands
      OBVIOUS
    <2> HIDE DEF c5
    <2>3. IsSeq(c5) /\ Len(c5) = Len(c4) + Len(ZdoCommands)
      BY <1>4, <2>1, <2>2, JoinedLength, ZenonT(60)
    <2>4. Rows(c5, Functions, 0)
      BY <1>4, <2>1, <2>2, RowsJoin, ZenonT(60)
    <2> QED
      BY <1>4, <2>1, <2>3, <2>4
  <1> HIDE DEF c5
  <1>6. IsSeq(c6) /\ Len(c6) = 44 /\ Rows(c6, Functions, 0)
    <2>1. IsSeq(ZdoCommands2) /\ Len(ZdoCommands2) = 6 /\ Rows(ZdoCommands2, Functions, 0 + 38)
      BY ZdoCommands2Agree, TableRows DEF Rows
    <2>2. c6 = c5 \o ZdoCommands2
      OBVIOUS
    <2> HIDE DEF c6
    <2>3. IsSeq(c6) /\ Len(c6) = Len(c5) + Len(ZdoCommands2)
      BY <1>5, <2>1, <2>2, JoinedLength, ZenonT(60)
    <2>4. Rows(c6, Functions, 0)
      BY <1>5, <2>1, <2>2, RowsJoin, ZenonT(60)
    <2> QED
      BY <1>5, <2>1, <2>3, <2>4
  <1> HIDE DEF c6
  <1>7. IsSeq(c7) /\ Len(c7) = 53 /\ Rows(c7, Functions, 0)
    <2>1. IsSeq(ZdoCommands3) /\ Len(ZdoCommands3) = 9 /\ Rows(ZdoCommands3, Functions, 0 + 44)
      BY ZdoCommands3Agree, TableRows DEF Rows
    <2>2. c7 = c6 \o ZdoCommands3
      OBVIOUS
    <2> HIDE DEF c7
    <2>3. IsSeq(c7) /\ Len(c7) = Len(c6) + Len(ZdoCommands3)
      BY <1>6, <2>1, <2>2, JoinedLength, ZenonT(60)
    <2>4. Rows(c7, Functions, 0)
      BY <1>6, <2>1, <2>2, RowsJoin, ZenonT(60)
    <2> QED
      BY <1>6, <2>1, <2>3, <2>4
  <1> HIDE DEF c7
  <1>8. IsSeq(c8) /\ Len(c8) = 61 /\ Rows(c8, Functions, 0)
    <2>1. IsSeq(ZdoCommands4) /\ Len(ZdoCommands4) = 8 /\ Rows(ZdoCommands4, Functions, 0 + 53)
      BY ZdoCommands4Agree, TableRows DEF Rows
    <2>2. c8 = c7 \o ZdoCommands4
      OBVIOUS
    <2> HIDE DEF c8
    <2>3. IsSeq(c8) /\ Len(c8) = Len(c7) + Len(ZdoCommands4)
      BY <1>7, <2>1, <2>2, JoinedLength, ZenonT(60)
    <2>4. Rows(c8, Functions, 0)
      BY <1>7, <2>1, <2>2, RowsJoin, ZenonT(60)
    <2> QED
      BY <1>7, <2>1, <2>3, <2>4
  <1> HIDE DEF c8
  <1>9. IsSeq(commands) /\ Len(commands) = 72 /\ Rows(commands, Functions, 0)
    <2>1. IsSeq(SapiCommands) /\ Len(SapiCommands) = 11 /\ Rows(SapiCommands, Functions, 0 + 61)
      BY SapiCommandsAgree, TableRows DEF Rows
    <2>2. commands = c8 \o SapiCommands
      BY DEF commands, c2, c3, c4, c5, c6, c7, c8
    <2>3. IsSeq(commands) /\ Len(commands) = Len(c8) + Len(SapiCommands)
      BY <1>8, <2>1, <2>2, JoinedLength, ZenonT(60)
    <2>4. Rows(commands, Functions, 0)
      BY <1>8, <2>1, <2>2, RowsJoin, ZenonT(60)
    <2> QED
      BY <1>8, <2>1, <2>3, <2>4
  <1>10. \A i \in 1..Len(commands) : Sensible(commands[i].atts, Functions[i + 0].struct)
    BY <1>9, ZenonT(60) DEF Rows
  <1>11. \A i \in 1..Len(commands) : i + 0 = i
    BY <1>9
  <1> QED
    BY <1>9, <1>10, <1>11, ZenonT(60)

\* The table of the commands has a length.
LEMMA TableLength == Len(commands) \in Nat
  <1>1. \A n : n = 72 => n \in Nat
    OBVIOUS
  <1> QED
    BY <1>1, TableSensible, Zenon

-----------------------------------------------------------------------------
(* The console while it asks.                                              *)

\* One attribute more is put behind the others, and ends within what the command takes.
LEMMA LayingMore ==
    ASSUME NEW a, NEW t, Laying(a, t), Len(t) < Len(a), NEW e \in Entry,
           LET k == Len(t) + 1
           IN \/ e.at = Start(EndOf(a, t, Len(t)), a[k])
              \/ WideList(a[k]) /\ e.at = EndOf(a, t, Len(t))
    PROVE  /\ Laying(a, Append(t, e)) /\ Len(Append(t, e)) = Len(t) + 1
           /\ EndOf(a, Append(t, e), Len(t) + 1) = e.at + Room(a[Len(t) + 1])
           /\ e.at + Room(a[Len(t) + 1]) <= Ends(a)[Len(a)]
  <1> DEFINE n == Len(t)
             u == Append(t, e)
  <1>1. /\ a \in Seq(Attribute) /\ t \in Seq(Entry) /\ n \in Nat /\ Len(a) \in Nat
        /\ n + 1 <= Len(a)
        /\ \A k \in 1..n : Placed(a, t, k)
    BY DEF Laying
  <1>2. /\ u \in Seq(Entry) /\ Len(u) = n + 1 /\ u[n + 1] = e
        /\ \A k \in 1..n : u[k] = t[k]
    BY <1>1
  <1>3. \/ e.at = Start(EndOf(a, t, n), a[n + 1])
        \/ WideList(a[n + 1]) /\ e.at = EndOf(a, t, n)
    OBVIOUS
  <1> HIDE DEF n, u
  <1>4. \A k \in 0..n : EndOf(a, u, k) = EndOf(a, t, k)
    BY <1>1, <1>2 DEF EndOf
  <1>5. ASSUME NEW k \in 1..(n + 1) PROVE Placed(a, u, k)
    <2>1. CASE k \in 1..n
      <3>1. Placed(a, t, k) /\ u[k] = t[k] /\ k - 1 \in 0..n
        BY <1>1, <1>2, <2>1
      <3>2. EndOf(a, u, k - 1) = EndOf(a, t, k - 1)
        BY <1>4, <3>1
      <3> QED
        BY <3>1, <3>2 DEF Placed
    <2>2. CASE k = n + 1
      <3>1. u[k] = e /\ k - 1 = n /\ n \in 0..n
        BY <1>1, <1>2, <2>2
      <3>2. EndOf(a, u, k - 1) = EndOf(a, t, n)
        BY <1>4, <3>1
      <3> QED
        BY <1>3, <2>2, <3>1, <3>2 DEF Placed
    <2> QED
      BY <1>1, <2>1, <2>2
  <1>6. Laying(a, u)
    BY <1>1, <1>2, <1>5 DEF Laying
  <1>7. EndOf(a, u, n + 1) = e.at + Room(a[n + 1])
    BY <1>1, <1>2 DEF EndOf
  <1>8. EndOf(a, u, n + 1) <= Ends(a)[n + 1]
    <2>1. n + 1 \in 0..Len(u)
      BY <1>1, <1>2
    <2> QED
      BY <1>6, <2>1, PlacedBound
  <1>9. Ends(a)[n + 1] <= Ends(a)[Len(a)] /\ Ends(a)[n + 1] \in Nat /\ Ends(a)[Len(a)] \in Nat
    <2>1. n + 1 \in 0..Len(a) /\ Len(a) \in 0..Len(a)
      BY <1>1
    <2> QED
      BY <1>1, <2>1, EndsAre, EndsGrow
  <1>10. EndOf(a, u, n + 1) <= Ends(a)[Len(a)]
    <2>1. EndOf(a, u, n + 1) \in Nat
      <3>1. n + 1 \in 0..Len(u)
        BY <1>1, <1>2
      <3> QED
        BY <1>6, <3>1, PlacedNat
    <2> QED
      BY <1>8, <1>9, <2>1
  <1> QED
    BY <1>2, <1>6, <1>7, <1>10 DEF n, u

\* A sequence without its last element.
LEMMA AllButLast ==
    ASSUME NEW T, NEW s \in Seq(T), Len(s) > 0
    PROVE  /\ Front(s) \in Seq(T) /\ Len(Front(s)) = Len(s) - 1
           /\ \A k \in 1..(Len(s) - 1) : Front(s)[k] = s[k]
  <1>1. Len(s) \in Nat /\ Len(s) - 1 \in Nat /\ 1 \in Nat
    OBVIOUS
  <1>2. \A k \in 1..(Len(s) - 1) : s[k] \in T
    BY <1>1
  <1>3. Front(s) = [i \in 1..(Len(s) - 1) |-> s[i]]
    BY <1>1 DEF Front
  <1>4. /\ Front(s) \in [1..(Len(s) - 1) -> T]
        /\ \A k \in 1..(Len(s) - 1) : Front(s)[k] = s[k]
    BY <1>1, <1>2, <1>3
  <1>5. Front(s) \in Seq(T) /\ Len(Front(s)) = Len(s) - 1
    BY <1>1, <1>3, <1>4
  <1> QED
    BY <1>4, <1>5

\* The last one is taken back.
LEMMA LayingLess ==
    ASSUME NEW a, NEW t, Laying(a, t), Len(t) > 0
    PROVE  /\ Laying(a, Front(t)) /\ Len(Front(t)) = Len(t) - 1
           /\ EndOf(a, Front(t), Len(t) - 1) = EndOf(a, t, Len(t) - 1)
  <1> DEFINE n == Len(t)
             u == Front(t)
  <1>1. /\ a \in Seq(Attribute) /\ t \in Seq(Entry) /\ n \in Nat /\ Len(a) \in Nat
        /\ n <= Len(a) /\ n > 0
        /\ \A k \in 1..n : Placed(a, t, k)
    BY DEF Laying
  <1>2. /\ u \in Seq(Entry) /\ Len(u) = n - 1
        /\ \A k \in 1..(n - 1) : u[k] = t[k]
    BY <1>1, AllButLast
  <1> HIDE DEF n, u
  <1>3. \A k \in 0..(n - 1) : EndOf(a, u, k) = EndOf(a, t, k)
    BY <1>1, <1>2 DEF EndOf
  <1>4. ASSUME NEW k \in 1..(n - 1) PROVE Placed(a, u, k)
    <2>1. k \in 1..n /\ u[k] = t[k] /\ k - 1 \in 0..(n - 1)
      BY <1>1, <1>2
    <2>2. Placed(a, t, k) /\ EndOf(a, u, k - 1) = EndOf(a, t, k - 1)
      BY <1>1, <1>3, <2>1
    <2> QED
      BY <2>1, <2>2 DEF Placed
  <1>5. Laying(a, u)
    BY <1>1, <1>2, <1>4 DEF Laying
  <1>6. EndOf(a, u, n - 1) = EndOf(a, t, n - 1)
    BY <1>1, <1>3
  <1> QED
    BY <1>2, <1>5, <1>6 DEF n, u

\* The greater of two numbers.
LEMMA MaxOfTwo ==
    ASSUME NEW m \in Nat, NEW n \in Nat
    PROVE  Max({m, n}) = IF m >= n THEN m ELSE n
  BY DEF Max

\* What is typed so far lies behind one another, nothing is written beyond the place
\* where the command's attributes end, and currentPos is behind what was typed last; it
\* may be past the byte skipped there, when a length is asked for again.
Entering ==
    /\ Laying(atts, typed)
    /\ x = Len(typed) + 1
    /\ \/ currentPos = EndOf(atts, typed, Len(typed))
       \/ /\ x <= Len(atts) /\ atts[x].isList = 0
          /\ currentPos = Start(EndOf(atts, typed, Len(typed)), atts[x])
    /\ top \in Nat /\ top <= Ends(atts)[Len(atts)]
    /\ commandSize = SizeOfInput(atts)

LineInv ==
    /\ cmd \in 0..Len(commands) /\ commandSize \in 0..255
    /\ cmd # 0 => Entering

\* What the table says of the command being entered.
LEMMA Entered ==
    ASSUME LineInv, cmd # 0
    PROVE  /\ cmd \in 1..Len(commands) /\ Entering
           /\ Sensible(atts, Functions[cmd].struct) /\ atts \in Seq(Attribute)
           /\ Laying(atts, typed) /\ Len(typed) \in Nat /\ Len(atts) \in Nat
           /\ Len(typed) <= Len(atts) /\ x = Len(typed) + 1
           /\ EndOf(atts, typed, Len(typed)) \in Nat
           /\ Ends(atts)[Len(atts)] \in Nat /\ top \in Nat /\ top <= Ends(atts)[Len(atts)]
  <1>1. cmd \in 1..Len(commands)
    <2>1. Len(commands) \in Nat
      BY TableLength
    <2> QED
      BY <2>1 DEF LineInv
  <1>2. Entering
    BY DEF LineInv
  <1>3. Sensible(atts, Functions[cmd].struct)
    BY <1>1, TableSensible, ZenonT(60) DEF atts
  <1>4. atts \in Seq(Attribute)
    BY <1>3 DEF Sensible, Few
  <1>5. Laying(atts, typed) /\ x = Len(typed) + 1 /\ top \in Nat /\ top <= Ends(atts)[Len(atts)]
    BY <1>2 DEF Entering
  <1>6. Len(typed) \in Nat /\ Len(atts) \in Nat /\ Len(typed) <= Len(atts)
    BY <1>5, PlacedNat
  <1>7. EndOf(atts, typed, Len(typed)) \in Nat
    <2>1. Len(typed) \in 0..Len(typed)
      BY <1>6
    <2> QED
      BY <1>5, <2>1, PlacedNat
  <1>8. Ends(atts)[Len(atts)] \in Nat
    <2>1. Len(atts) \in 0..Len(atts)
      BY <1>6
    <2> QED
      BY <1>4, <2>1, EndsGrow
  <1> QED
    BY <1>1, <1>2, <1>3, <1>4, <1>5, <1>6, <1>7, <1>8

\* A command is chosen: nothing is typed yet.
LEMMA EnteringBegins ==
    ASSUME NEW i \in DOMAIN commands, Choose(i)
    PROVE  LineInv'
  <1> DEFINE a == commands[i].atts
  <1>1. /\ cmd' = i /\ x' = 1 /\ currentPos' = 0 /\ typed' = <<>> /\ top' = 0
        /\ commandSize' = SizeOfInput(a)
    BY DEF Choose
  <1>2. i \in 1..Len(commands) /\ Len(commands) \in Nat
    <2>1. commands \in Seq({commands[j] : j \in DOMAIN commands}) /\ Len(commands) = 72
      BY TableSensible, ZenonT(60) DEF IsSeq
    <2> QED
      BY <2>1
  <1>3. a \in Seq(Attribute)
    BY <1>2, TableSensible, ZenonT(60) DEF Sensible, Few
  <1>4. atts' = a
    BY <1>1 DEF atts
  <1> HIDE DEF a
  <1>5. Laying(a, <<>>) /\ Len(<<>>) = 0
    BY <1>3, EmptyLength DEF Laying
  <1>6. EndOf(a, <<>>, 0) = 0
    BY DEF EndOf
  <1>7. Ends(a)[Len(a)] \in Nat
    <2>1. Len(a) \in 0..Len(a)
      BY <1>3
    <2> QED
      BY <1>3, <2>1, EndsGrow
  <1>8. commandSize' \in 0..255
    <2>1. commandSize' = Byte(Ends(a)[Len(a)])
      BY <1>1, <1>3, SizeComputed
    <2>2. Byte(Ends(a)[Len(a)]) \in Nat /\ Byte(Ends(a)[Len(a)]) < 256
      BY <1>7, ByteNat
    <2>3. \A v \in Nat : v < 256 => v \in 0..255
      OBVIOUS
    <2> QED
      BY <2>1, <2>2, <2>3, ZenonT(30)
  <1>9. Entering'
    <2>1. Laying(atts, typed)' /\ (x = Len(typed) + 1)'
      BY <1>1, <1>4, <1>5
    <2>2. (currentPos = EndOf(atts, typed, Len(typed)))'
      BY <1>1, <1>4, <1>5, <1>6
    <2>3. (top \in Nat /\ top <= Ends(atts)[Len(atts)])'
      BY <1>1, <1>4, <1>7
    <2>4. (commandSize = SizeOfInput(atts))'
      BY <1>1, <1>4
    <2> QED
      BY <2>1, <2>2, <2>3, <2>4 DEF Entering
  <1> QED
    BY <1>1, <1>2, <1>8, <1>9 DEF LineInv

\* An attribute that is asked for, and one more entry of typed for it.
LEMMA EnteringGoesOn ==
    ASSUME LineInv, cmd # 0, x <= Len(atts), NEW e \in Entry, NEW stop \in Nat,
           \/ e.at = Start(EndOf(atts, typed, Len(typed)), atts[x])
           \/ WideList(atts[x]) /\ e.at = EndOf(atts, typed, Len(typed)),
           stop <= e.at + Room(atts[x]),
           typed' = Append(typed, e), x' = x + 1,
           currentPos' = e.at + Room(atts[x]),
           top' \in {top, Max({top, stop})},
           UNCHANGED <<cmd, commandSize>>
    PROVE  LineInv'
  <1> DEFINE a == atts
             t == typed
             n == Len(typed)
             u == Append(typed, e)
             last == Ends(a)[Len(a)]
  <1>1. /\ Entering /\ Laying(a, t) /\ n \in Nat /\ Len(a) \in Nat /\ x = n + 1 /\ n < Len(a)
        /\ last \in Nat /\ top \in Nat /\ top <= last
    BY Entered
  <1>2. /\ cmd' = cmd /\ commandSize' = commandSize /\ atts' = a
    BY DEF atts
  <1>3. /\ typed' = u /\ x' = n + 2 /\ currentPos' = e.at + Room(a[n + 1])
        /\ stop <= e.at + Room(a[n + 1])
    BY <1>1
  <1>4. /\ Laying(a, u) /\ Len(u) = n + 1
        /\ EndOf(a, u, n + 1) = e.at + Room(a[n + 1])
        /\ e.at + Room(a[n + 1]) <= last
    BY <1>1, LayingMore
  <1>5. e.at + Room(a[n + 1]) \in Nat
    <2>1. n + 1 \in 0..Len(u)
      BY <1>1, <1>4
    <2> QED
      BY <1>4, <2>1, PlacedNat, ZenonT(60)
  <1>6. top' \in Nat /\ top' <= last
    <2>1. Max({top, stop}) \in {top, stop}
      BY <1>1, MaxOfTwo
    <2>2. top' = top \/ top' = stop
      BY <2>1
    <2> HIDE DEF last
    <2> QED
      BY <1>1, <1>3, <1>4, <1>5, <2>2
  <1> HIDE DEF a, t, n, u, last
  <1>7. Entering'
    <2>1. Laying(atts, typed)' /\ (x = Len(typed) + 1)'
      BY <1>1, <1>2, <1>3, <1>4
    <2>2. (currentPos = EndOf(atts, typed, Len(typed)))'
      BY <1>2, <1>3, <1>4
    <2>3. (top \in Nat /\ top <= Ends(atts)[Len(atts)])'
      BY <1>2, <1>6 DEF last
    <2>4. (commandSize = SizeOfInput(atts))'
      <3>1. commandSize = SizeOfInput(a)
        BY <1>1 DEF Entering, a
      <3> QED
        BY <1>2, <3>1
    <2> QED
      BY <2>1, <2>2, <2>3, <2>4 DEF Entering
  <1> QED
    BY <1>2, <1>7 DEF LineInv

\* A value is put at the place its width asks for.
LEMMA AttributeTyped ==
    ASSUME LineInv, TypeAttribute
    PROVE  LineInv'
  <1> DEFINE n == Len(typed)
             end == EndOf(atts, typed, n)
             pos == currentPos + Padding(atts[x], 1)
  <1>1. cmd # 0 /\ x <= Len(atts) /\ atts[x].isList = 0
    BY DEF TypeAttribute
  <1>2. /\ Entering /\ atts \in Seq(Attribute) /\ Laying(atts, typed)
        /\ n \in Nat /\ Len(atts) \in Nat /\ x = n + 1 /\ n < Len(atts) /\ end \in Nat
    BY <1>1, Entered
  <1>3. atts[x] \in Attribute
    BY <1>1, <1>2
  <1>4. Room(atts[x]) = atts[x].size /\ atts[x].size \in Nat
    BY <1>1, <1>3, RoomNat DEF Attribute
  <1> HIDE DEF n, end
  <1>5. pos = Start(end, atts[x]) /\ pos \in Nat
    <2>1. currentPos = end \/ currentPos = Start(end, atts[x])
      BY <1>2 DEF Entering, end, n
    <2>2. CASE atts[x].size = 2
      <3>1. Start(end, atts[x]) = Up(end) /\ pos = Up(currentPos)
        BY <2>2 DEF Start, Padding, Up
      <3> HIDE DEF pos
      <3>2. CASE currentPos = end
        BY <1>2, <3>1, <3>2, UpNat
      <3>3. CASE currentPos = Up(end)
        BY <1>2, <3>1, <3>3, UpNat
      <3> QED
        BY <2>1, <3>1, <3>2, <3>3
    <2>3. CASE atts[x].size # 2
      <3>1. Start(end, atts[x]) = end /\ pos = currentPos + 0
        BY <2>3 DEF Start, Padding
      <3> QED
        BY <1>2, <2>1, <3>1
    <2> QED
      BY <2>2, <2>3
  <1>6. PICK value \in Values : typed' = Append(typed, [at |-> pos, value |-> value])
    BY DEF TypeAttribute
  <1>7. value \in Nat
    <2>1. CASE x < Len(atts) /\ atts[x + 1].isList > 0
      <3>1. atts[x + 1].isList \in Nat
        <4>1. x + 1 \in 1..Len(atts)
          BY <1>2, <2>1
        <4>2. atts[x + 1] \in Attribute
          BY <1>2, <4>1
        <4> QED
          BY <4>2 DEF Attribute
      <3>2. value \in UpTo(ListLengths, atts[x + 1].isList)
        BY <1>6, <2>1 DEF Values
      <3> QED
        BY <2>1, <3>1, <3>2, LengthsAreNat DEF UpTo
    <2>2. CASE ~(x < Len(atts) /\ atts[x + 1].isList > 0)
      BY <1>6, <2>2 DEF Values
    <2> QED
      BY <2>1, <2>2
  <1> DEFINE e == [at |-> pos, value |-> value]
             stop == pos + atts[x].size
  <1>8. /\ x' = x + 1 /\ currentPos' = stop /\ top' = Max({top, stop})
        /\ UNCHANGED <<cmd, commandSize>>
    BY DEF TypeAttribute
  <1> HIDE DEF pos
  <1>9. e \in Entry /\ e.at = pos
    BY <1>5, <1>7 DEF Entry
  <1>10. /\ stop \in Nat /\ stop <= e.at + Room(atts[x]) /\ currentPos' = e.at + Room(atts[x])
         /\ e.at = Start(EndOf(atts, typed, Len(typed)), atts[x])
    BY <1>4, <1>5, <1>8, <1>9 DEF end, n
  <1>11. typed' = Append(typed, e) /\ top' \in {top, Max({top, stop})}
    BY <1>6, <1>8
  <1> HIDE DEF e, stop
  <1> QED
    BY <1>1, <1>8, <1>9, <1>10, <1>11, EnteringGoesOn

\* A list has room for as many entries as its type allows, however few are typed.
LEMMA ListTyped ==
    ASSUME LineInv, TypeList
    PROVE  LineInv'
  <1> DEFINE n == Len(typed)
             end == EndOf(atts, typed, n)
             listLen == typed[x - 1].value
             pos == currentPos + Padding(atts[x], listLen)
             size == atts[x].size
             most == atts[x].isList
  <1>1. cmd # 0 /\ x <= Len(atts) /\ most > 0 /\ listLen < most
    BY DEF TypeList
  <1>2. /\ Entering /\ atts \in Seq(Attribute) /\ Laying(atts, typed)
        /\ n \in Nat /\ Len(atts) \in Nat /\ x = n + 1 /\ n < Len(atts) /\ end \in Nat
        /\ Sensible(atts, Functions[cmd].struct)
    BY <1>1, Entered
  <1>3. most \in Nat /\ size \in {1, 2} /\ x > 1 /\ x \in 1..Len(atts)
    <2>1. x \in 1..Len(atts)
      BY <1>1, <1>2
    <2>2. atts[x] \in Attribute
      BY <1>2, <2>1
    <2> QED
      BY <1>1, <1>2, <2>1, <2>2 DEF Sensible, ListsAsked, Attribute
  <1>4. listLen \in Nat
    <2>1. typed \in Seq(Entry) /\ x - 1 \in 1..n
      BY <1>2, <1>3 DEF Laying
    <2>2. typed[x - 1] \in Entry
      BY <2>1
    <2> QED
      BY <2>2 DEF Entry
  <1>5. Room(atts[x]) = size * most
    BY <1>1, <1>3 DEF Room
  <1>6. currentPos = end
    BY <1>1, <1>2 DEF Entering
  <1>7. /\ x' = x + 1 /\ currentPos' = pos + Room(atts[x])
        /\ typed' = Append(typed, [at |-> pos, value |-> 0])
        /\ top' = IF listLen > 0 THEN Max({top, pos + listLen * size}) ELSE top
        /\ UNCHANGED <<cmd, commandSize>>
    BY DEF TypeList
  <1> DEFINE e == [at |-> pos, value |-> 0]
             stop == pos + listLen * size
  <1> HIDE DEF n, end, listLen
  <1>8. /\ \/ pos = Start(end, atts[x])
           \/ WideList(atts[x]) /\ pos = end
        /\ pos \in Nat
    <2>1. CASE size = 2 /\ listLen > 0
      <3>1. pos = Up(end) /\ Start(end, atts[x]) = Up(end)
        BY <1>6, <2>1 DEF Padding, Start, Up
      <3> QED
        BY <1>2, <3>1, UpNat
    <2>2. CASE size = 2 /\ ~(listLen > 0)
      <3>1. pos = end + 0 /\ WideList(atts[x])
        BY <1>1, <1>6, <2>2 DEF Padding, WideList
      <3> QED
        BY <1>2, <3>1
    <2>3. CASE size # 2
      <3>1. pos = end + 0 /\ Start(end, atts[x]) = end
        BY <1>6, <2>3 DEF Padding, Start
      <3> QED
        BY <1>2, <3>1
    <2> QED
      BY <2>1, <2>2, <2>3
  <1> HIDE DEF pos, size, most
  <1>9. listLen * size \in Nat /\ size * most \in Nat /\ listLen * size <= size * most
    <2>1. CASE size = 1
      BY <1>1, <1>3, <1>4, <2>1
    <2>2. CASE size = 2
      BY <1>1, <1>3, <1>4, <2>2
    <2> QED
      BY <1>3, <2>1, <2>2
  <1>10. e \in Entry /\ e.at = pos
    BY <1>8 DEF Entry
  <1>11. /\ stop \in Nat /\ stop <= e.at + Room(atts[x]) /\ currentPos' = e.at + Room(atts[x])
    BY <1>5, <1>7, <1>8, <1>9, <1>10
  <1>12. \/ e.at = Start(EndOf(atts, typed, Len(typed)), atts[x])
         \/ WideList(atts[x]) /\ e.at = EndOf(atts, typed, Len(typed))
    BY <1>8, <1>10 DEF end, n
  <1>13. typed' = Append(typed, e) /\ top' \in {top, Max({top, stop})}
    BY <1>7
  <1> HIDE DEF e, stop
  <1> QED
    BY <1>1, <1>7, <1>10, <1>11, <1>12, <1>13, EnteringGoesOn

\* The position goes back to where the length was put, the padding before it is kept.
LEMMA LengthAskedAgain ==
    ASSUME LineInv, AskLengthAgain
    PROVE  LineInv'
  <1> DEFINE a == atts
             t == typed
             n == Len(typed)
             u == Front(typed)
             m == n - 1
  <1>1. cmd # 0 /\ x <= Len(a) /\ a[x].isList > 0
    BY DEF AskLengthAgain
  <1>2. /\ Entering /\ a \in Seq(Attribute) /\ Laying(a, t)
        /\ n \in Nat /\ Len(a) \in Nat /\ x = n + 1 /\ n < Len(a)
        /\ Sensible(a, Functions[cmd].struct)
        /\ top \in Nat /\ top <= Ends(a)[Len(a)]
    BY <1>1, Entered
  <1>3. x \in 1..Len(a) /\ n > 0 /\ m \in Nat /\ n \in 1..n /\ n = m + 1
        /\ a[n].isList = 0
    <2>1. x \in 1..Len(a)
      BY <1>1, <1>2
    <2>2. x > 1 /\ a[x - 1].isList = 0
      BY <1>1, <2>1, <1>2 DEF Sensible, ListsAsked
    <2> QED
      BY <1>2, <2>1, <2>2
  <1>4. /\ Laying(a, u) /\ Len(u) = m
        /\ EndOf(a, u, m) = EndOf(a, t, m)
    BY <1>2, <1>3, LayingLess, ZenonT(60)
  <1>5. /\ x' = n /\ typed' = u /\ currentPos' = currentPos - a[n].size
        /\ cmd' = cmd /\ commandSize' = commandSize /\ top' = top
    BY <1>2 DEF AskLengthAgain
  <1>6. atts' = a
    BY <1>5 DEF atts
  <1>7. a[n] \in Attribute /\ t[n].at \in Nat /\ EndOf(a, t, n) = t[n].at + Room(a[n])
    BY <1>2, <1>3, PlacedNat
  <1>8. Room(a[n]) = a[n].size /\ a[n].size \in Nat
    BY <1>3, <1>7, RoomNat DEF Attribute
  <1>9. t[n].at = Start(EndOf(a, t, m), a[n])
    <2>1. Placed(a, t, n)
      BY <1>2, <1>3 DEF Laying
    <2> QED
      BY <1>3, <2>1 DEF Placed, WideList
  <1>10. currentPos = EndOf(a, t, n)
    BY <1>1, <1>2 DEF Entering
  <1> HIDE DEF a, t, n, u, m
  <1>11. currentPos' = Start(EndOf(a, u, m), a[n])
    BY <1>4, <1>5, <1>7, <1>8, <1>9, <1>10
  <1>12. Entering'
    <2>1. Laying(atts, typed)' /\ (x = Len(typed) + 1)'
      BY <1>3, <1>4, <1>5, <1>6
    <2>2. (x <= Len(atts) /\ atts[x].isList = 0)'
      BY <1>2, <1>3, <1>5, <1>6
    <2>3. (currentPos = Start(EndOf(atts, typed, Len(typed)), atts[x]))'
      BY <1>4, <1>5, <1>6, <1>11
    <2>4. (top \in Nat /\ top <= Ends(atts)[Len(atts)])'
      BY <1>2, <1>5, <1>6
    <2>5. (commandSize = SizeOfInput(atts))'
      <3>1. commandSize = SizeOfInput(a)
        BY <1>2 DEF Entering, a
      <3> QED
        BY <1>5, <1>6, <3>1
    <2> QED
      BY <2>1, <2>2, <2>3, <2>4, <2>5 DEF Entering
  <1> QED
    BY <1>5, <1>12 DEF LineInv

\* The buffer is handed over.
LEMMA NothingEntered ==
    ASSUME cmd' = 0, commandSize' = 0
    PROVE  LineInv'
  <1>1. Len(commands) \in Nat
    BY TableLength
  <1>2. 0 \in 0..Len(commands) /\ 0 \in 0..255
    BY <1>1
  <1> QED
    BY <1>2 DEF LineInv

\* Whatever the request functions do meanwhile.
LEMMA LineUntouched ==
    ASSUME LineInv, UNCHANGED lineVars
    PROVE  LineInv'
  <1>1. /\ cmd' = cmd /\ x' = x /\ currentPos' = currentPos /\ commandSize' = commandSize
        /\ typed' = typed /\ top' = top
    BY DEF lineVars
  <1>2. atts' = atts
    BY <1>1 DEF atts
  <1>3. Entering => Entering'
    BY <1>1, <1>2 DEF Entering
  <1> QED
    BY <1>1, <1>3 DEF LineInv

\* Each step of the console and of the request functions keeps the invariant.
LEMMA LineInvKept == LineInv /\ [LineNext]_<<vars, lineVars>> => LineInv'
  <1> SUFFICES ASSUME LineInv, [LineNext]_<<vars, lineVars>>
               PROVE  LineInv'
    OBVIOUS
  <1>1. CASE \E i \in DOMAIN commands : Choose(i)
    BY <1>1, EnteringBegins
  <1>2. CASE TypeAttribute
    BY <1>2, AttributeTyped
  <1>3. CASE AskLengthAgain
    BY <1>3, LengthAskedAgain
  <1>4. CASE TypeList
    BY <1>4, ListTyped
  <1>5. CASE SendCmd
    BY <1>5, NothingEntered DEF SendCmd
  <1>6. CASE UNCHANGED lineVars
    BY <1>6, LineUntouched
  <1> QED
    BY <1>1, <1>2, <1>3, <1>4, <1>5, <1>6 DEF LineNext

\* What inputCmd keeps true while it asks for a command's attributes, and sendCmd ends.
THEOREM LineInvariant == LineSpec => []LineInv
  <1>1. LineInit => LineInv
    <2> SUFFICES ASSUME LineInit PROVE LineInv
      OBVIOUS
    <2>1. Len(commands) \in Nat
      BY TableLength
    <2>2. 0 \in 0..Len(commands) /\ 0 \in 0..255
      BY <2>1
    <2> QED
      BY <2>2 DEF LineInit, LineInv
  <1> QED
    BY <1>1, LineInvKept, PTL DEF LineSpec

\* Every attribute lies where the struct has its member, for each of the 72 commands and
\* whatever was typed, but for what follows an empty list of 16-bit entries in an odd
\* place (FieldsInPlace).
THEOREM ConsoleFieldsInPlace == LineSpec => []FieldsInPlace
  <1>1. LineInv => FieldsInPlace
    <2> SUFFICES ASSUME LineInv, cmd # 0, NEW k \in DOMAIN typed
                 PROVE  typed[k].at = Offsets(Functions[cmd].struct)[k]
                            <=> ~\E j \in 1..k : Unaligned(j)
      BY DEF FieldsInPlace
    <2> DEFINE struct == Functions[cmd].struct
    <2>1. Laying(atts, typed) /\ Sensible(atts, struct)
      BY Entered
    <2>2. ListsLast(atts) /\ Agree(atts, struct) /\ k \in 1..Len(typed)
      BY <2>1 DEF Sensible, Laying
    <2> HIDE DEF struct
    <2>3. typed[k].at = Offsets(struct)[k] <=> ~\E j \in 1..k : Skewed(atts, typed, j)
      BY <2>1, <2>2, PlacedWhere
    <2>4. \A j \in 1..k : Unaligned(j) <=> Skewed(atts, typed, j)
      BY DEF Unaligned, Skewed, WideList
    <2> QED
      BY <2>3, <2>4 DEF struct
  <1> QED
    BY <1>1, LineInvariant, PTL

\* Nothing is written outside the buffer, for each command whose size a uint8_t can hold
\* (InsideInput).
THEOREM ConsoleInsideInput == LineSpec => []InsideInput
  <1>1. TypeOK /\ LineInv => InsideInput
    <2> SUFFICES ASSUME TypeOK, LineInv PROVE InsideInput
      OBVIOUS
    <2>1. cmd \in 0..Len(commands) /\ commandSize \in 0..255
      BY DEF LineInv
    <2>2. ASSUME cmd # 0
          PROVE  /\ Len(atts) = Len(Functions[cmd].struct)
                 /\ x = Len(typed) + 1 /\ x \in 1..(Len(atts) + 1)
                 /\ Whole(atts) < 256 => top <= commandSize
      <3>1. /\ Entering /\ Sensible(atts, Functions[cmd].struct) /\ x = Len(typed) + 1
            /\ Len(typed) \in Nat /\ Len(atts) \in Nat /\ Len(typed) <= Len(atts)
            /\ top <= Ends(atts)[Len(atts)]
        BY <2>2, Entered
      <3>2. Len(atts) = Len(Functions[cmd].struct) /\ Few(atts) /\ Tight(atts)
        BY <3>1 DEF Sensible, Agree
      <3>3. x \in 1..(Len(atts) + 1)
        BY <3>1
      <3>4. commandSize = SizeOfInput(atts)
        BY <3>1 DEF Entering
      <3>5. Whole(atts) < 256 => SizeOfInput(atts) = Ends(atts)[Len(atts)]
        BY <3>2, SizeSuffices
      <3> QED
        BY <3>1, <3>2, <3>3, <3>4, <3>5
    <2> QED
      BY <2>1, <2>2 DEF InsideInput, LineTypeOK
  <1> QED
    BY <1>1, LineInvariant, RequestTypeCorrect, PTL
=============================================================================

--------------------------- MODULE SystemManagement ---------------------------
(***************************************************************************)
(* The system management SM of one port (iolink_sm.c): it has the DL wake  *)
(* the device up, compares the device with the configuration and takes     *)
(* both to PREOPERATE and OPERATE.  One action per job of the main thread, *)
(* and per row of the state table in between.  The direct parameters that  *)
(* the SM reads or writes one after the other are one block.               *)
(***************************************************************************)
EXTENDS DlModes, DataStorage

CONSTANTS
    SlowIds,        \* devices slower than the configured cycle time
    NumberedIds,    \* devices with a serial number, which the CM never configures
    InterleaveIds,  \* devices that OPERATE with M-sequence TYPE_1_1
    Vendor,         \* the vendor of an identity
    TestVendor      \* 0x014E

VARIABLES
    sm,         \* sm->state
    smCfg,      \* sm->config_paramlist
    smReal,     \* sm->real_paramlist: identity and revision read from the device
    smAux       \* CompRetry, error_event (is it set?) and dl_addr

smVars == <<sm, smCfg, smReal, smAux>>

SmStates ==
    {"PortInactive", "waitonDLPreoperate", "checkSerNum", "wait", "SMOperate",
     "InspectionFault", "waitonDLOperate", "DIDO", "ReadComParameter", "CheckCompV10",
     "CheckVxy", "CheckComp", "RestartDevice", "waitForFallback", "write_master_cycl",
     "wait_devmode_cnf"}

SmTypeOK ==
    /\ sm \in SmStates /\ smCfg \in Cfg
    /\ smReal \in [id : Ids \cup {NoId}, rev : Revs]
    /\ smAux \in [retry : BOOLEAN, error : BOOLEAN, addr : Blocks]

(* iolink_sm_init *)
SmInit ==
    /\ sm = "PortInactive" /\ smCfg = NoCfg
    /\ smReal = [id |-> NoId, rev |-> "none"]
    /\ smAux = [retry |-> FALSE, error |-> FALSE, addr |-> "WURQ"]

(* The revision that the validation and backup level configures. *)
CfgRev(cfg) ==
    CASE cfg.backup = "CHECK_NO"  -> "none"
      [] cfg.backup = "CHECK_V10" -> "V10"
      [] OTHER                    -> "V11"

-----------------------------------------------------------------------------
(* What the rows of the state table do.                                    *)

(* Enter the state with the DL as the requests leave it, and post jobs. *)
SmEnter(state, d, posts) ==
    sm' = state /\ dl' = d /\ TakeAndPost(posts) /\ UNCHANGED ds

(* Nothing is done in the state. *)
SmIgnore == SmEnter(sm, dl, <<>>) /\ UNCHANGED <<smCfg, smReal, smAux>>

(* sm_DL_SetMode_req_operate: M-sequence TYPE_1_1 of the device "id"       *)
(* switches the data storage off.                                          *)
SmSetOperate(state, id, posts) ==
    /\ sm' = state /\ dl' = DL_SetMode_req(dl, "OPERATE") /\ TakeAndPost(posts)
    /\ ds' = IF id \in InterleaveIds THEN [ds EXCEPT !.enable = FALSE] ELSE ds

(* sm_DL_Read_Write_req: the DL may confirm at once that it cannot. *)
SmBlock(state, rw, block, aux) ==
    /\ smAux' = [aux EXCEPT !.addr = block]
    /\ SmEnter(state, DL_ReadWrite_req(dl, rw),
               IF BlockAccepted(dl) THEN <<>> ELSE <<BlockCnf(rw, block, "ERR", NoSnap)>>)

ReadBlock(state, block)  == SmBlock(state, "read", block, smAux)
WriteBlock(state, block) == SmBlock(state, "write", block, smAux)

(* sm_comlost *)
SmComlost(state) ==
    /\ SmEnter(state, DL_SetMode_req(dl, "INACTIVE"), <<Signal("COMLOST")>>)
    /\ UNCHANGED smAux

(* A mutant of ToInactive: the address of the last block is kept. *)
ToInactiveKeepsAddress(d) ==
    SmEnter("PortInactive", d, <<>>) /\ smAux' = [smAux EXCEPT !.error = FALSE]

(* sm_portinactive *)
ToInactive(d) ==
    /\ SmEnter("PortInactive", d, <<>>)
    /\ smAux' = [smAux EXCEPT !.addr = "WURQ", !.error = FALSE]

(* The event DL_Mode_COMLOST. *)
EventModeComlost ==
    \/ /\ sm \in {"wait", "SMOperate", "InspectionFault", "waitonDLOperate", "waitForFallback"}
       /\ SmComlost("PortInactive")
       /\ UNCHANGED <<smCfg, smReal>>
    \/ /\ sm = "RestartDevice"
       /\ SmEnter("CheckComp", dl, <<>>)
       /\ UNCHANGED <<smCfg, smReal, smAux>>
    \/ /\ sm \notin {"wait", "SMOperate", "InspectionFault", "waitonDLOperate",
                     "waitForFallback", "RestartDevice"}
       /\ SmIgnore

(* The event CNF_COMLOST. *)
CompatStates == {"ReadComParameter", "CheckCompV10", "CheckVxy", "CheckComp"}

EventCnfComlost ==
    \/ /\ sm \in CompatStates \cup {"waitonDLPreoperate", "checkSerNum", "waitonDLOperate",
                                    "write_master_cycl", "wait_devmode_cnf"}
       /\ SmComlost("PortInactive")
       /\ UNCHANGED <<smCfg, smReal>>
    \/ /\ sm = "RestartDevice"
       /\ SmComlost("RestartDevice")
       /\ UNCHANGED <<smCfg, smReal>>
    \/ /\ sm \in {"PortInactive", "wait", "SMOperate", "InspectionFault", "DIDO", "waitForFallback"}
       /\ SmIgnore

-----------------------------------------------------------------------------
(* SM_SetPortConfig_req.                                                   *)

Configurable ==
    sm \in {"PortInactive", "wait", "SMOperate", "InspectionFault", "DIDO", "checkSerNum"}

(* sm_portinactive; a wake-up left over in the PL gives way to the new one.*)
SmCfgCom(cfg) ==
    /\ cfg.mode \in {"IOL_MAN", "IOL_AUTO"}
    /\ ToInactive(DL_SetMode_req([dl EXCEPT !.wurq = FALSE], "STARTUP"))

(* sm_dido; checkSerNum has no row. *)
SmCfgDiDo(cfg) ==
    /\ cfg.mode = "DI_DO"
    /\ UNCHANGED smAux
    /\ IF sm = "checkSerNum" THEN SmEnter(sm, dl, <<>>)
       ELSE SmEnter("DIDO", DL_SetMode_req([dl EXCEPT !.wurq = FALSE], "INACTIVE"), <<>>)

(* sm_portinactive, or sm_fallback: the device is first sent back. *)
SmCfgInactive(cfg) ==
    /\ cfg.mode \notin {"IOL_MAN", "IOL_AUTO", "DI_DO"}
    /\ IF sm \in {"PortInactive", "DIDO"}
       THEN ToInactive(DL_SetMode_req(dl, "INACTIVE"))
       ELSE /\ SmEnter("waitForFallback", DL_Write_Devicemode_req(dl, "FALLBACK"),
                       DevmodeAnswer(dl, "FALLBACK"))
            /\ UNCHANGED smAux

(* sm_setportcfg_req_cb *)
SmSetPortConfig ==
    LET cfg == Head(mbox).cfg
    IN  /\ Take("SM_CFG")
        /\ Configurable
        /\ smCfg' = cfg
        /\ SmCfgCom(cfg) \/ SmCfgDiDo(cfg) \/ SmCfgInactive(cfg)
        /\ UNCHANGED smReal

(* The other states do not allow it, and the request gets no answer. *)
SmConfigDropped ==
    /\ Take("SM_CFG")
    /\ ~Configurable
    /\ SmIgnore

-----------------------------------------------------------------------------
(* sm_DL_Mode_ind_cb.                                                      *)

ModeJobs == {"MODE_INACTIVE", "MODE_STARTUP", "MODE_PREOPERATE", "MODE_OPERATE"}

(* PortInactive: sm_readcomparameter, or the wake-up failed and the        *)
(* application is to start the port again.                                 *)
ModeWhenInactive ==
    /\ sm = "PortInactive"
    /\ \/ /\ Take("MODE_STARTUP")
          /\ SmBlock("ReadComParameter", "read", "COMM", [smAux EXCEPT !.retry = FALSE])
       \/ /\ Take("MODE_INACTIVE")
          /\ SmEnter(sm, dl, IF smCfg.mode = "DEACTIVE" THEN <<>> ELSE <<Signal("COMLOST")>>)
          /\ UNCHANGED smAux
       \/ /\ Head(mbox).type \in {"MODE_PREOPERATE", "MODE_OPERATE"}
          /\ SmEnter(sm, dl, <<>>)
          /\ UNCHANGED smAux
    /\ UNCHANGED <<smCfg, smReal>>

(* sm_checkSerNum and sm_smoperate_ind for the mode they wait for. *)
ModeAwaited ==
    /\ \/ /\ sm = "waitonDLPreoperate" /\ Take("MODE_PREOPERATE")
          /\ SmEnter("checkSerNum", dl, <<ReadReq("SERNUM")>>)
       \/ /\ sm = "waitonDLOperate" /\ Take("MODE_OPERATE")
          /\ SmEnter("checkSerNum", dl, <<ReadReq("SERNUM")>>)
       \/ /\ sm = "SMOperate" /\ Take("MODE_OPERATE")
          /\ SmEnter(sm, dl, <<Signal("OPERATE")>>)
    /\ UNCHANGED <<smCfg, smReal, smAux>>

(* A mode nobody waits for is as if communication were lost. *)
ModeUnexpected ==
    \/ /\ sm \in {"waitonDLPreoperate", "SMOperate", "waitonDLOperate", "InspectionFault"}
       /\ ~(sm = "waitonDLPreoperate" /\ Take("MODE_PREOPERATE"))
       /\ ~(sm \in {"SMOperate", "waitonDLOperate"} /\ Take("MODE_OPERATE"))
       /\ SmIgnore
    \/ /\ sm \notin {"PortInactive", "waitonDLPreoperate", "SMOperate", "waitonDLOperate",
                     "InspectionFault"}
       /\ EventModeComlost

SmModeInd ==
    /\ mbox # <<>>
    /\ \/ /\ Head(mbox).type \in ModeJobs
          /\ ModeWhenInactive \/ ModeAwaited \/ ModeUnexpected
       \/ Take("MODE_COMLOST") /\ sm \in {"PortInactive", "DIDO"} /\ SmIgnore
       \/ Take("MODE_COMLOST") /\ sm \notin {"PortInactive", "DIDO"} /\ EventModeComlost

-----------------------------------------------------------------------------
(* sm_DL_Read_cnf_cb.                                                      *)

(* The read nobody asked for after a wake-up is ignored. *)
ReadIgnored == Head(mbox).index = "WURQ" /\ SmIgnore

(* sm_DL_Read_cnf_read_com_param *)
ComParameterRead ==
    /\ sm = "ReadComParameter"
    /\ IF smReal'.rev = "V10" THEN ReadBlock("CheckCompV10", "IDENT")
                             ELSE WriteBlock("CheckVxy", "MASTER_IDENT")

(* sm_do_check_comp *)
Same == smCfg.backup = "CHECK_NO" \/ smCfg.id = smReal'.id

(* A mutant of CheckCompDone: the identity is not compared. *)
CheckCompDoneAnyDevice == WriteBlock("waitonDLPreoperate", "PREOP")

CheckCompDone ==
    LET slow == smReal'.id \in SlowIds
        kin  == Vendor[smCfg.id] = Vendor[smReal'.id]
    IN  \/ ~slow /\ Same /\ WriteBlock("waitonDLPreoperate", "PREOP")
        \/ /\ ~slow /\ ~Same /\ kin /\ ~smAux.retry
           /\ SmBlock("RestartDevice", "write", "RESTART", [smAux EXCEPT !.retry = TRUE])
        \/ /\ slow \/ (~Same /\ (~kin \/ smAux.retry))
           /\ SmBlock("InspectionFault", "write", "PREOP", [smAux EXCEPT !.error = TRUE])

(* sm_do_check_comp_v10, sm_inspectFault *)
CheckCompV10Done ==
    LET slow == smReal'.id \in SlowIds
    IN  \/ ~slow /\ Same /\ WriteBlock("waitonDLOperate", "OPERATE")
        \/ /\ slow \/ ~Same
           /\ IF slow
              THEN SmEnter("InspectionFault", DL_SetMode_req(dl, "INACTIVE"), <<Signal("FAULT")>>)
              ELSE SmSetOperate("InspectionFault", smReal'.id, <<Signal("FAULT")>>)
           /\ UNCHANGED smAux

(* sm_DL_Read_cnf_check_comp *)
IdentRead ==
    \/ /\ sm \in {"CheckComp", "CheckCompV10"} /\ Head(mbox).index # "IDENT"
       /\ ReadBlock(sm, "IDENT")
    \/ sm = "CheckComp" /\ Head(mbox).index = "IDENT" /\ CheckCompDone
    \/ sm = "CheckCompV10" /\ Head(mbox).index = "IDENT" /\ CheckCompV10Done

Restarted == sm = "RestartDevice" /\ ReadBlock("ReadComParameter", "COMM")

SmReadCnf ==
    LET index == Head(mbox).index
        snap  == Head(mbox).snap
    IN  /\ Take("DL_READ_CNF")
        /\ \/ Head(mbox).res # "OK" /\ EventCnfComlost
           \/ /\ Head(mbox).res = "OK"
              /\ smReal' = CASE index = "COMM"  -> [smReal EXCEPT !.rev = snap.rev]
                             [] index = "IDENT" -> [smReal EXCEPT !.id = snap.id]
                             [] OTHER           -> smReal
              /\ \/ ReadIgnored
                 \/ /\ index # "WURQ"
                    /\ ComParameterRead \/ IdentRead \/ Restarted
                    /\ UNCHANGED smCfg

-----------------------------------------------------------------------------
(* sm_DL_Write_cnf_cb.                                                     *)

(* sm_DL_Write_cnf_checkvxy *)
VxyWritten ==
    LET ok == CfgRev(smCfg) \in {"none", smReal.rev}
    IN  /\ sm = "CheckVxy"
        /\ \/ ok /\ ReadBlock("CheckComp", "IDENT")
           \/ /\ ~ok /\ ~smAux.retry
              /\ SmBlock("RestartDevice", "write", "RESTART", [smAux EXCEPT !.retry = TRUE])
           \/ /\ ~ok /\ smAux.retry
              /\ SmBlock("InspectionFault", "write", "PREOP", [smAux EXCEPT !.error = TRUE])

(* sm_DL_Write_cnf_restart_dev: the dummy cycle *)
RestartWritten == sm = "RestartDevice" /\ ReadBlock(sm, "MIN")

(* sm_inspectFault for error_event; a fault of a V1.0 device and a wrong   *)
(* serial number are reported without it, and have no row here.            *)
FaultWritten ==
    /\ sm = "InspectionFault"
    /\ IF smAux.error THEN SmEnter(sm, DL_SetMode_req(dl, "PREOPERATE"), <<Signal("FAULT")>>)
                      ELSE SmEnter(sm, dl, <<>>)
    /\ UNCHANGED smAux

PreopWritten ==
    /\ sm = "waitonDLPreoperate"
    /\ SmEnter(sm, DL_SetMode_req(dl, "PREOPERATE"), <<>>)
    /\ UNCHANGED smAux

(* sm_DL_Write_cnf_waiton_operate *)
OperateWritten ==
    /\ sm = "waitonDLOperate"
    /\ SmSetOperate(sm, smReal.id, <<>>)
    /\ UNCHANGED smAux

SmWriteCnf ==
    /\ Take("DL_WRITE_CNF")
    /\ \/ Head(mbox).res # "OK" /\ EventCnfComlost
       \/ /\ Head(mbox).res = "OK"
          /\ VxyWritten \/ RestartWritten \/ FaultWritten \/ PreopWritten \/ OperateWritten
          /\ UNCHANGED <<smCfg, smReal>>

(* CC_ASSERT (0): an answer for a state that asked for none. *)
SmAsserts ==
    \/ /\ Take("DL_READ_CNF") /\ Head(mbox).res = "OK" /\ Head(mbox).index # "WURQ"
       /\ sm \notin {"ReadComParameter", "CheckComp", "CheckCompV10", "RestartDevice"}
    \/ /\ Take("DL_WRITE_CNF") /\ Head(mbox).res = "OK"
       /\ sm \notin {"waitonDLPreoperate", "InspectionFault", "CheckVxy", "RestartDevice",
                     "waitonDLOperate"}

-----------------------------------------------------------------------------
(* The serial number, and the way to OPERATE.                              *)

(* sm_AL_Read_cnf_cb, sm_check_sernum *)
SmSernumCnf ==
    /\ Take("SERNUM_CNF")
    /\ \/ /\ Head(mbox).res # "OK"
          /\ IF smReal.rev = "V11" THEN EventCnfComlost ELSE EventModeComlost
       \/ Head(mbox).res = "OK" /\ sm # "checkSerNum" /\ SmIgnore
       \/ /\ Head(mbox).res = "OK" /\ sm = "checkSerNum"
          /\ IF smCfg.backup = "CHECK_V10" /\ Head(mbox).snap.id \in NumberedIds
             THEN SmEnter("InspectionFault", dl, <<Signal("FAULT")>>)
             ELSE SmEnter("wait", dl, <<Signal("COMREADY")>>)
          /\ UNCHANGED <<smCfg, smReal, smAux>>

(* sm_operate_cb, sm_wr_master_cycl *)
SmOperate ==
    LET v10 == smReal.rev = "V10" /\ Vendor[smReal.id] = TestVendor
    IN  /\ Take("SM_OPERATE")
        /\ \/ sm # "wait" /\ SmIgnore
           \/ /\ sm = "wait"
              /\ IF v10 THEN SmEnter("SMOperate", dl, <<Signal("OPERATE")>>)
                 ELSE SmEnter("write_master_cycl", dl, <<WriteReq("CYCL", 0)>>)
              /\ UNCHANGED <<smCfg, smReal, smAux>>

(* sm_write_cycl_cnf_cb, sm_write_devmode *)
SmCyclCnf ==
    /\ Take("CYCL_CNF")
    /\ \/ Head(mbox).res # "OK" /\ EventCnfComlost
       \/ Head(mbox).res = "OK" /\ sm # "write_master_cycl" /\ SmIgnore
       \/ /\ Head(mbox).res = "OK" /\ sm = "write_master_cycl"
          /\ SmEnter("wait_devmode_cnf", DL_Write_Devicemode_req(dl, "OPERATE"),
                     DevmodeAnswer(dl, "OPERATE"))
          /\ UNCHANGED <<smCfg, smReal, smAux>>

(* sm_DL_Write_Devmode_cnf *)
SmDevmodeCnf ==
    LET ok == Head(mbox).res = "OK"
    IN  /\ Take("DEVMODE_CNF")
        /\ \/ /\ ok /\ sm = "wait_devmode_cnf"
              /\ SmSetOperate("SMOperate", smReal.id, <<>>)
              /\ UNCHANGED <<smCfg, smReal, smAux>>
           \/ /\ ok /\ sm = "waitForFallback"
              /\ ToInactive(DL_SetMode_req(dl, "INACTIVE"))
              /\ UNCHANGED <<smCfg, smReal>>
           \/ ~ok /\ sm = "wait_devmode_cnf" /\ EventCnfComlost
           \/ /\ sm # "wait_devmode_cnf" /\ ~(ok /\ sm = "waitForFallback")
              /\ EventModeComlost

SmJob ==
    \/ SmSetPortConfig \/ SmConfigDropped \/ SmModeInd \/ SmReadCnf \/ SmWriteCnf
    \/ SmSernumCnf \/ SmOperate \/ SmCyclCnf \/ SmDevmodeCnf
=============================================================================

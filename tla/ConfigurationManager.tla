------------------------- MODULE ConfigurationManager -------------------------
(***************************************************************************)
(* The configuration manager CM of one port (iolink_cm.c): it takes the    *)
(* port configuration of the application, has the system management SM     *)
(* start the port, lets the data storage DS back up or restore the         *)
(* parameters, and then has the SM go to OPERATE.  One action per job of   *)
(* the main thread.                                                        *)
(***************************************************************************)
EXTENDS PortJobs

VARIABLES
    cm,         \* cm->state
    cmCfg       \* cm->cfg_list: the configuration accepted last

cmVars == <<cm, cmCfg>>

CmStates == {"CheckPortMode", "SM_Startup", "DS_ParamManager", "PortFault",
             "WaitingOnOperate", "Port_Active", "Port_DIDO", "Port_Deactivated"}

CmTypeOK == cm \in CmStates /\ cmCfg \in Cfg

CmInit == cm = "Port_Deactivated" /\ cmCfg = NoCfg

CmEnter(state, posts) == cm' = state /\ TakeAndPost(posts)

-----------------------------------------------------------------------------
(* A new configuration: cm_check_mode, and what it leads to.  "keep" says  *)
(* that the data storage holds the set of the configured device            *)
(* (DS_Chk_Cfg).                                                           *)

(* cm_startup: DS_Delete unless kept, then set_port_config. *)
StartPort(cfg, keep) ==
    /\ cfg.mode \in {"IOL_MAN", "IOL_AUTO"}
    /\ cmCfg' = cfg
    /\ CmEnter("SM_Startup",
               (IF cfg.mode = "IOL_MAN" /\ keep THEN <<>> ELSE <<Signal("DS_DELETE")>>)
               \o <<CfgJob("DS_INIT", cfg), CfgJob("SM_CFG", cfg)>>)
    /\ UNCHANGED portId

(* cm_dido *)
StartDiDo(cfg) ==
    /\ cfg.mode = "DI_DO"
    /\ cmCfg' = cfg
    /\ portId' = NoId
    /\ CmEnter("Port_DIDO",
               <<Signal("DS_DELETE"), CfgJob("DS_INIT", cfg), CfgJob("SM_CFG", cfg)>>)

(* cm_deactivate *)
Deactivate(cfg) ==
    /\ cfg.mode = "DEACTIVE"
    /\ cmCfg' = cfg
    /\ portId' = NoId
    /\ CmEnter("Port_Deactivated", <<CfgJob("SM_CFG", NoCfg)>>)

(* cm_deactivate for a configuration that was refused: it is not copied,   *)
(* and the target mode of the SM is that of the one before.                *)
RefuseCfg(cfg) ==
    /\ cfg.mode = "UNKNOWN"
    /\ UNCHANGED cmCfg
    /\ portId' = NoId
    /\ CmEnter("Port_Deactivated",
               <<Signal("DS_DELETE"), CfgJob("SM_CFG", [NoCfg EXCEPT !.mode = cmCfg.mode])>>)

(* cm_cfg_change_ignore: the caller gets no answer. *)
CmCfgIgnored ==
    /\ Take("SMI_CFG")
    /\ cm = "DS_ParamManager"
    /\ TakeAndPost(<<>>)
    /\ UNCHANGED <<cmVars, portId>>

CmCfgChange(keep) ==
    LET cfg == Head(mbox).cfg
    IN  /\ Take("SMI_CFG")
        /\ cm # "DS_ParamManager"
        /\ StartPort(cfg, keep) \/ StartDiDo(cfg) \/ Deactivate(cfg) \/ RefuseCfg(cfg)

-----------------------------------------------------------------------------
(* Indications of the SM and the DS; "id" is the identity the SM read from *)
(* the device (iolink_get_paramlist), which init_port_info copies.         *)

(* cm_start_ds *)
CmComready(id) ==
    /\ Take("COMREADY")
    /\ IF cm = "SM_Startup"
       THEN portId' = id /\ CmEnter("DS_ParamManager", <<Signal("DS_STARTUP")>>)
       ELSE UNCHANGED <<cm, portId>> /\ TakeAndPost(<<>>)
    /\ UNCHANGED cmCfg

(* cm_port_fault *)
CmSmFault(id) ==
    /\ Take("FAULT")
    /\ IF cm = "SM_Startup"
       THEN portId' = id /\ CmEnter("PortFault", <<>>)
       ELSE UNCHANGED <<cm, portId>> /\ TakeAndPost(<<>>)
    /\ UNCHANGED cmCfg

(* cm_sm_operate; OD_Start and PD_Start are not part of this model. *)
CmOperate(id) ==
    /\ Take("OPERATE")
    /\ IF cm = "WaitingOnOperate"
       THEN portId' = id /\ CmEnter("Port_Active", <<>>)
       ELSE UNCHANGED <<cm, portId>> /\ TakeAndPost(<<>>)
    /\ UNCHANGED cmCfg

(* cm_comlost, which leaves it to the application to configure the port    *)
(* again, and cm_comlost_ignore.                                           *)
CmComlost ==
    /\ Take("COMLOST")
    /\ CmEnter(IF cm \in {"SM_Startup", "PortFault", "WaitingOnOperate", "Port_Active"}
               THEN "CheckPortMode" ELSE cm, <<>>)
    /\ UNCHANGED <<cmCfg, portId>>

(* cm_ds_ready, cm_ds_ready_ignore *)
CmDsReady ==
    /\ Take("DS_READY")
    /\ IF cm = "DS_ParamManager"
       THEN CmEnter("WaitingOnOperate", <<Signal("SM_OPERATE")>>)
       ELSE UNCHANGED cm /\ TakeAndPost(<<>>)
    /\ UNCHANGED <<cmCfg, portId>>

(* cm_ds_fault_cb, cm_port_fault: the DS never reports a communication     *)
(* error, so the branch for one is dead.                                   *)
CmDsFault(id) ==
    /\ Take("DS_FAULT")
    /\ IF cm \in {"DS_ParamManager", "WaitingOnOperate", "Port_Active"}
       THEN portId' = id /\ CmEnter("PortFault", <<>>)
       ELSE UNCHANGED <<cm, portId>> /\ TakeAndPost(<<>>)
    /\ UNCHANGED cmCfg

CmJob(id, keep) ==
    \/ CmCfgIgnored \/ CmCfgChange(keep) \/ CmComready(id) \/ CmSmFault(id)
    \/ CmOperate(id) \/ CmComlost \/ CmDsReady \/ CmDsFault(id)
=============================================================================

---------------------------- MODULE ProcessData ----------------------------
(***************************************************************************)
(* Process data of one port: the services PDIn, PDOut and PDInOut          *)
(* (iolink_pde.c), the PD handler, the OD handler and the command handler  *)
(* of the data link layer (iolink_dl.c), the inputs kept by the AL, and of *)
(* the SM and the CM what starts, stops and qualifies process data.        *)
(*                                                                         *)
(* Three threads meet here: the application calls the services and, by     *)
(* way of AL_Control_req, the command handler; the main thread runs the    *)
(* SM and the CM and asks for device modes; the DL thread exchanges one    *)
(* message per cycle.  Only the two buffers of process data are locked.    *)
(*                                                                         *)
(* Process data is not interleaved, no event is pending, no ISDU service   *)
(* is under way.  The start-up to PREOPERATE is one step.                  *)
(***************************************************************************)
EXTENDS Integers, Sequences

CONSTANTS
    MaxReq,     \* bound: calls of PDOut
    MaxJobs,    \* bound: jobs waiting when the DL thread posts another
    Limit,      \* further bounds of the model, see Spend
    Orderly,    \* a call of the command handler meets no other user of it
    Calm        \* PDOut and a change of the configuration wait for each other

ASSUME DataAssumption ==
    /\ MaxReq \in Nat /\ MaxJobs \in Nat \ {0}
    /\ {Orderly, Calm} \subseteq BOOLEAN

VARIABLES
    dl,         \* the handlers of iolink_dl_t and where the DL thread is
    pdout,      \* dl->pd_handler.pdoutdata, two halves
    pdin,       \* al->pdin_data, two halves
    mtx,        \* dl->mtx is held by the application
    mtxPdin,    \* al->mtx_pdin is held by the DL thread
    wire,       \* the message the transceiver holds
    device,     \* (external)
    mbox,       \* jobs for the main thread
    main,       \* where the main thread is in DL_Write_Devicemode_req
    sm, smCfg,  \* sm->state, the mode in sm->config_paramlist
    cm,         \* cm->state
    quality,    \* port_info.port_quality_info has no INVALID bit
    pde,        \* iolink_pde_port_t
    app,        \* the application's call of PDOut
    torn,       \* history: an answer was pieced together of two
    enabler,    \* history: the request whose outputs were enabled, 0 if none
    broken,     \* history: messages were lost for good since the start
    used        \* how often each bounded event has happened

vars == <<dl, pdout, pdin, mtx, mtxPdin, wire, device, mbox, main, sm, smCfg, cm,
          quality, pde, app, torn, enabler, broken, used>>

Reqs == 0 .. MaxReq             \* outputs are known by their request
Inputs == 0 .. 1                \* inputs by the parity of their cycle
Pair(x) == <<x, x>>

Init ==
    /\ dl = [mdh |-> "IDLE", mode |-> "INACTIVE", comlost |-> FALSE, mdhEvent |-> FALSE,
             pc |-> "idle", ph |-> "INACTIVE", od |-> "INACTIVE", trigger |-> "NONE",
             cmdh |-> "INACTIVE", chActive |-> FALSE, code |-> "NONE", command |-> "NONE",
             txOut |-> Pair(0), txOd |-> "isdu", posts |-> <<>>]
    /\ pdout = Pair(0) /\ pdin = Pair(0) /\ mtx = FALSE /\ mtxPdin = FALSE
    /\ wire = [out |-> Pair(0), od |-> "isdu"]
    /\ device = [valid |-> FALSE, inputs |-> TRUE, fallback |-> FALSE]
    /\ mbox = <<>> /\ main = "job"
    /\ sm = "PortInactive" /\ smCfg = "INACTIVE" /\ cm = "Deactivated"
    /\ quality = FALSE /\ pde = [active |-> FALSE, oe |-> FALSE]
    /\ app = [pc |-> "idle", no |-> 0, oe |-> FALSE]
    /\ torn = FALSE /\ enabler = 0 /\ broken = FALSE
    /\ used = [b \in DOMAIN Limit |-> 0]

(* Bounds: configurations, messages lost, changes of the validity of the   *)
(* inputs.                                                                 *)
Spend(bound) == used[bound] < Limit[bound] /\ used' = [used EXCEPT ![bound] = @ + 1]

dataVars == <<pdout, pdin, mtx, mtxPdin, torn>>
smVars   == <<sm, smCfg, cm, quality>>
appVars  == <<pde, app, enabler>>

Job(type, arg) == [type |-> type, arg |-> arg]

-----------------------------------------------------------------------------
(* The command handler and the OD handler, as functions of the record.     *)

Od_req(d, od) == [d EXCEPT !.txOd = od]

(* iolink_dl_cmd_h_sm *)
CmdHandler(d) ==
    CASE d.cmdh = "INACTIVE" -> IF d.chActive THEN [d EXCEPT !.cmdh = "IDLE"] ELSE d
      [] d.cmdh = "IDLE" /\ ~d.chActive -> [d EXCEPT !.cmdh = "INACTIVE"]
      [] d.cmdh = "IDLE" /\ d.chActive /\ d.code = "PDOUTVALID" ->
            [d EXCEPT !.command = "PD_OUT_OP", !.cmdh = "MASTERCOMMAND"]
      [] d.cmdh = "IDLE" /\ d.chActive /\ d.code = "PDOUTINVALID" ->
            [d EXCEPT !.command = "DEVICE_OPERATE", !.cmdh = "MASTERCOMMAND"]
      [] d.cmdh = "IDLE" /\ d.chActive /\ d.code = "DEVICEMODE" ->
            [d EXCEPT !.cmdh = "MASTERCOMMAND"]
      [] d.cmdh = "MASTERCOMMAND" ->
            [Od_req(d, d.command) EXCEPT !.code = "NONE", !.cmdh = "IDLE"]
      [] OTHER -> d

(* write_master_command: the command that was sent is known by what is in  *)
(* its place now.                                                          *)
DeviceModes == {"DEVICE_OPERATE", "FALLBACK"}
WriteMasterCommand(d) ==
    [d EXCEPT !.command = "NONE",
              !.posts = IF d.command \in DeviceModes THEN Append(@, Job("CNF", "ok")) ELSE @]

(* iolink_dl_od_h_sm while ohcmd is ACTIVE *)
OdIsdu(d) ==
    CASE d.code # "NONE" /\ d.trigger = "MASTER" -> [CmdHandler(d) EXCEPT !.od = "COMMAND"]
      [] d.trigger = "MASTER" /\ d.code = "NONE" -> [Od_req(d, "isdu") EXCEPT !.trigger = "NONE"]
      [] OTHER -> [d EXCEPT !.trigger = "NONE"]
OdCommand(d) ==
    CASE d.trigger # "NONE" /\ d.code = "NONE" ->
            [WriteMasterCommand(d) EXCEPT !.trigger = "NONE", !.od = "ISDU"]
      [] OTHER -> [d EXCEPT !.trigger = "NONE"]
OdHandler(d) ==
    CASE d.od = "INACTIVE" -> [d EXCEPT !.od = "ISDU"]
      [] d.od = "ISDU"     -> OdIsdu(d)
      [] d.od = "COMMAND"  -> OdCommand(d)
Od(d, trigger) == OdHandler([d EXCEPT !.trigger = trigger])

(* OH_Conf for INACTIVE: in COMMAND it is the other handler that is reset. *)
(* Mutant: it gets the state of the other one.                             *)
OH_ConfInactiveMixed(d) ==
    IF d.od = "COMMAND" THEN [d EXCEPT !.cmdh = "ISDU"] ELSE [d EXCEPT !.od = "INACTIVE"]
OH_ConfInactive(d) ==
    IF d.od = "COMMAND" THEN [d EXCEPT !.cmdh = "INACTIVE"] ELSE [d EXCEPT !.od = "INACTIVE"]
CH_Conf(d, active) == CmdHandler([d EXCEPT !.chActive = active])

-----------------------------------------------------------------------------
(* The DL thread.                                                          *)

(* A step leaves a record and the jobs it posts. *)
DlStep(d, jobs) ==
    \E r \in {d} :
        /\ dl' = [r EXCEPT !.posts = <<>>]
        /\ mbox' = mbox \o r.posts \o jobs

CallOpen == app.pc = "cmd" \/ main \in {"code", "cmd"}
Undisturbed == Orderly => ~CallOpen

(* iolink_dl_pd_h_sm for the next message: PD_req takes the outputs under  *)
(* the mutex.                                                              *)
(* Mutant: when the mutex is taken it does without new outputs.            *)
PD_reqTries ==
    /\ dl.pc = "idle" /\ dl.mdh = "OPERATE" /\ ~dl.comlost
    /\ DlStep([dl EXCEPT !.txOut = IF mtx THEN @ ELSE pdout, !.pc = "od"], <<>>)
    /\ UNCHANGED <<dataVars, wire, device, main, smVars, appVars, broken, used>>
PD_req ==
    /\ dl.pc = "idle" /\ dl.mdh = "OPERATE" /\ ~dl.comlost
    /\ ~mtx
    /\ DlStep([dl EXCEPT !.txOut = pdout, !.pc = "od"], <<>>)
    /\ UNCHANGED <<dataVars, wire, device, main, smVars, appVars, broken, used>>

(* A message in PREOPERATE, for a device mode or for other data. *)
PreoperateMessage ==
    /\ dl.pc = "idle" /\ dl.mdh = "PREOPERATE"
    /\ DlStep([dl EXCEPT !.pc = "od"], <<>>)
    /\ UNCHANGED <<dataVars, wire, device, main, smVars, appVars, broken, used>>

OdRequest ==
    /\ dl.pc = "od" /\ Undisturbed
    /\ DlStep([Od(dl, "MASTER") EXCEPT !.pc = "send"], <<>>)
    /\ UNCHANGED <<dataVars, wire, device, main, smVars, appVars, broken, used>>

(* PL_MessageDownload_req, PL_Transfer_req *)
Send ==
    /\ dl.pc = "send" /\ ~mtx
    /\ wire' = [out |-> dl.txOut, od |-> dl.txOd]
    /\ DlStep([dl EXCEPT !.pc = "wait"], <<>>)
    /\ UNCHANGED <<dataVars, device, main, smVars, appVars, broken, used>>

(* The device (external) takes a message.  DEVICE_OPERATE withdraws the    *)
(* validity of the outputs.                                                *)
Taken ==
    [device EXCEPT
        !.valid    = CASE wire.od = "PD_OUT_OP"      -> TRUE
                       [] wire.od = "DEVICE_OPERATE" -> FALSE
                       [] OTHER                      -> @,
        !.fallback = @ \/ wire.od = "FALLBACK"]

(* iolink_dl_message_h_sm_await_reply16: PDInStatus_ind posts the status   *)
(* of the inputs in every cycle, then DL_PDInputTransport_ind copies them  *)
(* under the mutex of the AL.                                              *)
Status == <<Job("CONTROL", device.inputs)>>
Reply16 ==
    /\ dl.pc = "wait" /\ dl.mdh = "OPERATE"
    /\ Len(mbox) < MaxJobs
    /\ device' = Taken
    /\ mtxPdin' = TRUE
    /\ pdin' = [pdin EXCEPT ![1] = 1 - @]
    /\ DlStep([dl EXCEPT !.pc = "pdin"], Status)
    /\ UNCHANGED <<pdout, mtx, torn, wire, main, smVars, appVars, broken, used>>
InputsDone ==
    /\ dl.pc = "pdin"
    /\ pdin' = Pair(pdin[1])
    /\ mtxPdin' = FALSE
    /\ DlStep([dl EXCEPT !.pc = "reply"], <<>>)
    /\ UNCHANGED <<pdout, mtx, torn, wire, device, main, smVars, appVars, broken, used>>

(* iolink_dl_message_h_sm_await_reply9 *)
Reply9 ==
    /\ dl.pc = "wait" /\ dl.mdh = "PREOPERATE"
    /\ device' = Taken
    /\ DlStep([dl EXCEPT !.pc = "reply"], <<>>)
    /\ UNCHANGED <<dataVars, wire, main, smVars, appVars, broken, used>>

OdReply ==
    /\ dl.pc = "reply" /\ Undisturbed
    /\ DlStep([Od(dl, "DEVICE") EXCEPT !.pc = "idle"], <<>>)
    /\ UNCHANGED <<dataVars, wire, device, main, smVars, appVars, broken, used>>

(* A reply is lost or broken, whether the device has taken the message or  *)
(* not: the transceiver sends the message again, or it was the last retry. *)
MessageLost ==
    /\ dl.pc = "wait" /\ dl.mdh = "OPERATE"
    /\ Spend("loss")
    /\ device' \in {device, Taken}
    /\ \/ UNCHANGED <<dl, broken>>
       \/ /\ dl' = [dl EXCEPT !.comlost = TRUE, !.mdhEvent = TRUE, !.pc = "idle"]
          /\ broken' = TRUE
    /\ UNCHANGED <<dataVars, wire, mbox, main, smVars, appVars>>

(* The mode handler between two messages.  Establish stands for the wake-  *)
(* up, STARTUP and the change to PREOPERATE; the outputs of a device that  *)
(* has started are not valid.                                              *)
AtRest == dl.mdhEvent /\ dl.pc \in {"idle", "wait"}
Establish ==
    /\ AtRest /\ dl.mdh = "IDLE" /\ dl.mode = "STARTUP"
    /\ device' = [device EXCEPT !.valid = FALSE, !.fallback = FALSE]
    /\ broken' = FALSE
    /\ DlStep([OdHandler(CH_Conf(dl, TRUE)) EXCEPT !.mdh = "PREOPERATE", !.mdhEvent = FALSE],
              <<Job("MODE", "STARTUP"), Job("MODE", "PREOPERATE")>>)
    /\ UNCHANGED <<dataVars, wire, main, smVars, appVars, used>>
GotoOperate ==
    /\ AtRest /\ dl.mdh = "PREOPERATE" /\ dl.mode = "OPERATE" /\ dl.pc = "idle"
    /\ DlStep([dl EXCEPT !.ph = "PDSINGLE", !.mdh = "OPERATE", !.mdhEvent = FALSE],
              <<Job("MODE", "OPERATE")>>)
    /\ UNCHANGED <<dataVars, wire, device, main, smVars, appVars, broken, used>>
GotoIdle ==
    /\ AtRest /\ dl.mdh = "OPERATE"
    /\ dl.comlost \/ dl.mode = "INACTIVE"
    /\ DlStep([CH_Conf(OH_ConfInactive(dl), FALSE) EXCEPT
                  !.ph = "INACTIVE", !.mdh = "IDLE", !.comlost = FALSE, !.mdhEvent = FALSE,
                  !.pc = "idle"],
              <<Job("MODE", IF dl.mode = "INACTIVE" THEN "INACTIVE" ELSE "COMLOST")>>)
    /\ UNCHANGED <<dataVars, wire, device, main, smVars, appVars, broken, used>>
(* Nothing to do; what an INACTIVE in PREOPERATE starts is left out.       *)
ModeIgnored ==
    /\ AtRest
    /\ \/ dl.mdh = "IDLE" /\ dl.mode # "STARTUP"
       \/ dl.mdh = "PREOPERATE" /\ dl.mode # "OPERATE"
    /\ DlStep([dl EXCEPT !.mdhEvent = FALSE], <<>>)
    /\ UNCHANGED <<dataVars, wire, device, main, smVars, appVars, broken, used>>

-----------------------------------------------------------------------------
(* The main thread.                                                        *)

DL_SetMode_req(mode) == dl' = [dl EXCEPT !.mode = mode, !.mdhEvent = TRUE]

(* DL_Write_Devicemode_req sets the command under the mutex, then the      *)
(* control code, then calls the command handler.                           *)
Commands == [OPERATE |-> "DEVICE_OPERATE", INACTIVE |-> "FALLBACK"]
HandlerFree == Orderly => dl.code = "NONE" /\ dl.od # "COMMAND" /\ ~CallOpen
DL_Write_Devicemode_req(mode) ==
    /\ HandlerFree /\ ~mtx
    /\ dl' = [dl EXCEPT !.command = Commands[mode]]
    /\ main' = "code"
DevicemodeCode ==
    /\ main = "code"
    /\ dl' = [dl EXCEPT !.code = "DEVICEMODE"]
    /\ main' = "cmd"
    /\ UNCHANGED <<dataVars, wire, device, mbox, smVars, appVars, broken, used>>
(* Mutant: a fallback is confirmed at once, as it is in PREOPERATE.        *)
DevicemodeCmdConfirms ==
    /\ main = "cmd"
    /\ dl' = CmdHandler(dl)
    /\ main' = "job"
    /\ mbox' = IF dl.command = "FALLBACK" THEN Append(mbox, Job("CNF", "ok")) ELSE mbox
    /\ UNCHANGED <<dataVars, wire, device, smVars, appVars, broken, used>>
DevicemodeCmd ==
    /\ main = "cmd"
    /\ dl' = CmdHandler(dl)
    /\ main' = "job"
    /\ UNCHANGED <<dataVars, wire, device, mbox, smVars, appVars, broken, used>>

(* A job that changes the SM, what it does to the DL, and what it posts.   *)
Took(type) == main = "job" /\ mbox # <<>> /\ Head(mbox).type = type
Arg == Head(mbox).arg
Posting(jobs) == mbox' = Tail(mbox) \o jobs
SmGoes(state, jobs) ==
    /\ sm' = state /\ Posting(jobs)
    /\ UNCHANGED <<smCfg, cm, quality, dataVars, wire, device, appVars, broken, used>>
SmStays == SmGoes(sm, <<>>) /\ UNCHANGED <<dl, main>>

(* sm_comlost *)
Comlost ==
    /\ DL_SetMode_req("INACTIVE") /\ UNCHANGED main
    /\ SmGoes("PortInactive", <<Job("PORT", "COMLOST")>>)
(* SM_EVENT_DL_Mode_COMLOST in the state table *)
ComlostEvent ==
    IF sm \in {"SMOperate", "wait", "waitForFallback"} THEN Comlost ELSE SmStays

(* sm_DL_Mode_ind_cb; of the states between STARTUP and PREOPERATE only    *)
(* waitonDLPreoperate is told apart.                                       *)
ModeInd ==
    /\ Took("MODE")
    /\ CASE sm = "PortInactive" /\ Arg = "STARTUP" ->
                SmGoes("waitonDLPreoperate", <<>>) /\ UNCHANGED <<dl, main>>
          [] sm = "PortInactive" /\ Arg = "INACTIVE" ->
                /\ SmGoes(sm, <<Job("PORT", IF smCfg = "INACTIVE" THEN "INACTIVE" ELSE "COMLOST")>>)
                /\ UNCHANGED <<dl, main>>
          [] sm = "waitonDLPreoperate" /\ Arg = "PREOPERATE" ->
                SmGoes("wait", <<Job("OPERATE", "")>>) /\ UNCHANGED <<dl, main>>
          [] sm = "SMOperate" /\ Arg = "OPERATE" ->
                SmGoes(sm, <<Job("PORT", "OPERATE")>>) /\ UNCHANGED <<dl, main>>
          [] sm \notin {"PortInactive", "waitonDLPreoperate", "SMOperate"} \/ Arg = "COMLOST" ->
                ComlostEvent
          [] OTHER -> SmStays

(* sm_operate_cb, when the CM and the DS have done their part; the cycle   *)
(* time is written in the same step.                                       *)
SmOperateReq ==
    /\ Took("OPERATE")
    /\ IF sm = "wait"
       THEN SmGoes("wait_devmode_cnf", <<>>) /\ DL_Write_Devicemode_req("OPERATE")
       ELSE SmStays

(* sm_DL_Write_Devmode_cnf *)
DevmodeCnf ==
    /\ Took("CNF")
    /\ CASE sm = "wait_devmode_cnf" ->
                DL_SetMode_req("OPERATE") /\ SmGoes("SMOperate", <<>>) /\ UNCHANGED main
          [] sm = "waitForFallback" ->
                /\ DL_SetMode_req("INACTIVE") /\ UNCHANGED main
                /\ SmGoes("PortInactive", <<Job("PORT", "INACTIVE")>>)
          [] OTHER -> ComlostEvent

(* sm_setportcfg_req_cb.  The states between refuse it, but Configure waits *)
(* for the port to settle; T15 is left out.                                *)
SetPortCfg ==
    /\ Took("SM_CFG")
    /\ smCfg' = Arg
    /\ \/ /\ sm = "PortInactive" /\ Arg = "CFGCOM"
          /\ DL_SetMode_req("STARTUP") /\ Posting(<<>>) /\ UNCHANGED <<sm, main>>
       \/ /\ sm = "PortInactive" /\ Arg = "INACTIVE"
          /\ DL_SetMode_req("INACTIVE") /\ Posting(<<Job("PORT", "INACTIVE")>>)
          /\ UNCHANGED <<sm, main>>
       \/ /\ sm = "SMOperate" /\ Arg = "INACTIVE"
          /\ DL_Write_Devicemode_req("INACTIVE") /\ Posting(<<>>) /\ sm' = "waitForFallback"
    /\ UNCHANGED <<cm, quality, dataVars, wire, device, appVars, broken, used>>

(* cm_check_mode stops process data before the SM is told; cm_startup and  *)
(* cm_deactivate follow (cm_start_ds, which is not told apart, resets the  *)
(* quality of a port that starts).                                         *)
(* Mutant: what the outputs were set to is kept.                           *)
PD_StopEnabled == pde' = [pde EXCEPT !.active = FALSE]
PD_Stop == pde' = [active |-> FALSE, oe |-> FALSE]
CfgChange ==
    /\ Took("CFG")
    /\ PD_Stop
    /\ cm' = IF Arg = "CFGCOM" THEN "Startup" ELSE "Deactivated"
    /\ quality' = FALSE
    /\ Posting(<<Job("SM_CFG", Arg)>>)
    /\ UNCHANGED <<sm, smCfg, app, enabler, dl, main, dataVars, wire, device, broken, used>>

(* cm_sm_port_mode_ind_cb: cm_sm_operate, cm_comlost.  A loss of           *)
(* communication stops nothing.                                            *)
PortMode ==
    /\ Took("PORT")
    /\ Posting(<<>>)
    /\ CASE Arg = "OPERATE" /\ cm = "Startup" ->
                cm' = "Port_Active" /\ quality' = TRUE /\ pde' = [pde EXCEPT !.active = TRUE]
          [] Arg = "COMLOST" /\ cm \in {"Startup", "Port_Active"} ->
                cm' = "CheckPortMode" /\ UNCHANGED <<quality, pde>>
          [] OTHER -> UNCHANGED <<cm, quality, pde>>
    /\ UNCHANGED <<sm, smCfg, app, enabler, dl, main, dataVars, wire, device, broken, used>>

(* dl_control_ind_cb, AL_Control_ind *)
(* Mutant: the bit for invalid inputs is reset and never set.              *)
ControlIndValid ==
    /\ Took("CONTROL")
    /\ quality' = (quality \/ Arg)
    /\ Posting(<<>>)
    /\ UNCHANGED <<sm, smCfg, cm, appVars, dl, main, dataVars, wire, device, broken, used>>
ControlInd ==
    /\ Took("CONTROL")
    /\ quality' = Arg
    /\ Posting(<<>>)
    /\ UNCHANGED <<sm, smCfg, cm, appVars, dl, main, dataVars, wire, device, broken, used>>

-----------------------------------------------------------------------------
(* The application.                                                        *)

Waiting(types) == \E i \in 1 .. Len(mbox) : mbox[i].type \in types
NoConfiguration == ~Waiting({"CFG", "SM_CFG"})

(* SMI_PortConfiguration_req, given to a port that has come to rest.       *)
Settled ==
    \/ sm = "SMOperate" /\ cm = "Port_Active"
    \/ sm = "PortInactive" /\ dl.mdh = "IDLE" /\ ~dl.mdhEvent /\ ~Waiting({"MODE"})
Configure(mode) ==
    /\ Settled /\ NoConfiguration
    /\ mode = "CFGCOM" => sm = "PortInactive"
    /\ Calm => app.pc = "idle" /\ dl.code = "NONE" /\ dl.od # "COMMAND" /\ ~Waiting({"CNF"})
    /\ Spend("config")
    /\ mbox' = Append(mbox, Job("CFG", mode))
    /\ UNCHANGED <<dl, dataVars, wire, device, main, smVars, appVars, broken>>

(* pde_SMI_PDOut_req: a port that is not active refuses it; so does        *)
(* DL_PDOutputUpdate_req when the PD handler is inactive.                  *)
AppGoes(a) ==
    /\ app' = a
    /\ UNCHANGED <<wire, device, mbox, main, smVars, broken, used>>
PDOut(oe) ==
    /\ app.pc = "idle" /\ pde.active /\ app.no < MaxReq
    /\ Calm => NoConfiguration
    /\ AppGoes([pc |-> "output", no |-> app.no + 1, oe |-> oe])
    /\ UNCHANGED <<dl, dataVars, pde, enabler>>
SetOutput ==
    /\ app.pc = "output"
    /\ IF dl.ph = "INACTIVE"
       THEN AppGoes([app EXCEPT !.pc = "idle"]) /\ UNCHANGED <<pdout, mtx>>
       ELSE /\ mtx' = TRUE /\ pdout' = [pdout EXCEPT ![1] = app.no]
            /\ AppGoes([app EXCEPT !.pc = "copy"])
    /\ UNCHANGED <<dl, pdin, mtxPdin, torn, pde, enabler>>
OutputSet ==
    /\ app.pc = "copy"
    /\ mtx' = FALSE /\ pdout' = [pdout EXCEPT ![2] = app.no]
    /\ AppGoes([app EXCEPT !.pc = IF pde.oe # app.oe THEN "control" ELSE "idle"])
    /\ UNCHANGED <<dl, pdin, mtxPdin, torn, pde, enabler>>

(* AL_Control_req: DL_Control_req sets the control code and calls the      *)
(* command handler, on the thread of the application and without a lock.   *)
ControlReq ==
    /\ app.pc = "control" /\ HandlerFree
    /\ dl' = [dl EXCEPT !.code = IF app.oe THEN "PDOUTVALID" ELSE "PDOUTINVALID"]
    /\ enabler' = IF app.oe THEN app.no ELSE 0
    /\ AppGoes([app EXCEPT !.pc = "cmd"])
    /\ UNCHANGED <<dataVars, pde>>
ControlCmd ==
    /\ app.pc = "cmd"
    /\ dl' = CmdHandler(dl)
    /\ pde' = [pde EXCEPT !.oe = app.oe]
    /\ AppGoes([app EXCEPT !.pc = "idle"])
    /\ UNCHANGED <<dataVars, enabler>>

(* pde_SMI_PDIn_req, pde_SMI_PDInOut_req: AL_GetInput_req copies under the *)
(* mutex of the AL, AL_GetInputOutput_req under both.                      *)
Answer(pairs) ==
    /\ torn' = (torn \/ \E pair \in pairs : pair[1] # pair[2])
    /\ UNCHANGED <<dl, pdout, pdin, mtx, mtxPdin, wire, device, mbox, main, smVars, appVars,
                   broken, used>>
(* Mutant: the mutex of the AL is not taken.                               *)
PDInUnlocked ==
    /\ app.pc = "idle" /\ pde.active
    /\ Answer({pdin}) \/ (~mtx /\ Answer({pdin, pdout}))
PDIn ==
    /\ app.pc = "idle" /\ pde.active
    /\ ~mtxPdin
    /\ Answer({pdin}) \/ (~mtx /\ Answer({pdin, pdout}))

(* The device (external) declares its inputs valid or invalid.             *)
InputsChange ==
    /\ Spend("inputs")
    /\ device' = [device EXCEPT !.inputs = ~@]
    /\ UNCHANGED <<dl, dataVars, wire, mbox, main, smVars, appVars, broken>>

-----------------------------------------------------------------------------
DlThread ==
    \/ PD_req \/ OdRequest \/ Send \/ Reply16 \/ InputsDone \/ Reply9 \/ OdReply
    \/ Establish \/ GotoOperate \/ GotoIdle \/ ModeIgnored
MainThread ==
    \/ DevicemodeCode \/ DevicemodeCmd \/ ModeInd \/ SmOperateReq \/ DevmodeCnf
    \/ SetPortCfg \/ CfgChange \/ PortMode \/ ControlInd
AppCall == SetOutput \/ OutputSet \/ ControlReq \/ ControlCmd

Next ==
    \/ DlThread \/ PreoperateMessage \/ MainThread \/ AppCall \/ PDIn
    \/ MessageLost \/ InputsChange
    \/ \E oe \in BOOLEAN : PDOut(oe)
    \/ \E mode \in {"INACTIVE", "CFGCOM"} : Configure(mode)

Spec == Init /\ [][Next]_vars

(* The threads run; a call that was begun is finished.                     *)
LiveSpec ==
    /\ Spec
    /\ WF_vars(DlThread \/ (dl.command = "DEVICE_OPERATE" /\ PreoperateMessage))
    /\ WF_vars(MainThread) /\ WF_vars(AppCall)

-----------------------------------------------------------------------------
(* Properties.                                                             *)

TypeOK ==
    /\ dl.mdh \in {"IDLE", "PREOPERATE", "OPERATE"}
    /\ dl.pc \in {"idle", "od", "send", "wait", "pdin", "reply"}
    /\ dl.od \in {"INACTIVE", "ISDU", "COMMAND"}
    /\ dl.cmdh \in {"INACTIVE", "IDLE", "MASTERCOMMAND"}
    /\ dl.code \in {"NONE", "PDOUTVALID", "PDOUTINVALID", "DEVICEMODE"}
    /\ dl.command \in {"NONE", "PD_OUT_OP"} \cup DeviceModes
    /\ dl.txOut \in Reqs \X Reqs /\ pdout \in Reqs \X Reqs
    /\ pdin \in Inputs \X Inputs
    /\ sm \in {"PortInactive", "waitonDLPreoperate", "wait", "wait_devmode_cnf",
               "SMOperate", "waitForFallback"}
    /\ cm \in {"Deactivated", "CheckPortMode", "Startup", "Port_Active"}
    /\ app.pc \in {"idle", "output", "copy", "control", "cmd"} /\ app.no \in Reqs
    /\ enabler \in Reqs

(* What PDIn and PDInOut answer is the input of one cycle and the output   *)
(* of one request, and a message carries the output of one request.        *)
DataWhole == ~torn /\ wire.out[1] = wire.out[2]

(* Once a device has been told that its outputs are valid, no message      *)
(* carries outputs of before the request that made them valid.             *)
EnabledOutputsFresh ==
    [][(dl.pc = "send" /\ dl'.pc = "wait" /\ dl.mdh = "OPERATE" /\ device.valid)
          => wire'.out[1] >= enabler]_vars

(* A port that waits for the fallback of its device takes a confirmation   *)
(* only when the device has been sent the command.                         *)
FallbackSent ==
    [][(sm = "waitForFallback" /\ sm' = "PortInactive" /\ Head(mbox).type = "CNF")
          => device.fallback]_vars

(* The port leaves SMOperate for PortInactive only when communication was  *)
(* lost.                                                                   *)
NoFalseComLost == [][sm = "SMOperate" /\ sm' = "PortInactive" => broken]_vars

Operating ==
    /\ dl.mdh = "OPERATE" /\ dl.mode = "OPERATE" /\ ~dl.comlost
    /\ sm = "SMOperate" /\ pde.active

(* The device learns whether its outputs are valid.                        *)
OutputsFollow ==
    \A oe \in BOOLEAN :
        []((Operating /\ app.pc = "idle" /\ pde.oe = oe)
              => <>(device.valid = oe \/ app.pc # "idle" \/ ~Operating))

(* When the device goes on declaring its inputs valid or invalid, the      *)
(* qualifier PDIn answers with says so.                                    *)
QualityFollows ==
    \A valid \in BOOLEAN :
        <>[](Operating /\ device.inputs = valid) => <>[](quality = valid)
=============================================================================

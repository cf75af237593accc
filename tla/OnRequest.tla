------------------------------ MODULE OnRequest ------------------------------
(***************************************************************************)
(* On-request data on one i-link port, from SMI_DeviceRead/Write_req down  *)
(* to the device and back: the on-request data exchange ODE (iolink_ode.c) *)
(* and the on-request half of the application layer AL (iolink_al.c), both *)
(* run by the main thread one job at a time, on top of the DL thread of    *)
(* DlOnRequest.  Port control (CM and SM) is reduced to what starts, stops *)
(* and restarts the port.                                                  *)
(***************************************************************************)
EXTENDS DlOnRequest

CONSTANTS
    Kinds,      \* the services the application uses, a subset of AllKinds
    MaxCfg,     \* bound: calls of SMI_PortConfiguration_req
    MaxAborts   \* bound: calls of AL_Abort

ASSUME OnRequestAssumption ==
    /\ Kinds \subseteq AllKinds
    /\ MaxCfg \in Nat
    /\ MaxAborts \in Nat

VARIABLES
    dlCall,     \* the DL service call the main thread is inside of
    ode,        \* ode->state
    odeReq,     \* ode->smi_req: the request being served
    cm, sm,     \* port control: CM and SM state
    ds,         \* the read the data storage client waits for
    asked,      \* the kind of each request made so far
    nAns,       \* how often each request was answered
    ans,        \* the last answer to each request
    cfgs, aborts

odeVars  == <<ode, odeReq, nAns, ans>>
portVars == <<cm, sm>>
appVars  == <<asked, cfgs, aborts>>
alVars   == <<alState, alSvc, alData, alLen>>
vars == <<mbox, alVars, dlVars, dlCall, odeVars, portVars, ds, appVars>>

OdeStates == {"Inactive", "ODactive", "ODblocked"}
Answers   == [res : Results \cup {"none"}, val : Tags, longer : BOOLEAN]
NoCall    == "none"

OdTypeOK ==
    /\ dlCall \in {NoCall, "param", "isdu"}
    /\ ode \in OdeStates
    /\ odeReq \in Reqs \cup {NoReq}
    /\ cm \in {"Port_Deactivated", "CheckPortMode", "SM_Startup", "Port_Active"}
    /\ sm \in {"PortInactive", "CheckCompatibility", "waitonDLOperate", "SMOperate"}
    /\ ds \in DsReqs \cup {NoReq}
    /\ asked \in [Ids -> AllKinds \cup {"none"}]
    /\ nAns \in [Reqs -> Nat]
    /\ ans \in [Reqs -> Answers]
    /\ cfgs \in 0 .. MaxCfg
    /\ aborts \in 0 .. MaxAborts

(* Every variable stays within the values its C type and the code allow.  *)
TypeOK == JobsTypeOK /\ DlTypeOK /\ OdTypeOK

Init ==
    /\ JobsInit
    /\ DlInit
    /\ dlCall = NoCall
    /\ ode = "Inactive" /\ odeReq = NoReq
    /\ cm = "Port_Deactivated" /\ sm = "PortInactive"
    /\ ds = NoReq
    /\ asked = [r \in Ids |-> "none"]
    /\ nAns = [r \in Reqs |-> 0]
    /\ ans = [r \in Reqs |-> [res |-> "none", val |-> "none", longer |-> FALSE]]
    /\ cfgs = 0 /\ aborts = 0

-----------------------------------------------------------------------------
(* The application and the other callers, any thread.                      *)

SMI_DeviceRW_req(r, k) ==
    /\ asked[r] = "none"
    /\ asked' = [asked EXCEPT ![r] = k]
    /\ Post(MkJob("SMI_RW", "ODE", r, k, "OK", "none"))
    /\ UNCHANGED <<alVars, dlVars, dlCall, odeVars, portVars, ds, cfgs, aborts>>

SMI_PortConfiguration_req ==
    /\ cfgs < MaxCfg
    /\ cfgs' = cfgs + 1
    /\ Post(Signal("SMI_CFG"))
    /\ UNCHANGED <<alVars, dlVars, dlCall, odeVars, portVars, ds, asked, aborts>>

AL_Abort ==
    /\ aborts < MaxAborts
    /\ aborts' = aborts + 1
    /\ Post(Signal("AL_ABORT"))
    /\ UNCHANGED <<alVars, dlVars, dlCall, odeVars, portVars, ds, asked, cfgs>>

-----------------------------------------------------------------------------
(* The main thread takes the oldest job.                                   *)

Take(type) ==
    /\ dlCall = NoCall
    /\ mbox # <<>>
    /\ Head(mbox).type = type

TakeAndPost(jobs) == mbox' = Tail(mbox) \o jobs

(* Data storage reads a parameter of the device (upload after an event). *)
DsRead(r) ==
    /\ dlCall = NoCall
    /\ cm = "Port_Active"
    /\ ds = NoReq
    /\ asked[r] = "none"
    /\ asked' = [asked EXCEPT ![r] = "ReadIsdu"]
    /\ ds' = r
    /\ Post(MkJob("AL_REQ", "DS", r, "ReadIsdu", "OK", "none"))
    /\ UNCHANGED <<alVars, dlVars, dlCall, odeVars, portVars, cfgs, aborts>>

-----------------------------------------------------------------------------
(* ODE.                                                                    *)

AnswerWith(r, res, val, longer) ==
    /\ nAns' = [nAns EXCEPT ![r] = nAns[r] + 1]
    /\ ans' = [ans EXCEPT ![r] = [res |-> res, val |-> val, longer |-> longer]]

AnswerReq(r, res, val) == AnswerWith(r, res, val, FALSE)

(* A mutant of OdeReject: a request that meets an inactive ODE is dropped. *)
OdeRejectSilent ==
    /\ Take("SMI_RW")
    /\ ode # "ODactive"
    /\ IF ode = "ODblocked" THEN AnswerReq(Head(mbox).req, "BUSY", "none")
                            ELSE UNCHANGED <<nAns, ans>>
    /\ TakeAndPost(<<>>)
    /\ UNCHANGED <<ode, odeReq, alVars, dlVars, dlCall, portVars, ds, appVars>>

(* SMI_rw_req_cb, ODE not ready: answer negatively at once. *)
OdeReject ==
    /\ Take("SMI_RW")
    /\ ode # "ODactive"
    /\ AnswerReq(Head(mbox).req, IF ode = "ODblocked" /\ Head(mbox).kind # "Batch"
                                 THEN "BUSY" ELSE "ERR", "none")
    /\ TakeAndPost(<<>>)
    /\ UNCHANGED <<ode, odeReq, alVars, dlVars, dlCall, portVars, ds, appVars>>

(* SMI_rw_req_cb, ode_smi_rw: hand the request to the AL and block, or     *)
(* refuse a service that is not supported.                                 *)
OdeAccept ==
    /\ Take("SMI_RW")
    /\ ode = "ODactive"
    /\ odeReq' = Head(mbox).req
    /\ IF Head(mbox).kind = "Batch"
       THEN /\ AnswerReq(Head(mbox).req, "ERR", "none")
            /\ TakeAndPost(<<>>)
            /\ UNCHANGED ode
       ELSE /\ ode' = "ODblocked"
            /\ TakeAndPost(<<MkJob("AL_REQ", "ODE", Head(mbox).req, Head(mbox).kind,
                                   "OK", "none")>>)
            /\ UNCHANGED <<nAns, ans>>
    /\ UNCHANGED <<alVars, dlVars, dlCall, portVars, ds, appVars>>

(* What the application finds in its argument block: the AL hands over a   *)
(* pointer to data_read, whose contents are copied only now, and the length *)
(* they had.                                                               *)
CopiedData == IF Head(mbox).val \in Pointers THEN alData ELSE Head(mbox).val

(* ode_read_cnf_cb, ode_write_cnf_cb, ode_smi_done: the confirmation is    *)
(* taken for the answer to whatever request is being served.  What is read *)
(* may be too long for the application's argument block.                   *)
OdeConfirm ==
    /\ Take("AL_CNF")
    /\ Head(mbox).client = "ODE"
    /\ IF ode = "ODblocked"
       THEN /\ ode' = "ODactive"
            /\ IF Head(mbox).res = "OK" /\ asked[odeReq] \in ReadKinds
               THEN \/ AnswerWith(odeReq, "OK", CopiedData, Head(mbox).val = "data_read_longer")
                    \/ AnswerReq(odeReq, "ERR", "none")
               ELSE AnswerReq(odeReq, Head(mbox).res, "none")
       ELSE UNCHANGED <<ode, nAns, ans>>
    /\ TakeAndPost(<<>>)
    /\ UNCHANGED <<odeReq, alVars, dlVars, dlCall, portVars, ds, appVars>>

OdeStart ==
    /\ Take("OD_START")
    /\ ode' = IF ode = "Inactive" THEN "ODactive" ELSE ode
    /\ TakeAndPost(<<>>)
    /\ UNCHANGED <<odeReq, nAns, ans, alVars, dlVars, dlCall, portVars, ds, appVars>>

(* A mutant of OdeStop: it answers the request and goes on waiting. *)
OdeStopAnswers ==
    /\ Take("OD_STOP")
    /\ IF ode = "ODblocked"
       THEN AnswerReq(odeReq, "ERR", "none") /\ UNCHANGED ode
       ELSE ode' = "Inactive" /\ UNCHANGED <<nAns, ans>>
    /\ TakeAndPost(<<>>)
    /\ UNCHANGED <<odeReq, alVars, dlVars, dlCall, portVars, ds, appVars>>

(* od_stop_cb: a request being served is dropped without an answer. *)
OdeStop ==
    /\ Take("OD_STOP")
    /\ ode' = "Inactive"
    /\ TakeAndPost(<<>>)
    /\ UNCHANGED <<odeReq, nAns, ans, alVars, dlVars, dlCall, portVars, ds, appVars>>

(* The data storage client takes its confirmation. *)
DsConfirm ==
    /\ Take("AL_CNF")
    /\ Head(mbox).client = "DS"
    /\ ds' = NoReq
    /\ TakeAndPost(<<>>)
    /\ UNCHANGED <<odeVars, alVars, dlVars, dlCall, portVars, appVars>>

-----------------------------------------------------------------------------
(* AL, on-request services.                                                *)

AlCnf(svc, res, val) == MkJob("AL_CNF", svc.client, svc.req, svc.kind, res, val)
ServiceOf(job) == [client |-> job.client, req |-> job.req, kind |-> job.kind]

(* A mutant of AlBusy: the service in progress is told to be busy.         *)
AlBusyWrongService ==
    /\ Take("AL_REQ")
    /\ alState # "OnReq_Idle"
    /\ TakeAndPost(<<AlCnf(alSvc, "BUSY", "none")>>)
    /\ UNCHANGED <<alVars, dlVars, dlCall, odeVars, portVars, ds, appVars>>

(* al_od_busy *)
AlBusy ==
    /\ Take("AL_REQ")
    /\ alState # "OnReq_Idle"
    /\ TakeAndPost(<<AlCnf(ServiceOf(Head(mbox)), "BUSY", "none")>>)
    /\ UNCHANGED <<alVars, dlVars, dlCall, odeVars, portVars, ds, appVars>>

(* al_od_build_dl_service: nothing has been read yet; of a write it is the *)
(* length of what is to be written.                                        *)
AlBuild ==
    /\ alSvc' = ServiceOf(Head(mbox))
    /\ alLen' = IF Head(mbox).kind \in ReadKinds THEN "none" ELSE "data"

(* al_od_build_dl_service with an index that cannot be served. *)
AlArgErr ==
    /\ Take("AL_REQ")
    /\ alState = "OnReq_Idle"
    /\ Head(mbox).kind = "WriteBad"
    /\ AlBuild
    /\ TakeAndPost(<<AlCnf(ServiceOf(Head(mbox)), "ERR", "none")>>)
    /\ UNCHANGED <<alState, alData, dlVars, dlCall, odeVars, portVars, ds, appVars>>

(* al_od_param_read, al_od_param_write: DL_ReadWriteParam_req first sets   *)
(* the command ...                                                         *)
AlParam ==
    /\ Take("AL_REQ")
    /\ alState = "OnReq_Idle"
    /\ Head(mbox).kind \in {"ReadParam", "WriteParam"}
    /\ AlBuild
    /\ alState' = "Await_DL_param_cnf"
    /\ rwcmd' = IF Head(mbox).kind = "ReadParam" THEN "READPARAM" ELSE "WRITEPARAM"
    /\ dlCall' = "param"
    /\ TakeAndPost(<<>>)
    /\ UNCHANGED <<alData, modeVars, mh, retry, dataAddr, evFlag, od, isduVars, msg, dlPc,
                   served, boundVars, odeVars, portVars, ds, appVars>>

(* ... and then checks the message handler's state and stores the address, *)
(* or refuses the service it has already set.                              *)
DlParamReq ==
    /\ dlCall = "param"
    /\ dlCall' = NoCall
    /\ IF mh = "AW_REPLY_16"
       THEN dataAddr' = alSvc.req /\ UNCHANGED mbox
       ELSE /\ Post(DlCnf(IF alSvc.kind = "ReadParam" THEN "READPARAM_CNF"
                                                      ELSE "WRITEPARAM_CNF", "ERR", "none"))
            /\ UNCHANGED dataAddr
    /\ UNCHANGED <<alVars, modeVars, mh, retry, rwcmd, od, evFlag, isduVars, msg, dlPc,
                   served, boundVars, odeVars, portVars, ds, appVars>>

(* al_od_isdu_read, al_od_isdu_write: DL_ISDUTransport_req first checks    *)
(* the mode handler and the ISDU handler ...                               *)
AlIsdu ==
    /\ Take("AL_REQ")
    /\ alState = "OnReq_Idle"
    /\ Head(mbox).kind \in {"ReadIsdu", "WriteIsdu"}
    /\ AlBuild
    /\ alState' = "Await_DL_ISDU_cnf"
    /\ IF mdh \in {"IDLE_0", "ESTCOM_1"} \/ isdu # "IDLE_1"
       THEN TakeAndPost(<<DlCnf("ISDU_CNF", "ERR", "none")>>) /\ UNCHANGED dlCall
       ELSE TakeAndPost(<<>>) /\ dlCall' = "isdu"
    /\ UNCHANGED <<alData, dlVars, odeVars, portVars, ds, appVars>>

(* ... and then builds the ISDU and sets the command. *)
DlIsduReq ==
    /\ dlCall = "isdu"
    /\ dlCall' = NoCall
    /\ isduReq' = alSvc.req
    /\ totSeg' = Segs
    /\ curSeg' = 0
    /\ rwcmd' = "ISDUTRANSPORT"
    /\ UNCHANGED <<mbox, alVars, modeVars, mh, retry, dataAddr, evFlag, od, isdu, elapsed, msg,
                   dlPc, served, boundVars, odeVars, portVars, ds, appVars>>

(* al_od_send_al_cnf: the service in progress is confirmed. *)
Confirm(res, val) ==
    /\ alState' = "OnReq_Idle"
    /\ TakeAndPost(<<AlCnf(alSvc, res, val)>>)
    /\ UNCHANGED alSvc

(* The pointer and the length a read is confirmed with; no pointer where    *)
(* the length is none.                                                     *)
ReadData(len) == CASE len = "none" -> "none"
                   [] len = "data" -> "data_read"
                   [] len = "more" -> "data_read_longer"

(* A mutant of AlReadParamCnf: the octet is stored in front. *)
AlReadParamCnfInFront ==
    /\ Take("READPARAM_CNF")
    /\ alData' = Head(mbox).val
    /\ alLen' = "data"
    /\ IF alState = "Await_DL_param_cnf"
       THEN IF alSvc.kind \in ReadKinds
            THEN Confirm(Head(mbox).res, "data_read")
            ELSE Confirm("ERR", "none")
       ELSE TakeAndPost(<<>>) /\ UNCHANGED <<alState, alSvc>>
    /\ UNCHANGED <<dlVars, dlCall, odeVars, portVars, ds, appVars>>

(* al_dl_readparam_cnf_cb: whatever is awaited, the octet is stored behind *)
(* those already there.  A read confirmation that meets a write calls the  *)
(* write callback through the union, which takes the data length for the   *)
(* error type.                                                             *)
AlReadParamCnf ==
    /\ Take("READPARAM_CNF")
    /\ IF alLen = "none"
       THEN alData' = Head(mbox).val /\ alLen' = "data"
       ELSE alLen' = "more" /\ UNCHANGED alData
    /\ IF alState = "Await_DL_param_cnf"
       THEN IF alSvc.kind \in ReadKinds
            THEN Confirm(Head(mbox).res, ReadData(alLen'))
            ELSE Confirm("ERR", "none")
       ELSE TakeAndPost(<<>>) /\ UNCHANGED <<alState, alSvc>>
    /\ UNCHANGED <<dlVars, dlCall, odeVars, portVars, ds, appVars>>

(* al_dl_writeparam_cnf_cb: met by a read, the read callback is called     *)
(* with arguments nobody passed.                                           *)
AlWriteParamCnf ==
    /\ Take("WRITEPARAM_CNF")
    /\ IF alState = "Await_DL_param_cnf"
       THEN IF alSvc.kind \in WriteKinds
            THEN Confirm(Head(mbox).res, "none")
            ELSE \E res \in {"OK", "ERR"} : Confirm(res, "wild")
       ELSE TakeAndPost(<<>>) /\ UNCHANGED <<alState, alSvc>>
    /\ UNCHANGED <<alData, alLen, dlVars, dlCall, odeVars, portVars, ds, appVars>>

(* al_dl_isdu_transport_cnf_cb *)
AlIsduCnf ==
    /\ Take("ISDU_CNF")
    /\ IF alState = "Await_DL_ISDU_cnf"
       THEN Confirm(Head(mbox).res,
                    IF alSvc.kind \in ReadKinds THEN ReadData(alLen) ELSE "none")
       ELSE TakeAndPost(<<>>) /\ UNCHANGED <<alState, alSvc>>
    /\ UNCHANGED <<alData, alLen, dlVars, dlCall, odeVars, portVars, ds, appVars>>

(* A mutant of AlAbort: the service is abandoned without a confirmation. *)
AlAbortSilent ==
    /\ Take("AL_ABORT")
    /\ alState' = "OnReq_Idle"
    /\ alLen' = "none"
    /\ TakeAndPost(<<>>)
    /\ UNCHANGED <<alSvc, alData, dlVars, dlCall, odeVars, portVars, ds, appVars>>

(* al_abort_cb: the service is confirmed, the DL goes on with it. *)
AlAbort ==
    /\ Take("AL_ABORT")
    /\ alLen' = "none"
    /\ IF alState # "OnReq_Idle"
       THEN Confirm("ERR", "none")
       ELSE TakeAndPost(<<>>) /\ UNCHANGED <<alState, alSvc>>
    /\ UNCHANGED <<alData, dlVars, dlCall, odeVars, portVars, ds, appVars>>

-----------------------------------------------------------------------------
(* Port control.                                                           *)

DL_SetMode_req(mode) == dlMode' = mode /\ mdhEv' = TRUE

ModeUnchanged == UNCHANGED <<dlMode, mdhEv>>

PortStep ==
    UNCHANGED <<alVars, mdh, mhinfo, mh, retry, dataAddr, evFlag, od, isduVars, msg, dlPc,
                served, boundVars, dlCall, odeVars, ds, appVars>>

(* cm_check_mode and cm_startup for an IO-Link port mode. *)
CmCfgChange ==
    /\ Take("SMI_CFG")
    /\ cm' = "SM_Startup"
    /\ TakeAndPost(<<Signal("OD_STOP"), Signal("SM_CFG")>>)
    /\ UNCHANGED <<sm, rwcmd>>
    /\ ModeUnchanged
    /\ PortStep

(* sm_setportcfg_req_cb, sm_portinactive: ignored during a start-up.  The   *)
(* start-up is that of a V1.0 device: parameters are read in STARTUP, then  *)
(* the port goes to OPERATE, and the states the main thread passes through  *)
(* by itself (checkSerNum, wait) are part of SmModeOperate.                 *)
SmSetPortConfig ==
    /\ Take("SM_CFG")
    /\ IF sm \in {"CheckCompatibility", "waitonDLOperate"}
       THEN UNCHANGED sm /\ ModeUnchanged
       ELSE sm' = "PortInactive" /\ DL_SetMode_req("STARTUP")
    /\ TakeAndPost(<<>>)
    /\ UNCHANGED <<cm, rwcmd>>
    /\ PortStep

(* sm_readcomparameter: DL_Read_req needs the message handler in STARTUP. *)
SmModeStartup ==
    /\ Take("MODE_STARTUP")
    /\ IF sm = "PortInactive"
       THEN /\ sm' = "CheckCompatibility"
            /\ IF mh = "STARTUP_2"
               THEN rwcmd' = "READ" /\ TakeAndPost(<<>>)
               ELSE UNCHANGED rwcmd /\ TakeAndPost(<<DlCnf("DL_READ_CNF", "ERR", "none")>>)
       ELSE UNCHANGED <<sm, rwcmd>> /\ TakeAndPost(<<>>)
    /\ UNCHANGED cm
    /\ ModeUnchanged
    /\ PortStep

(* sm_comlost *)
SmComlost ==
    /\ sm' = "PortInactive"
    /\ DL_SetMode_req("INACTIVE")
    /\ TakeAndPost(<<Signal("PORTMODE_COMLOST")>>)

SmIgnore ==
    /\ UNCHANGED sm
    /\ ModeUnchanged
    /\ TakeAndPost(<<>>)

(* sm_DL_Read_cnf_cb: the start-up checks passed, or the exchange failed. *)
SmReadCnf ==
    /\ Take("DL_READ_CNF")
    /\ IF sm = "CheckCompatibility"
       THEN \/ /\ Head(mbox).res = "OK"
               /\ sm' = "waitonDLOperate"
               /\ DL_SetMode_req("OPERATE")
               /\ TakeAndPost(<<>>)
            \/ /\ Head(mbox).res = "ERR"
               /\ SmComlost
       ELSE SmIgnore
    /\ UNCHANGED <<cm, rwcmd>>
    /\ PortStep

(* sm_smoperate_ind *)
SmModeOperate ==
    /\ Take("MODE_OPERATE")
    /\ IF sm \in {"waitonDLOperate", "SMOperate"}
       THEN sm' = "SMOperate" /\ TakeAndPost(<<Signal("PORTMODE_OPERATE")>>)
       ELSE UNCHANGED sm /\ TakeAndPost(<<>>)
    /\ UNCHANGED <<cm, rwcmd>>
    /\ ModeUnchanged
    /\ PortStep

(* sm_DL_Mode_ind_cb, COMLOST: while a confirmation is awaited it is       *)
(* ignored (sm_comlost_ignore).                                            *)
SmModeComlost ==
    /\ Take("MODE_COMLOST")
    /\ IF sm \in {"waitonDLOperate", "SMOperate"} THEN SmComlost ELSE SmIgnore
    /\ UNCHANGED <<cm, rwcmd>>
    /\ PortStep

(* sm_DL_Mode_ind_cb_inactive: taken for a failed wake-up request. *)
SmModeInactive ==
    /\ Take("MODE_INACTIVE")
    /\ TakeAndPost(IF sm = "PortInactive" THEN <<Signal("PORTMODE_COMLOST")>> ELSE <<>>)
    /\ UNCHANGED <<cm, sm, rwcmd>>
    /\ ModeUnchanged
    /\ PortStep

(* cm_sm_operate *)
CmOperate ==
    /\ Take("PORTMODE_OPERATE")
    /\ IF cm = "SM_Startup"
       THEN cm' = "Port_Active" /\ TakeAndPost(<<Signal("OD_START")>>)
       ELSE UNCHANGED cm /\ TakeAndPost(<<>>)
    /\ UNCHANGED <<sm, rwcmd>>
    /\ ModeUnchanged
    /\ PortStep

(* cm_comlost: neither OD_Stop nor PD_Stop is called. *)
CmComlost ==
    /\ Take("PORTMODE_COMLOST")
    /\ cm' = "CheckPortMode"
    /\ TakeAndPost(<<>>)
    /\ UNCHANGED <<sm, rwcmd>>
    /\ ModeUnchanged
    /\ PortStep

-----------------------------------------------------------------------------
MainThread ==
    \/ OdeReject \/ OdeAccept \/ OdeConfirm \/ OdeStart \/ OdeStop \/ DsConfirm
    \/ AlBusy \/ AlArgErr \/ AlParam \/ DlParamReq \/ AlIsdu \/ DlIsduReq
    \/ AlReadParamCnf \/ AlWriteParamCnf \/ AlIsduCnf \/ AlAbort
    \/ CmCfgChange \/ SmSetPortConfig \/ SmModeStartup \/ SmReadCnf
    \/ SmModeOperate \/ SmModeComlost \/ SmModeInactive \/ CmOperate \/ CmComlost

DlStep == (DlThread \/ IsduTimer) /\ UNCHANGED <<dlCall, odeVars, portVars, ds, appVars>>

Application ==
    \/ \E r \in Reqs, k \in Kinds : SMI_DeviceRW_req(r, k)
    \/ SMI_PortConfiguration_req
    \/ AL_Abort
    \/ \E r \in DsReqs : DsRead(r)

Next == MainThread \/ DlStep \/ Application

Spec == Init /\ [][Next]_vars

(* The main thread and the DL thread keep running; a port event (mode      *)
(* handler) is served although cycles go on; a device that is present      *)
(* answers, and the ISDU response time passes.                             *)
Fairness ==
    /\ WF_vars(MainThread)
    /\ WF_vars(DlStep /\ DlCycle)
    /\ WF_vars(DlStep /\ DlModeHandler)
    /\ WF_vars(DlStep /\ (DlWurq \/ DlStartupReply))
    /\ WF_vars(DlStep /\ IsduTimer)

LiveSpec == Spec /\ Fairness

-----------------------------------------------------------------------------
(* Properties.                                                             *)

(* A transaction of client c between its AL_REQ and its AL_CNF. *)
Pending(c) ==
    \/ \E j \in Jobs : j.type \in {"AL_REQ", "AL_CNF"} /\ j.client = c
    \/ alState # "OnReq_Idle" /\ alSvc.client = c

(* The ODE never waits for nothing: while it is in ODblocked (and refuses  *)
(* every other request) an AL service of its own is on its way.            *)
BlockedHasPending == ode = "ODblocked" => Pending("ODE")

(* Nor does the data storage client: its read is never taken for another's *)
(* when the AL refuses, aborts or confirms it.                             *)
DsHasPending == ds # NoReq => Pending("DS")

IsduKinds == {"ReadIsdu", "WriteIsdu"}

(* A positive answer to an ISDU request is the answer to that very         *)
(* request: a read returns the data the device holds for it, a write has   *)
(* reached the device.  (Of direct parameters the code does not keep this: *)
(* in OPERATE the octet of the exchange before is confirmed.)  Behind the  *)
(* data of a read there is nothing else, unless direct parameters are read *)
(* as well: the octet of such a read that the DL refused and carried out   *)
(* all the same is stored behind what is in the buffer.                    *)
AnswerIsOwn ==
    \A r \in Reqs : ans[r].res = "OK" /\ asked[r] \in IsduKinds =>
        /\ IF asked[r] = "ReadIsdu" THEN ans[r].val = r ELSE r \in served
        /\ ans[r].longer => \E q \in Ids : asked[q] = "ReadParam"

DlCnfTypes == {"ISDU_CNF", "READPARAM_CNF", "WRITEPARAM_CNF"}

(* While the AL awaits a DL confirmation, the confirmation is in the       *)
(* mailbox or the DL still has the service.                                *)
ServiceNotLost ==
    dlCall = NoCall =>
        /\ alState = "Await_DL_ISDU_cnf" =>
              \/ \E j \in Jobs : j.type = "ISDU_CNF"
              \/ /\ isduReq = alSvc.req
                 /\ IF isdu = "IDLE_1" THEN totSeg # 0 ELSE isdu # "INACTIVE_0"
        /\ alState = "Await_DL_param_cnf" =>
              \/ \E j \in Jobs : j.type \in DlCnfTypes \ {"ISDU_CNF"}
              \/ rwcmd \in {"READPARAM", "WRITEPARAM"}

(* An ISDU is confirmed only while the AL waits for it, and only once,     *)
(* whatever direct parameters, retries and events came before.             *)
NoStrayConfirmation ==
    \A i \in 1 .. Len(mbox) : mbox[i].type = "ISDU_CNF" =>
        /\ alState = "Await_DL_ISDU_cnf"
        /\ \A j \in 1 .. Len(mbox) : mbox[j].type = "ISDU_CNF" => j = i

(* Where each request stands in the abstract request/reply contract. *)
StatusOf(r) ==
    CASE asked[r] = "none"                  -> "unused"
      [] asked[r] # "none" /\ nAns[r] = 0   -> "asked"
      [] asked[r] # "none" /\ nAns[r] = 1   -> "answered"
      [] OTHER                              -> "answered again"

Status == [r \in Reqs |-> StatusOf(r)]

RR == INSTANCE RequestReply WITH status <- Status

(* The safety of the contract: only a request that was made is answered,   *)
(* and iolink_smi_cnf or iolink_smi_joberror_ind is called at most once    *)
(* for it.                                                                 *)
AnswersOnce == RR!Safety

(* The whole contract: every request is answered exactly once, if the      *)
(* threads keep running.                                                   *)
ImplementsRequestReply == RR!Spec
=============================================================================

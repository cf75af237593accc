-------------------------------- MODULE DsPort --------------------------------
(***************************************************************************)
(* One port from its configuration to OPERATE with the data storage at     *)
(* work: the configuration manager CM, the system management SM and the    *)
(* data storage DS, the data link layer below, as much of the application  *)
(* layer AL as they use, and the device at the other end.  The main thread *)
(* handles the jobs of the mailbox one at a time; the DL thread, the       *)
(* device and the application act in between.                              *)
(***************************************************************************)
EXTENDS ConfigurationManager, SystemManagement

CONSTANTS
    LegacyIds,  \* devices that speak V1.0
    Cfgs,       \* the configurations the application uses, a subset of Cfg
    ServedSets, \* the parameter sets it writes to the store (ParServToDS)
    Refusable,  \* what the device may refuse: indexes and commands
    Garbles,    \* the device may answer with "no service" (COM_ERR)
    Contended,  \* the ODE may occupy the AL in OPERATE
    Orderly,    \* the application and the plug wait until the port is at rest
    Limit       \* how often each disturbance happens: the bounds

Disturbances == {"config", "loss", "refusal", "change", "device", "serve"}

ASSUME DsPortAssumption ==
    /\ Cfgs \subseteq Cfg
    /\ ServedSets \subseteq SavedSet
    /\ BigIds \cup LockedIds \cup LegacyIds \subseteq Ids
    /\ SlowIds \cup NumberedIds \cup InterleaveIds \subseteq Ids
    /\ DOMAIN Vendor = Ids \cup {NoId}
    /\ Refusable \subseteq Indexes \cup Commands
    /\ {Garbles, Contended, Orderly} \subseteq BOOLEAN
    /\ Limit \in [Disturbances -> Nat]

VARIABLES
    svc,        \* the AL service in progress
    dev,        \* the device: what it keeps over a power cycle, and its mode
    used        \* how often each disturbance has happened

envVars == <<dev, used>>
vars == <<mbox, portId, cmVars, dsVars, smVars, dlVars, svc, envVars>>

NoSvc   == [dir |-> "none", index |-> "CMD", command |-> "BREAK", val |-> Wild]
Service == [dir : {"none", "read", "write"}, index : Indexes \cup {"CMD"},
            command : Commands, val : Values]

(* "shadow" takes the parameters of a block until DL_END; "offer" is the   *)
(* set the device had at the end of its last upload (history).             *)
Device == [id : Ids, rev : {"V10", "V11"}, vals : Sets, shadow : Sets, flag : BOOLEAN,
           mode : {"idle", "upload", "download"}, offer : SavedSet]

TypeOK ==
    /\ JobsTypeOK /\ CmTypeOK /\ DsTypeOK /\ SmTypeOK /\ DlTypeOK
    /\ svc \in Service /\ dev \in Device
    /\ used \in [Disturbances -> Nat]

Native(id) == IF id \in LegacyIds THEN "V10" ELSE "V11"

NewDev(id) == [id |-> id, rev |-> Native(id), vals |-> FirstSet(id), shadow |-> FirstSet(id),
               flag |-> FALSE, mode |-> "idle", offer |-> Nothing]

Init ==
    /\ JobsInit /\ CmInit /\ DsInit /\ SmInit /\ DlInit
    /\ svc = NoSvc
    /\ \E id \in Ids : dev = NewDev(id)
    /\ used = [d \in Disturbances |-> 0]

(* A disturbance happens once more. *)
Spend(d) == used[d] < Limit[d] /\ used' = [used EXCEPT ![d] = @ + 1]

(* A message handler in PREOPERATE has a request in progress. *)
Engaged == dl.mh = "PREOPERATE" /\ (Busy(dl) \/ dl.cmdh = "COMMAND")

(* Nothing is under way on the port. *)
SmRest == {"PortInactive", "wait", "SMOperate", "InspectionFault", "DIDO"}
AtRest ==
    /\ mbox = <<>> /\ svc = NoSvc /\ dsState \in RestStates /\ sm \in SmRest
    /\ ~dl.event /\ dl.mdh # "ESTCOM" /\ dl.left = "none" /\ ~dl.isdu
    /\ dl.rw \notin {"read", "write", "param"}
    /\ ~(dl.mh = "OPERATE" /\ ~linked) /\ ~Engaged
Admitted == Orderly => AtRest

(* A configuration is on its way to the SM or from there to the DL.        *)
Reconfiguring ==
    \/ \E j \in Jobs : j.type \in {"SMI_CFG", "SM_CFG"}
    \/ sm = "waitForFallback"
    \/ sm \in {"PortInactive", "DIDO"} /\ dl.event

-----------------------------------------------------------------------------
(* The jobs of the CM, the DS and the SM.                                  *)

CmStep ==
    /\ CmJob(smReal.id, mbox # <<>> /\ DS_Chk_Cfg(Head(mbox).cfg))
    /\ UNCHANGED <<dsVars, smVars, dlVars, svc, envVars>>

DsStep ==
    /\ DsJob
    /\ UNCHANGED <<portId, cmVars, smVars, dlVars, svc, envVars>>

SmStep ==
    /\ SmJob
    /\ UNCHANGED <<portId, cmVars, dsState, master, saved, linked, svc, envVars>>

-----------------------------------------------------------------------------
(* The application layer: one service at a time.                           *)

AlReq == mbox # <<>> /\ Head(mbox).type \in {"AL_READ_REQ", "AL_WRITE_REQ"}

ReqDir == IF Head(mbox).type = "AL_READ_REQ" THEN "read" ELSE "write"

(* Whose callback gets the confirmation: the SM reads the serial number    *)
(* and writes the cycle time, all else belongs to the DS.                  *)
CnfType(dir, index) ==
    CASE index = "SERNUM" -> "SERNUM_CNF"
      [] index = "CYCL"   -> "CYCL_CNF"
      [] OTHER            -> IF dir = "read" THEN "AL_READ_CNF" ELSE "AL_WRITE_CNF"

AlCnf(dir, index, res, snap) == Cnf(CnfType(dir, index), index, res, snap)

(* al_od_busy: another service, or one of the ODE, is in progress. *)
AlBusy ==
    /\ AlReq
    /\ svc # NoSvc \/ (Contended /\ sm = "SMOperate")
    /\ TakeAndPost(<<AlCnf(ReqDir, Head(mbox).index, "BUSY", NoSnap)>>)
    /\ UNCHANGED <<portId, cmVars, dsVars, smVars, dlVars, svc, envVars>>

(* al_od_isdu_read_write, al_od_param: what is written is read through the *)
(* pointer now.  The cycle time is a direct parameter, which the DL writes *)
(* without an ISDU.  Either may be refused at once.                        *)
AlService ==
    LET job == Head(mbox)
    IN  /\ AlReq
        /\ svc = NoSvc
        /\ svc' = [dir |-> ReqDir, index |-> job.index,
                   command |-> IF job.index = "CMD" THEN ds.command ELSE "BREAK",
                   val |-> IF job.pos > 0 THEN master.data[job.pos] ELSE Wild]
        /\ IF job.index = "CYCL"
           THEN \E accepted \in ParamAnswers(dl) :
                   /\ dl' = DL_WriteParam_req(dl)
                   /\ TakeAndPost(IF accepted THEN <<>> ELSE <<ParamCnf("ERR")>>)
           ELSE \E accepted \in IsduAnswers(dl) :
                   /\ dl' = IF accepted THEN DL_ISDUTransport_req(dl) ELSE dl
                   /\ TakeAndPost(IF accepted THEN <<>> ELSE <<IsduCnf("ERR", NoSnap)>>)
        /\ UNCHANGED <<portId, cmVars, dsVars, smVars, linked, envVars>>

(* al_od_send_al_cnf; a confirmation of the other kind is dropped. *)
AlConfirm ==
    LET job == Head(mbox)
    IN  /\ Take("ISDU_CNF") \/ Take("PARAM_CNF")
        /\ IF svc # NoSvc /\ (svc.index = "CYCL") = Take("PARAM_CNF")
           THEN /\ TakeAndPost(<<AlCnf(svc.dir, svc.index, job.res, job.snap)>>)
                /\ svc' = NoSvc
           ELSE TakeAndPost(<<>>) /\ UNCHANGED svc
        /\ UNCHANGED <<portId, cmVars, dsVars, smVars, dlVars, envVars>>

-----------------------------------------------------------------------------
(* The DL thread and the wire.                                             *)

(* What the device shows in its direct parameters. *)
Direct == [NoSnap EXCEPT !.id = dev.id, !.rev = dev.rev]

DlStep ==
    /\ \/ ModeHandler \/ Leave
       \/ ParamDone \/ DlClear
       \/ CommandSent \/ CommandDone \/ MessageLost(smAux.addr)
    /\ UNCHANGED <<portId, cmVars, dsVars, smVars, svc, envVars>>

(* The device starts again: it forgets the block it was in. *)
DlWakeUp ==
    /\ WakeUp(smAux.addr)
    /\ dev' = [dev EXCEPT !.mode = "idle", !.rev = Native(dev.id)]
    /\ UNCHANGED <<portId, cmVars, dsVars, smVars, svc, used>>

DlWakeUpFailed ==
    /\ WakeUpFailed
    /\ Spend("loss")
    /\ UNCHANGED <<portId, cmVars, dsVars, smVars, svc, dev>>

(* A restart asks the device to speak the configured revision; V1.0 cannot *)
(* change.  Devices that take another device id are not modelled.          *)
DlBlockDone ==
    /\ BlockDone(smAux.addr, IF dl.rw = "read" THEN Direct ELSE NoSnap)
    /\ \/ UNCHANGED dev
       \/ /\ dl.rw = "write" /\ smAux.addr = "RESTART"
          /\ CfgRev(smCfg) # "none" /\ dev.id \notin LegacyIds
          /\ dev' = [dev EXCEPT !.rev = CfgRev(smCfg)]
    /\ UNCHANGED <<portId, cmVars, dsVars, smVars, svc, used>>

-----------------------------------------------------------------------------
(* The device and the plug (external).                                     *)

(* The ISDU handler and the device are exchanging a service. *)
IsduExchange == dl.isdu /\ dl.rw = "isdu" /\ dl.odh = "ISDU" /\ OdExchange

Answer(res, snap) ==
    /\ Post(IsduCnf(res, snap))
    /\ dl' = Confirmed([Received(dl) EXCEPT !.isdu = FALSE], "isdu")

Shown == [id |-> dev.id, rev |-> "none", vals |-> dev.vals, flag |-> dev.flag]

(* What a command or a parameter write does to the device. *)
Commanded(c) ==
    CASE c = "UL_START" -> [dev EXCEPT !.mode = "upload"]
      [] c = "UL_END"   -> [dev EXCEPT !.mode = "idle", !.flag = FALSE,
                                       !.offer = [id |-> dev.id, set |-> dev.vals]]
      [] c = "DL_START" -> [dev EXCEPT !.mode = "download", !.shadow = dev.vals]
      [] c = "DL_END"   -> [dev EXCEPT !.mode = "idle",
                                       !.vals = IF dev.mode = "download" THEN dev.shadow ELSE @]
      [] OTHER          -> [dev EXCEPT !.mode = "idle"]

Written(p, v) ==
    IF dev.mode = "download" THEN [dev EXCEPT !.shadow[p] = v] ELSE [dev EXCEPT !.vals[p] = v]

DevRead ==
    /\ svc.dir = "read"
    /\ Answer("OK", IF svc.index = "SERNUM" THEN [NoSnap EXCEPT !.id = dev.id] ELSE Shown)
    /\ UNCHANGED dev

DevWrite ==
    /\ svc.dir = "write"
    /\ dev' = IF svc.index = "CMD" THEN Commanded(svc.command) ELSE Written(svc.index, svc.val)
    /\ Answer("OK", NoSnap)

DevAnswers ==
    /\ IsduExchange
    /\ DevRead \/ DevWrite
    /\ UNCHANGED <<portId, cmVars, dsVars, smVars, linked, svc, used>>

(* A negative response, or none that makes sense. *)
DevRefuses ==
    /\ IsduExchange
    /\ \/ (IF svc.index = "CMD" THEN svc.command ELSE svc.index) \in Refusable /\ Answer("ERR", NoSnap)
       \/ Garbles /\ Answer("COM_ERR", NoSnap)
    /\ Spend("refusal")
    /\ UNCHANGED <<portId, cmVars, dsVars, smVars, linked, svc, dev>>

(* A parameter is changed at the device itself, which raises the event     *)
(* DS_UPLOAD_REQ if it speaks V1.1; al_event_cb hands it to DS_Upload.     *)
LocalChange ==
    /\ dev.mode = "idle" /\ dl.left = "none"
    /\ Orderly => ~Reconfiguring
    /\ Spend("change")
    /\ \E p \in Params, n \in Versions :
          /\ dev.vals[p] # <<dev.id, n>>
          /\ dev' = [dev EXCEPT !.vals[p] = <<dev.id, n>>, !.flag = TRUE]
    /\ IF linked /\ dl.mdh = "OPERATE" /\ dl.mh = "OPERATE" /\ dev.rev = "V11"
       THEN Post(Signal("DS_UPLOAD")) ELSE UNCHANGED mbox
    /\ UNCHANGED <<portId, cmVars, dsVars, smVars, dlVars, svc>>

(* The line is cut, or the device loses its power.  The DL notices when a  *)
(* message gets no answer.                                                 *)
LinkLost ==
    /\ linked /\ dl.mdh \notin {"IDLE", "ESTCOM"}
    /\ Admitted
    /\ Spend("loss")
    /\ linked' = FALSE
    /\ dev' = [dev EXCEPT !.mode = "idle"]
    /\ UNCHANGED <<mbox, dl, portId, cmVars, dsVars, smVars, svc>>

(* An exchange takes a person: the main thread has caught up long before.  *)
NewDevice ==
    /\ ~linked \/ dl.mdh = "IDLE"
    /\ mbox = <<>> /\ Admitted
    /\ Spend("device")
    /\ \E id \in Ids : dev' = NewDev(id)
    /\ linked' = FALSE
    /\ UNCHANGED <<mbox, dl, portId, cmVars, dsVars, smVars, svc>>

-----------------------------------------------------------------------------
(* The application.                                                        *)

SMI_PortConfiguration_req ==
    /\ Admitted
    /\ Spend("config")
    /\ \E cfg \in Cfgs : Post(CfgJob("SMI_CFG", cfg))
    /\ UNCHANGED <<portId, cmVars, dsVars, smVars, dlVars, svc, dev>>

SMI_ParServToDS_req ==
    /\ Admitted
    /\ Spend("serve")
    /\ \E s \in ServedSets : ParServToDS(s.id, s.set)
    /\ UNCHANGED <<portId, cmVars, smVars, dlVars, svc, dev>>

-----------------------------------------------------------------------------
MainThread == CmStep \/ DsStep \/ SmStep \/ AlBusy \/ AlService \/ AlConfirm

DlThread == DlStep \/ DlWakeUp \/ DlBlockDone

Environment ==
    \/ DlWakeUpFailed \/ DevRefuses \/ LocalChange \/ LinkLost \/ NewDevice
    \/ SMI_PortConfiguration_req \/ SMI_ParServToDS_req

Next == MainThread \/ DlThread \/ DevAnswers \/ Environment

Spec == Init /\ [][Next]_vars

(* The main thread serves its mailbox, the DL thread the messages and the  *)
(* wake-up, and a device that communicates answers.                        *)
Fairness ==
    /\ WF_vars(MainThread)
    /\ WF_vars(DlThread \/ DlWakeUpFailed)
    /\ WF_vars(DevAnswers \/ DevRefuses)

LiveSpec == Spec /\ Fairness

-----------------------------------------------------------------------------
(* Properties.                                                             *)

DsActive == dsState \notin RestStates

(* A service for one of the indexes between its request and its            *)
(* confirmation.                                                           *)
ServicePending(indexes) ==
    \/ svc # NoSvc /\ svc.index \in indexes
    \/ \E j \in Jobs :
          /\ j.type \in {"AL_READ_REQ", "AL_WRITE_REQ", "AL_READ_CNF", "AL_WRITE_CNF",
                         "SERNUM_CNF", "CYCL_CNF"}
          /\ j.index \in indexes

(* While the CM is in DS_ParamManager, where it ignores everything but     *)
(* DS_Ready and DS_Fault, one of them is on its way: the job itself, the   *)
(* start of the data storage, or a service the data storage waits for.     *)
CmAnswered ==
    cm = "DS_ParamManager" =>
        \/ \E j \in Jobs : j.type \in {"DS_STARTUP", "DS_READY", "DS_FAULT"}
        \/ DsActive /\ ServicePending((Indexes \cup {"CMD"}) \ {"SERNUM", "CYCL"})

(* The SM is never left waiting: while it checks the device for the first  *)
(* time, an octet is being read or written or its confirmation is in the   *)
(* mailbox; while it waits for a mode, so is the last write, or the mode   *)
(* handler is to act, or the mode is in the mailbox; and a service runs    *)
(* while it waits for one.  Its own comlost_ignore rests on this.          *)
BlockPending ==
    \/ dl.mh = "STARTUP" /\ dl.rw \in {"read", "write"}
    \/ \E j \in Jobs : j.type \in {"DL_READ_CNF", "DL_WRITE_CNF"}

ModePending ==
    \/ dl.event \/ dl.left \in Leaves
    \/ \E j \in Jobs : j.type \in ModeJobs \cup {"MODE_COMLOST"}

SmAnswered ==
    /\ sm \in CompatStates /\ ~smAux.retry => BlockPending
    /\ sm \in {"waitonDLPreoperate", "waitonDLOperate"} => BlockPending \/ ModePending
    /\ sm = "checkSerNum" => ServicePending({"SERNUM"})
    /\ sm = "write_master_cycl" => ServicePending({"CYCL"})

(* The SM is never given an answer it did not ask for, which it asserts.   *)
NoAssertion == ~SmAsserts

(* The port reports OPERATE only for a device that passed the checks of    *)
(* its present configuration, until the SM reports that it lost it.        *)
ActiveMeansChecked ==
    cm = "Port_Active" =>
        \/ \E j \in Jobs : j.type = "COMLOST"
        \/ sm = "SMOperate" /\ (cmCfg.backup = "CHECK_NO" \/ smReal.id = cmCfg.id)

(* The store never mixes devices: every value in a valid set came from the *)
(* device whose identity the set is kept under.                            *)
StoredIsOwn ==
    master.valid => \A i \in 1 .. master.size : master.data[i][1] = master.id

(* A parameter is only ever written to a device with the identity that the *)
(* set is stored for.                                                      *)
WritesToChecked ==
    IsduExchange /\ svc.dir = "write" /\ svc.index \in Params => dev.id = master.id

(* When the data storage of a port with restore reports that it is ready,  *)
(* the device has the stored parameters, unless they were changed at the   *)
(* device meanwhile, which its upload flag shows.                          *)
ReadyMeansRestored ==
    [][/\ dsState \in {"CheckUpload", "StoreDataSet", "Download_Done"}
       /\ dsState' = "WaitingOnDSActivity"
       /\ Head(mbox).res = "OK"
       /\ ds.download
       => dev.vals = saved'.set \/ dev.flag]_vars

OwnValues(id) == {<<id, n>> : n \in Versions}

(* What the data storage promises. *)
Backup == INSTANCE ParameterBackup WITH
    stored  <- saved,
    device  <- [id |-> dev.id, set |-> dev.vals],
    offer   <- dev.offer,
    Factory <- {[id |-> id, set |-> FirstSet(id)] : id \in Ids},
    Served  <- ServedSets,
    Own     <- OwnValues

ImplementsBackup == Backup!Spec

(* A configured port does not stay in between: its start-up ends, the CM   *)
(* leaves DS_ParamManager, and the data storage comes to rest.             *)
Settles ==
    /\ cm = "SM_Startup" ~> cm # "SM_Startup"
    /\ cm = "DS_ParamManager" ~> cm # "DS_ParamManager"
    /\ DsActive ~> ~DsActive
=============================================================================

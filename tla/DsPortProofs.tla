---------------------------- MODULE DsPortProofs ----------------------------
(***************************************************************************)
(* The types of DsPort: for any devices, parameters, configurations and    *)
(* disturbances, the cursors of the data storage stay in the store and in  *)
(* the index list, whatever it is told in whatever state.                  *)
(*                                                                         *)
(* With a port that is configured at rest (Orderly): the SM is never given *)
(* an answer it has no row for, and the CM says Port_Active only for a     *)
(* device that was checked.                                                *)
(***************************************************************************)
EXTENDS DsPort, SequenceTheorems, TLAPS

(* What TypeOK does not say of the jobs: a request of the AL names an      *)
(* index of the device, and a pointer into the store is one of its entries.*)
Requests == {"AL_READ_REQ", "AL_WRITE_REQ"}
PortJob ==
    {j \in Job : j.pos \in 0 .. N /\ (j.type \in Requests => j.index \in Indexes \cup {"CMD"})}

DsRecord ==
    [enable : BOOLEAN, upload : BOOLEAN, download : BOOLEAN,
     command : Commands, pending : Ids \cup {NoId}, cs : Sets, il : 0 .. N]
Store ==
    [id : Ids \cup {NoId}, cs : Sets, valid : BOOLEAN,
     size : 0 .. N, pos : 0 .. N, data : [1 .. N -> Values]]
Real == [id : Ids \cup {NoId}, rev : Revs]
Aux  == [retry : BOOLEAN, error : BOOLEAN, addr : Blocks]

MboxTyped == mbox \in Seq(PortJob)
CmTyped   == portId \in Ids \cup {NoId} /\ cm \in CmStates /\ cmCfg \in Cfg
DsTyped   == dsState \in DsStates /\ ds \in DsRecord /\ master \in Store /\ saved \in SavedSet
SmTyped   == sm \in SmStates /\ smCfg \in Cfg /\ smReal \in Real /\ smAux \in Aux
EnvTyped  == svc \in Service /\ dev \in Device /\ used \in [Disturbances -> Nat]

TypeInv == MboxTyped /\ CmTyped /\ DsTyped /\ SmTyped /\ DlTypeOK /\ EnvTyped

-----------------------------------------------------------------------------
(* The index list. *)
LEMMA ListFacts ==
    /\ N \in Nat /\ N >= 1
    /\ \A i \in 1 .. N : IndexList[i] \in Params
    /\ \A p \in Params : \E i \in 1 .. N : IndexList[i] = p
<1>1. IndexList \in Seq(Params) /\ IndexList # <<>> /\ Range(IndexList) = Params
  BY PortJobsAssumption
<1>2. N \in Nat /\ N >= 1
  BY <1>1, EmptySeq, LenProperties DEF N
<1>3. IndexList \in [1 .. N -> Params]
  BY <1>1, LenProperties DEF N
<1>4. DOMAIN IndexList = 1 .. N
  BY <1>3
<1>5. \A p \in Params : \E i \in 1 .. N : IndexList[i] = p
  BY <1>1, <1>4 DEF Range
<1> QED BY <1>2, <1>3, <1>5

(* Values nobody wrote, and the sets of a new device. *)
LEMMA WildFacts ==
    /\ Wild \in Values /\ WildSet \in Sets /\ Nothing \in SavedSet
    /\ NoSnap \in Snapshot /\ NoCfg \in Cfg
    /\ \A id \in Ids : FirstSet(id) \in Sets
<1>1. Wild \in Values
  BY DEF Wild, Values
<1>2. WildSet \in Sets
  BY <1>1 DEF WildSet, Sets
<1>3. ASSUME NEW id \in Ids PROVE FirstSet(id) \in Sets
  <2>1. <<id, 0>> \in Values
    BY PortJobsAssumption DEF Values
  <2> QED BY <2>1 DEF FirstSet, Sets
<1>4. Nothing \in SavedSet
  BY <1>2 DEF Nothing, SavedSet
<1>5. NoSnap \in Snapshot
  BY <1>2 DEF NoSnap, Snapshot, Revs
<1>6. NoCfg \in Cfg
  BY DEF NoCfg, Cfg, Modes, Backups
<1> QED BY <1>1, <1>2, <1>3, <1>4, <1>5, <1>6

-----------------------------------------------------------------------------
(* Jobs. *)
LEMMA SignalJob == ASSUME NEW type \in JobTypes
                   PROVE  Signal(type) \in PortJob /\ <<Signal(type)>> \in Seq(PortJob)
<1>1. Signal(type) \in Job
  BY WildFacts DEF Signal, Job, Results
<1>2. 0 \in 0 .. N
  BY ListFacts
<1>3. Signal(type).pos = 0 /\ Signal(type).index = "CMD"
  BY DEF Signal
<1> QED BY <1>1, <1>2, <1>3 DEF PortJob

LEMMA CfgIsJob == ASSUME NEW type \in JobTypes, NEW cfg \in Cfg
                  PROVE  CfgJob(type, cfg) \in PortJob /\ <<CfgJob(type, cfg)>> \in Seq(PortJob)
<1>1. Signal(type) \in Job /\ Signal(type).pos \in 0 .. N /\ Signal(type).index = "CMD"
  BY SignalJob DEF PortJob, Signal
<1>2. CfgJob(type, cfg) \in Job
  BY <1>1 DEF CfgJob, Job
<1>3. /\ CfgJob(type, cfg).pos = Signal(type).pos
      /\ CfgJob(type, cfg).index = Signal(type).index
  BY <1>1 DEF CfgJob, Job
<1> QED BY <1>1, <1>2, <1>3 DEF PortJob

LEMMA ReadIsJob == ASSUME NEW index \in Indexes
                   PROVE  ReadReq(index) \in PortJob /\ <<ReadReq(index)>> \in Seq(PortJob)
<1>1. Signal("AL_READ_REQ") \in Job /\ Signal("AL_READ_REQ").pos \in 0 .. N
  BY SignalJob DEF PortJob, JobTypes
<1>2. ReadReq(index) \in Job
  BY <1>1 DEF ReadReq, Job
<1>3. ReadReq(index).pos \in 0 .. N /\ ReadReq(index).index = index
  BY <1>1 DEF ReadReq, Job
<1> QED BY <1>2, <1>3 DEF PortJob

LEMMA WriteIsJob == ASSUME NEW index \in Indexes \cup {"CMD"}, NEW pos \in 0 .. N
                    PROVE  /\ WriteReq(index, pos) \in PortJob
                           /\ <<WriteReq(index, pos)>> \in Seq(PortJob)
                           /\ <<WriteReq(index, pos), WriteReq(index, pos)>> \in Seq(PortJob)
<1>1. Signal("AL_WRITE_REQ") \in Job
  BY SignalJob DEF PortJob, JobTypes
<1>0. pos \in Nat /\ index \in Indexes \cup Blocks \cup {"CMD"}
  BY ListFacts
<1>2. WriteReq(index, pos) \in Job
  BY <1>0, <1>1 DEF WriteReq, Job
<1>3. WriteReq(index, pos).pos = pos /\ WriteReq(index, pos).index = index
  BY <1>1 DEF WriteReq, Job
<1> QED BY <1>2, <1>3 DEF PortJob

Answers == {"DL_READ_CNF", "DL_WRITE_CNF", "DEVMODE_CNF", "PARAM_CNF", "ISDU_CNF",
            "AL_READ_CNF", "AL_WRITE_CNF", "SERNUM_CNF", "CYCL_CNF"}

LEMMA CnfIsJob ==
  ASSUME NEW type \in Answers, NEW index \in Indexes \cup Blocks \cup {"CMD"},
         NEW res \in Results, NEW snap \in Snapshot
  PROVE  Cnf(type, index, res, snap) \in PortJob /\ <<Cnf(type, index, res, snap)>> \in Seq(PortJob)
<1>1. type \in JobTypes /\ type \notin Requests
  BY DEF Answers, JobTypes, Requests
<1>2. Signal(type) \in Job /\ Signal(type).pos \in 0 .. N /\ Signal(type).type = type
  BY <1>1, SignalJob DEF PortJob, Signal
<1>3. Cnf(type, index, res, snap) \in Job
  BY <1>2 DEF Cnf, Job
<1>4. Cnf(type, index, res, snap).pos \in 0 .. N /\ Cnf(type, index, res, snap).type = type
  BY <1>2 DEF Cnf, Job
<1> QED BY <1>1, <1>3, <1>4 DEF PortJob

(* The confirmations of the DL. *)
LEMMA DlAnswers ==
    /\ \A rw \in {"none", "read", "write", "param", "isdu"}, block \in Blocks, res \in Results,
          snap \in Snapshot : <<BlockCnf(rw, block, res, snap)>> \in Seq(PortJob)
    /\ \A res \in Results : /\ <<DevmodeCnf(res)>> \in Seq(PortJob)
                            /\ <<ParamCnf(res)>> \in Seq(PortJob)
    /\ \A res \in Results, snap \in Snapshot :
          IsduCnf(res, snap) \in PortJob /\ <<IsduCnf(res, snap)>> \in Seq(PortJob)
<1>1. {"DL_READ_CNF", "DL_WRITE_CNF", "DEVMODE_CNF", "PARAM_CNF", "ISDU_CNF"} \subseteq Answers
  BY DEF Answers
<1>2. "CYCL" \in Indexes
  BY DEF Indexes
<1> QED BY <1>1, <1>2, CnfIsJob, WildFacts DEF BlockCnf, DevmodeCnf, ParamCnf, IsduCnf

(* The head of the mailbox. *)
LEMMA HeadFacts ==
  ASSUME MboxTyped, mbox # <<>>
  PROVE  /\ Head(mbox) \in PortJob /\ Tail(mbox) \in Seq(PortJob)
         /\ Head(mbox).type \in JobTypes /\ Head(mbox).cfg \in Cfg
         /\ Head(mbox).index \in Indexes \cup Blocks \cup {"CMD"}
         /\ Head(mbox).res \in Results /\ Head(mbox).snap \in Snapshot
         /\ Head(mbox).pos \in 0 .. N
         /\ Head(mbox).type \in Requests => Head(mbox).index \in Indexes \cup {"CMD"}
<1>1. Head(mbox) \in PortJob /\ Tail(mbox) \in Seq(PortJob)
  BY HeadTailProperties DEF MboxTyped
<1>2. Head(mbox) \in Job
  BY <1>1 DEF PortJob
<1>3. /\ Head(mbox).type \in JobTypes /\ Head(mbox).cfg \in Cfg
      /\ Head(mbox).index \in Indexes \cup Blocks \cup {"CMD"}
      /\ Head(mbox).res \in Results /\ Head(mbox).snap \in Snapshot
  BY <1>2 DEF Job
<1> QED BY <1>1, <1>3 DEF PortJob

LEMMA TakeKeeps ==
  ASSUME MboxTyped, mbox # <<>>, NEW s \in Seq(PortJob), TakeAndPost(s)
  PROVE  MboxTyped'
<1>1. Tail(mbox) \in Seq(PortJob)
  BY HeadFacts
<1> QED BY <1>1, ConcatProperties DEF TakeAndPost, MboxTyped

LEMMA PostKeeps ==
  ASSUME MboxTyped, NEW j \in PortJob, Post(j)
  PROVE  MboxTyped'
  BY AppendProperties DEF Post, MboxTyped

LEMMA EmptyPost == <<>> \in Seq(PortJob)
  BY EmptySeq

LEMMA TwoPosts ==
  ASSUME NEW s \in Seq(PortJob), NEW t \in Seq(PortJob) PROVE s \o t \in Seq(PortJob)
  BY ConcatProperties

-----------------------------------------------------------------------------
(* The configuration manager. *)
LEMMA StartKeeps ==
  ASSUME TypeInv, mbox # <<>>, NEW keep, CmCfgChange(keep)
  PROVE  CmTyped' /\ MboxTyped'
<1> DEFINE cfg == Head(mbox).cfg
<1>1. cfg \in Cfg
  BY HeadFacts DEF TypeInv
<1>2. {"DS_DELETE", "DS_INIT", "SM_CFG"} \subseteq JobTypes
  BY DEF JobTypes
<1>3. /\ <<Signal("DS_DELETE")>> \in Seq(PortJob)
      /\ CfgJob("DS_INIT", cfg) \in PortJob /\ CfgJob("SM_CFG", cfg) \in PortJob
      /\ Signal("DS_DELETE") \in PortJob
      /\ <<CfgJob("SM_CFG", NoCfg)>> \in Seq(PortJob)
  BY <1>1, <1>2, SignalJob, CfgIsJob, WildFacts
<1> USE DEF TypeInv, CmTyped
<1> HIDE DEF cfg
<1>4. CASE StartPort(cfg, keep)
  <2> DEFINE first == IF cfg.mode = "IOL_MAN" /\ keep THEN <<>> ELSE <<Signal("DS_DELETE")>>
             then == <<CfgJob("DS_INIT", cfg), CfgJob("SM_CFG", cfg)>>
  <2>1. first \in Seq(PortJob) /\ then \in Seq(PortJob)
    BY <1>3, EmptyPost
  <2>2. TakeAndPost(first \o then) /\ cm' = "SM_Startup" /\ cmCfg' = cfg /\ portId' = portId
    BY <1>4 DEF StartPort, CmEnter
  <2> HIDE DEF first, then
  <2>3. MboxTyped'
    BY <2>1, <2>2, TwoPosts, TakeKeeps
  <2> QED BY <1>1, <2>2, <2>3 DEF CmStates
<1>5. CASE StartDiDo(cfg)
  <2> DEFINE posts == <<Signal("DS_DELETE"), CfgJob("DS_INIT", cfg), CfgJob("SM_CFG", cfg)>>
  <2>1. posts \in Seq(PortJob)
    BY <1>3
  <2>2. TakeAndPost(posts) /\ cm' = "Port_DIDO" /\ cmCfg' = cfg /\ portId' = NoId
    BY <1>5 DEF StartDiDo, CmEnter
  <2> HIDE DEF posts
  <2> QED BY <1>1, <2>1, <2>2, TakeKeeps DEF CmStates
<1>6. CASE Deactivate(cfg)
  BY <1>1, <1>3, <1>6, TakeKeeps DEF Deactivate, CmEnter, CmStates
<1>7. CASE RefuseCfg(cfg)
  <2> DEFINE refused == [NoCfg EXCEPT !.mode = cmCfg.mode]
             posts == <<Signal("DS_DELETE"), CfgJob("SM_CFG", refused)>>
  <2>1. refused \in Cfg
    BY WildFacts DEF Cfg
  <2>2. posts \in Seq(PortJob)
    BY <1>2, <1>3, <2>1, CfgIsJob
  <2>3. TakeAndPost(posts) /\ cm' = "Port_Deactivated" /\ cmCfg' = cmCfg /\ portId' = NoId
    BY <1>7 DEF RefuseCfg, CmEnter
  <2> HIDE DEF posts
  <2> QED BY <2>2, <2>3, TakeKeeps DEF CmStates
<1> QED BY <1>4, <1>5, <1>6, <1>7 DEF CmCfgChange, cfg

LEMMA CmKeeps ==
  ASSUME TypeInv, CmStep PROVE TypeInv'
<1> DEFINE id == smReal.id
           keep == mbox # <<>> /\ DS_Chk_Cfg(Head(mbox).cfg)
<1>1. id \in Ids \cup {NoId}
  BY DEF TypeInv, SmTyped, Real
<1>2. /\ {<<Signal("DS_STARTUP")>>, <<Signal("SM_OPERATE")>>} \subseteq Seq(PortJob)
      /\ <<>> \in Seq(PortJob)
  BY SignalJob, EmptyPost DEF JobTypes
<1> HIDE DEF id, keep
<1>3. CmTyped' /\ MboxTyped'
  <2> USE DEF TypeInv, CmTyped, Take, cmVars
  <2>1. CmJob(id, keep)
    BY DEF CmStep, id, keep
  <2>2. CASE CmCfgIgnored
    BY <1>2, <2>2, TakeKeeps DEF CmCfgIgnored
  <2>3. CASE CmCfgChange(keep)
    BY <2>3, StartKeeps DEF CmCfgChange
  <2>4. CASE CmComready(id)
    BY <1>1, <1>2, <2>4, TakeKeeps DEF CmComready, CmEnter, CmStates
  <2>5. CASE CmSmFault(id)
    BY <1>1, <1>2, <2>5, TakeKeeps DEF CmSmFault, CmEnter, CmStates
  <2>6. CASE CmOperate(id)
    BY <1>1, <1>2, <2>6, TakeKeeps DEF CmOperate, CmEnter, CmStates
  <2>7. CASE CmComlost
    BY <1>2, <2>7, TakeKeeps DEF CmComlost, CmEnter, CmStates
  <2>8. CASE CmDsReady
    BY <1>2, <2>8, TakeKeeps DEF CmDsReady, CmEnter, CmStates
  <2>9. CASE CmDsFault(id)
    BY <1>1, <1>2, <2>9, TakeKeeps DEF CmDsFault, CmEnter, CmStates
  <2> QED BY <2>1, <2>2, <2>3, <2>4, <2>5, <2>6, <2>7, <2>8, <2>9 DEF CmJob
<1> QED BY <1>3 DEF TypeInv, CmStep, dsVars, smVars, dlVars, envVars, DsTyped, SmTyped,
                    DlTypeOK, EnvTyped

-----------------------------------------------------------------------------
(* The data storage. *)
LEMMA DsNames ==
    /\ {"CheckActivationState", "WaitingOnDSActivity", "Off", "ReadParameter", "StoreDataSet",
        "Decompose_Set", "Write_Parameter", "Download_Done", "CheckIdentity", "CheckMemSize",
        "CheckUpload", "CheckDSValidity", "DS_Fault"} \subseteq DsStates
    /\ {"SIZE", "STATE", "CHECKSUM", "LIST", "SERNUM", "CYCL"} \subseteq Indexes
    /\ Params \subseteq Indexes
    /\ {"UL_START", "UL_END", "DL_START", "DL_END", "BREAK"} \subseteq Commands
    /\ <<Signal("DS_READY")>> \in Seq(PortJob) /\ <<Signal("DS_FAULT")>> \in Seq(PortJob)
    /\ <<WriteReq("CMD", 0)>> \in Seq(PortJob)
    /\ <<WriteReq("CMD", 0), WriteReq("CMD", 0)>> \in Seq(PortJob)
    /\ <<>> \in Seq(PortJob)
<1>1. 0 \in 0 .. N /\ "CMD" \in Indexes \cup {"CMD"}
  BY ListFacts
<1>2. {"DS_READY", "DS_FAULT"} \subseteq JobTypes
  BY DEF JobTypes
<1> QED BY <1>1, <1>2, SignalJob, WriteIsJob, EmptyPost
        DEF DsStates, RestStates, UploadStates, DlStates, Indexes, Commands

LEMMA DsFields ==
  ASSUME NEW d \in DsRecord
  PROVE  /\ \A c \in Commands : [d EXCEPT !.command = c] \in DsRecord
         /\ \A cs \in Sets : [d EXCEPT !.cs = cs] \in DsRecord
         /\ \A cs \in Sets, c \in Commands : [d EXCEPT !.cs = cs, !.command = c] \in DsRecord
         /\ \A b \in BOOLEAN : [d EXCEPT !.enable = b] \in DsRecord
         /\ \A i \in 0 .. N : [d EXCEPT !.il = i] \in DsRecord
         /\ \A u, w, e \in BOOLEAN, id \in Ids \cup {NoId} :
               [d EXCEPT !.upload = u, !.download = w, !.enable = e, !.pending = id] \in DsRecord
  BY DEF DsRecord

LEMMA StoreFields ==
  ASSUME NEW m \in Store
  PROVE  /\ \A i \in 0 .. N : [m EXCEPT !.pos = i] \in Store
         /\ \A id \in Ids \cup {NoId}, cs \in Sets, b \in BOOLEAN :
               /\ [m EXCEPT !.id = id, !.cs = cs, !.valid = b] \in Store
               /\ \A i \in 0 .. N :
                     [m EXCEPT !.id = id, !.cs = cs, !.valid = b, !.pos = i] \in Store
  BY DEF Store

(* An entry is added behind the cursor. *)
LEMMA StoreEntry ==
  ASSUME NEW m \in Store, m.pos < N, NEW v \in Values, NEW size \in {m.size, m.pos + 1}
  PROVE  [m EXCEPT !.pos = @ + 1, !.data[m.pos + 1] = v, !.size = size] \in Store
<1>1. m.pos \in 0 .. N /\ m.size \in 0 .. N /\ m.data \in [1 .. N -> Values]
  BY DEF Store
<1>2. m.pos + 1 \in 0 .. N /\ size \in 0 .. N
  BY <1>1, ListFacts
<1>3. [m.data EXCEPT ![m.pos + 1] = v] \in [1 .. N -> Values]
  BY <1>1
<1> QED BY <1>2, <1>3 DEF Store

LEMMA StoredType == ASSUME NEW m \in Store PROVE StoredSet(m) \in Sets
<1>1. ASSUME NEW p \in Params
      PROVE  m.data[CHOOSE i \in 1 .. N : IndexList[i] = p] \in Values
  <2>1. (CHOOSE i \in 1 .. N : IndexList[i] = p) \in 1 .. N
    BY ListFacts
  <2> QED BY <2>1 DEF Store
<1> QED BY <1>1 DEF StoredSet, Sets

LEMMA DsFacts ==
  ASSUME TypeInv
  PROVE  /\ MboxTyped /\ dsState \in DsStates /\ ds \in DsRecord /\ master \in Store
         /\ saved \in SavedSet /\ portId \in Ids \cup {NoId}
         /\ ds.enable \in BOOLEAN /\ ds.pending \in Ids \cup {NoId} /\ ds.cs \in Sets
         /\ ds.il \in 0 .. N /\ ds.upload \in BOOLEAN
         /\ master.size \in 0 .. N /\ master.pos \in 0 .. N /\ master.cs \in Sets
         /\ master.id \in Ids \cup {NoId} /\ master.data \in [1 .. N -> Values]
  BY DEF TypeInv, DsTyped, CmTyped, DsRecord, Store

(* What the handlers of the data storage leave behind. *)
DsKept == DsTyped /\ MboxTyped

LEMMA EnterKeeps ==
  ASSUME TypeInv, mbox # <<>>, NEW state \in DsStates, NEW s \in Seq(PortJob), Enter(state, s)
  PROVE  dsState' \in DsStates /\ MboxTyped'
  BY TakeKeeps DEF TypeInv, Enter

LEMMA ReadInKeeps ==
  ASSUME TypeInv, mbox # <<>>, NEW state \in DsStates, NEW index \in Indexes, ReadIn(state, index)
  PROVE  dsState' \in DsStates /\ MboxTyped'
  BY EnterKeeps, ReadIsJob DEF ReadIn

LEMMA WriteInKeeps ==
  ASSUME TypeInv, mbox # <<>>, NEW state \in DsStates, NEW c \in Commands, WriteIn(state, c)
  PROVE  dsState' \in DsStates /\ MboxTyped' /\ ds' \in DsRecord
  BY EnterKeeps, DsNames, DsFields, DsFacts DEF WriteIn

LEMMA ReportKeeps ==
  ASSUME TypeInv, mbox # <<>>, ReportFault \/ ReportReady
  PROVE  dsState' \in DsStates /\ MboxTyped'
  BY EnterKeeps, DsNames DEF ReportFault, ReportReady

LEMMA IgnoreKeeps ==
  ASSUME TypeInv, mbox # <<>>, Ignore PROVE DsKept'
  BY TakeKeeps, DsNames, DsFacts DEF Ignore, dsVars, DsKept, DsTyped

LEMMA ComErrKeeps ==
  ASSUME TypeInv, mbox # <<>>, ComErr PROVE DsKept'
<1>1. CASE BreakOff
  BY <1>1, WriteInKeeps, DsNames, DsFacts DEF BreakOff, DsKept, DsTyped
<1>2. CASE Enter("WaitingOnDSActivity", <<>>) /\ UNCHANGED <<ds, master, saved>>
  BY <1>2, EnterKeeps, DsNames, DsFacts DEF DsKept, DsTyped
<1> QED BY <1>1, <1>2, IgnoreKeeps DEF ComErr

LEMMA InitCbKeeps ==
  ASSUME TypeInv, mbox # <<>>, DsInitCb PROVE DsKept'
<1> DEFINE cfg == Head(mbox).cfg
           restore == cfg.mode = "IOL_MAN" /\ cfg.backup \in {"RESTORE", "BAK_RESTORE"}
           state == IF dsState \in RestStates \cup {"CheckIdentity", "CheckMemSize"}
                    THEN IF ds'.enable THEN "WaitingOnDSActivity" ELSE "Off"
                    ELSE dsState
<1>1. cfg.id \in Ids \cup {NoId}
  BY HeadFacts, DsFacts DEF Cfg
<1>2. /\ ds' = [ds EXCEPT !.upload = restore /\ cfg.backup = "BAK_RESTORE",
                          !.download = restore,
                          !.enable = ds.enable \/ restore,
                          !.pending = cfg.id]
      /\ Enter(state, <<>>) /\ master' = master /\ saved' = saved
  BY DEF DsInitCb
<1>3. /\ (restore /\ cfg.backup = "BAK_RESTORE") \in BOOLEAN /\ restore \in BOOLEAN
      /\ (ds.enable \/ restore) \in BOOLEAN
  OBVIOUS
<1>4. state \in DsStates
  BY DsNames, DsFacts
<1> HIDE DEF cfg, restore, state
<1>5. ds' \in DsRecord
  BY <1>1, <1>2, <1>3, DsFields, DsFacts
<1>6. dsState' \in DsStates /\ MboxTyped'
  BY <1>2, <1>4, EnterKeeps, DsNames
<1> QED BY <1>2, <1>5, <1>6, DsFacts DEF DsKept, DsTyped

LEMMA DeleteCbKeeps ==
  ASSUME TypeInv, mbox # <<>>, DsDeleteCb PROVE DsKept'
<1>1. MboxTyped' /\ dsState' = dsState /\ ds' = ds
  BY TakeKeeps, DsNames, DsFacts DEF DsDeleteCb
<1> DEFINE cleared == [master EXCEPT !.id = NoId, !.cs = WildSet, !.valid = FALSE, !.pos = 0]
<1>0. cleared \in Store
  <2>1. 0 \in 0 .. N /\ NoId \in Ids \cup {NoId} /\ WildSet \in Sets /\ FALSE \in BOOLEAN
    BY ListFacts, WildFacts
  <2> QED BY <2>1, StoreFields, DsFacts
<1> HIDE DEF cleared
<1>2. master' \in {master, cleared} /\ saved' \in {saved, Nothing}
  BY DEF DsDeleteCb, cleared
<1>3. master' \in Store /\ saved' \in SavedSet
  BY <1>0, <1>2, WildFacts, DsFacts
<1> QED BY <1>1, <1>3, DsFacts DEF DsKept, DsTyped

LEMMA CheckIdKeeps ==
  ASSUME TypeInv, mbox # <<>>, CheckId PROVE DsKept'
  BY ReadInKeeps, ReportKeeps, DsNames, DsFacts DEF CheckId, DsKept, DsTyped

LEMMA StartKeepsDs ==
  ASSUME TypeInv, mbox # <<>>, DsStartupCb \/ DsUploadCb PROVE DsKept'
<1>1. CASE CheckId
  BY <1>1, CheckIdKeeps
<1>2. CASE Enter("Off", <<Signal("DS_READY")>>) /\ UNCHANGED <<ds, master, saved>>
  BY <1>2, EnterKeeps, DsNames, DsFacts DEF DsKept, DsTyped
<1> QED BY <1>1, <1>2, IgnoreKeeps DEF DsStartupCb, DsUploadCb

-----------------------------------------------------------------------------
(* Confirmations of reads. *)
LEMMA ChecksumType ==
  ASSUME TypeInv, mbox # <<>>, NEW cs \in ReadChecksum PROVE cs \in Sets
<1>1. Head(mbox).snap.vals \in Sets
  BY HeadFacts, DsFacts DEF Snapshot
<1> QED BY <1>1, WildFacts, DsFacts DEF ReadChecksum

LEMMA ReadValueType ==
  ASSUME TypeInv, mbox # <<>> PROVE ReadValue \in Values
<1>1. Head(mbox).snap.vals \in [Params -> Values]
  BY HeadFacts, DsFacts DEF Snapshot, Sets
<1> QED BY <1>1, WildFacts DEF ReadValue

LEMMA SizeReadKeeps ==
  ASSUME TypeInv, mbox # <<>>, SizeRead PROVE DsKept'
  BY ReadInKeeps, ReportKeeps, DsNames, DsFacts DEF SizeRead, DsKept, DsTyped

LEMMA StateReadKeeps ==
  ASSUME TypeInv, mbox # <<>>, StateRead PROVE DsKept'
<1>1. [ds EXCEPT !.enable = FALSE] \in DsRecord
  BY DsFields, DsFacts
<1>2. dsState' \in DsStates /\ MboxTyped' /\ ds' \in DsRecord
  <2>1. CASE ReportFault /\ ds' \in {ds, [ds EXCEPT !.enable = FALSE]}
    BY <1>1, <2>1, ReportKeeps, DsFacts
  <2>2. CASE WriteIn("CheckUpload", "UL_START")
    BY <2>2, WriteInKeeps, DsNames
  <2>3. CASE ReadIn("CheckUpload", "CHECKSUM") /\ UNCHANGED ds
    BY <2>3, ReadInKeeps, DsNames, DsFacts
  <2> QED BY <2>1, <2>2, <2>3 DEF StateRead
<1> QED BY <1>2, DsFacts DEF StateRead, DsKept, DsTyped

LEMMA ChecksumReadKeeps ==
  ASSUME TypeInv, mbox # <<>>, ChecksumRead PROVE DsKept'
<1>1. PICK cs \in ReadChecksum :
        \/ /\ ds' = [ds EXCEPT !.cs = cs, !.command = "UL_START"]
           /\ Enter("CheckDSValidity", <<WriteReq("CMD", 0)>>)
        \/ /\ ds' = [ds EXCEPT !.cs = cs, !.command = "DL_START"]
           /\ Enter("Decompose_Set", <<WriteReq("CMD", 0)>>)
        \/ /\ ds' = [ds EXCEPT !.cs = cs]
           /\ ReportReady
  BY DEF ChecksumRead
<1>2. cs \in Sets
  BY ChecksumType
<1>3. ds' \in DsRecord
  <2>1. /\ "UL_START" \in Commands /\ "DL_START" \in Commands
        /\ \A c \in Commands : [ds EXCEPT !.cs = cs, !.command = c] \in DsRecord
        /\ [ds EXCEPT !.cs = cs] \in DsRecord
    BY <1>2, DsNames, DsFields, DsFacts
  <2> QED BY <1>1, <2>1, Zenon
<1>4. dsState' \in DsStates /\ MboxTyped'
  BY <1>1, EnterKeeps, ReportKeeps, DsNames
<1> QED BY <1>3, <1>4, DsFacts DEF ChecksumRead, DsKept, DsTyped

LEMMA ParameterReadKeeps ==
  ASSUME TypeInv, mbox # <<>>, ParameterRead PROVE DsKept'
<1>1. CASE BreakOff
  BY <1>1, WriteInKeeps, DsNames, DsFacts DEF BreakOff, DsKept, DsTyped
<1>2. CASE ~BreakOff
  <2> DEFINE size == IF ds.il < N THEN master.size ELSE master.pos + 1
             filled == [master EXCEPT !.pos = @ + 1, !.data[master.pos + 1] = ReadValue,
                                      !.size = size]
  <2>1. /\ IF ds.il > 0 /\ master.pos < N
           THEN master' = [master EXCEPT !.pos = @ + 1, !.data[master.pos + 1] = ReadValue,
                                         !.size = IF ds.il < N THEN @ ELSE master.pos + 1]
           ELSE master' = master
        /\ IF ds.il < N
           THEN /\ ds' = [ds EXCEPT !.il = @ + 1]
                /\ ReadIn("ReadParameter", IndexList[ds.il + 1])
           ELSE ds' = ds /\ ReadIn("StoreDataSet", "CHECKSUM")
        /\ saved' = saved
    BY <1>2 DEF ParameterRead
  <2>2. size \in {master.size, master.pos + 1}
    OBVIOUS
  <2>3. IF ds.il > 0 /\ master.pos < N THEN master' = filled ELSE master' = master
    BY <2>1
  <2> HIDE DEF size
  <2>4. master.pos < N => filled \in Store
    BY <2>2, StoreEntry, ReadValueType, DsFacts
  <2> HIDE DEF filled
  <2>5. master' \in Store
    BY <2>3, <2>4, DsFacts
  <2>6. ds.il < N => ds.il + 1 \in 0 .. N /\ ds.il + 1 \in 1 .. N /\ [ds EXCEPT !.il = @ + 1] = [ds EXCEPT !.il = ds.il + 1]
    BY DsFacts, ListFacts
  <2>7. ds' \in DsRecord
    <3>1. CASE ds.il < N
      <4>1. ds' = [ds EXCEPT !.il = ds.il + 1] /\ ds.il + 1 \in 0 .. N
        BY <2>1, <2>6, <3>1
      <4> QED BY <4>1, DsFields, DsFacts
    <3> QED BY <2>1, <3>1, DsFacts
  <2>8. ds.il < N => IndexList[ds.il + 1] \in Indexes
    BY <2>6, ListFacts, DsNames
  <2>9. dsState' \in DsStates /\ MboxTyped'
    <3>1. "ReadParameter" \in DsStates /\ "StoreDataSet" \in DsStates /\ "CHECKSUM" \in Indexes
      BY DsNames
    <3> QED BY <2>1, <2>8, <3>1, ReadInKeeps
  <2> QED BY <2>1, <2>5, <2>7, <2>9, DsFacts DEF DsKept, DsTyped
<1> QED BY <1>1, <1>2

LEMMA StoreReadKeeps ==
  ASSUME TypeInv, mbox # <<>>, StoreRead \/ DownloadRead PROVE DsKept'
<1>1. PICK cs \in ReadChecksum :
        /\ \/ ds' = [ds EXCEPT !.cs = cs]
           \/ \E c \in {"UL_END", "BREAK"} : ds' = [ds EXCEPT !.cs = cs, !.command = c]
        /\ \/ Enter("DS_Fault", <<WriteReq("CMD", 0), WriteReq("CMD", 0)>>)
           \/ Enter("StoreDataSet", <<WriteReq("CMD", 0)>>)
           \/ Enter("DS_Fault", <<WriteReq("CMD", 0)>>)
           \/ ReportReady
  BY DEF StoreRead, DownloadRead
<1>2. cs \in Sets
  BY ChecksumType
<1>3. ds' \in DsRecord
  <2>1. /\ \A c \in {"UL_END", "BREAK"} : c \in Commands
        /\ \A c \in Commands : [ds EXCEPT !.cs = cs, !.command = c] \in DsRecord
        /\ [ds EXCEPT !.cs = cs] \in DsRecord
    BY <1>2, DsNames, DsFields, DsFacts
  <2> QED BY <1>1, <2>1, Zenon
<1>4. dsState' \in DsStates /\ MboxTyped'
  BY <1>1, EnterKeeps, ReportKeeps, DsNames
<1> QED BY <1>3, <1>4, DsFacts DEF StoreRead, DownloadRead, DsKept, DsTyped

-----------------------------------------------------------------------------
(* Confirmations of writes. *)
LEMMA UploadStartedKeeps ==
  ASSUME TypeInv, mbox # <<>>, UploadStarted PROVE DsKept'
<1>1. 0 \in 0 .. N
  BY ListFacts
<1>2. ds' \in DsRecord /\ master' \in Store
  BY <1>1, DsFields, StoreFields, DsFacts DEF UploadStarted
<1>3. dsState' \in DsStates /\ MboxTyped'
  BY ReadInKeeps, DsNames DEF UploadStarted
<1> QED BY <1>2, <1>3, DsFacts DEF UploadStarted, DsKept, DsTyped

LEMMA WriteNextKeeps ==
  ASSUME TypeInv, mbox # <<>>, NEW pos \in 0 .. N, WriteNext(pos) PROVE DsKept'
<1>1. CASE pos < master.size
  <2>1. pos + 1 \in 1 .. N /\ pos + 1 \in 0 .. N
    BY <1>1, DsFacts, ListFacts
  <2>2. IndexList[pos + 1] \in Indexes \cup {"CMD"}
    BY <2>1, ListFacts, DsNames
  <2>3. <<WriteReq(IndexList[pos + 1], pos + 1)>> \in Seq(PortJob)
    BY <2>1, <2>2, WriteIsJob
  <2>4. /\ master' = [master EXCEPT !.pos = pos + 1]
        /\ Enter("Write_Parameter", <<WriteReq(IndexList[pos + 1], pos + 1)>>)
        /\ ds' = ds /\ saved' = saved
    BY <1>1 DEF WriteNext
  <2>5. dsState' \in DsStates /\ MboxTyped'
    BY <2>3, <2>4, EnterKeeps, DsNames
  <2>6. master' \in Store
    BY <2>1, <2>4, StoreFields, DsFacts
  <2> QED BY <2>4, <2>5, <2>6, DsFacts DEF DsKept, DsTyped
<1>2. CASE ~(pos < master.size)
  <2>1. /\ master' = [master EXCEPT !.pos = pos]
        /\ WriteIn("Download_Done", "DL_END") /\ saved' = saved
    BY <1>2 DEF WriteNext
  <2>2. master' \in Store
    BY <2>1, StoreFields, DsFacts
  <2> QED BY <2>1, <2>2, WriteInKeeps, DsNames, DsFacts DEF DsKept, DsTyped
<1> QED BY <1>1, <1>2

LEMMA WrittenKeeps ==
  ASSUME TypeInv, mbox # <<>>, DownloadStarted \/ ParameterWritten PROVE DsKept'
<1>1. 0 \in 0 .. N /\ master.pos \in 0 .. N
  BY ListFacts, DsFacts
<1> QED BY <1>1, WriteNextKeeps DEF DownloadStarted, ParameterWritten

LEMMA UploadEndedKeeps ==
  ASSUME TypeInv, mbox # <<>>, UploadEnded PROVE DsKept'
<1>1. TRUE \in BOOLEAN
  OBVIOUS
<1>2. master' \in Store
  BY <1>1, StoreFields, DsFacts DEF UploadEnded
<1>3. saved' \in SavedSet
  BY StoredType, DsFacts DEF UploadEnded, SavedSet
<1>4. dsState' \in DsStates /\ MboxTyped'
  BY ReportKeeps DEF UploadEnded
<1> QED BY <1>2, <1>3, <1>4, DsFacts DEF UploadEnded, DsKept, DsTyped

LEMMA EndedKeeps ==
  ASSUME TypeInv, mbox # <<>>, DownloadEnded \/ BrokenOff PROVE DsKept'
  BY ReadInKeeps, ReportKeeps, DsNames, DsFacts DEF DownloadEnded, BrokenOff, DsKept, DsTyped

LEMMA DsKeeps ==
  ASSUME TypeInv, DsStep PROVE TypeInv'
<1>1. mbox # <<>>
  BY DEF DsStep, DsJob, DsInitCb, DsDeleteCb, DsStartupCb, DsUploadCb, DsReadCnf, DsWriteCnf, Take
<1>2. ASSUME DsReadCnf PROVE DsKept'
  BY <1>1, <1>2, ComErrKeeps, SizeReadKeeps, StateReadKeeps, ChecksumReadKeeps,
     ParameterReadKeeps, StoreReadKeeps, IgnoreKeeps DEF DsReadCnf
<1>3. ASSUME DsWriteCnf PROVE DsKept'
  BY <1>1, <1>3, ComErrKeeps, UploadStartedKeeps, WrittenKeeps, UploadEndedKeeps, EndedKeeps,
     IgnoreKeeps DEF DsWriteCnf
<1>4. DsKept'
  BY <1>1, <1>2, <1>3, InitCbKeeps, DeleteCbKeeps, StartKeepsDs DEF DsStep, DsJob
<1> QED BY <1>4 DEF DsKept, TypeInv, DsStep, cmVars, smVars, dlVars, envVars, CmTyped, SmTyped,
                    DlTypeOK, EnvTyped

-----------------------------------------------------------------------------
(* The record of the DL, field by field. *)
Mdhs   == {"IDLE", "ESTCOM", "STARTUP", "PREOPERATE", "OPERATE"}
DlCmds == {"INACTIVE", "STARTUP", "PREOPERATE", "OPERATE"}
Mhs    == {"INACTIVE", "STARTUP", "PREOPERATE", "OPERATE", "STRAY"}
Rws    == {"none", "read", "write", "param", "isdu"}
Odhs   == {"INACTIVE", "ISDU", "COMMAND"}
Cmdhs  == {"INACTIVE", "IDLE", "COMMAND"}
Cmds   == {"NONE", "OPERATE", "FALLBACK"}

LEMMA DlShape ==
    DlRecord = [mdh : Mdhs, mode : DlCmds, lost : BOOLEAN, event : BOOLEAN, late : BOOLEAN,
                wurq : BOOLEAN, mh : Mhs, rw : Rws, odh : Odhs, isdu : BOOLEAN, left : Lefts,
                cmdh : Cmdhs, chActive : BOOLEAN, code : BOOLEAN, cmd : Cmds]
  BY DEF DlRecord, Mdhs, DlCmds, Mhs, Rws, Odhs, Cmdhs, Cmds

LEMMA DlNames ==
    /\ "IDLE" \in Mdhs /\ "ESTCOM" \in Mdhs /\ "STARTUP" \in Mdhs
    /\ "PREOPERATE" \in Mdhs /\ "OPERATE" \in Mdhs
    /\ "INACTIVE" \in DlCmds /\ "STARTUP" \in DlCmds /\ "PREOPERATE" \in DlCmds
    /\ "OPERATE" \in DlCmds
    /\ "INACTIVE" \in Mhs /\ "STARTUP" \in Mhs /\ "PREOPERATE" \in Mhs /\ "OPERATE" \in Mhs
    /\ "STRAY" \in Mhs
    /\ "none" \in Rws /\ "read" \in Rws /\ "write" \in Rws /\ "param" \in Rws
    /\ "isdu" \in Rws /\ "none" \in Lefts
    /\ Parallel => \A x \in Clears \cup Leaves : x \in Lefts
    /\ ~Parallel => Lefts = {"none"}
    /\ "INACTIVE" \in Odhs /\ "ISDU" \in Odhs /\ "COMMAND" \in Odhs
    /\ "INACTIVE" \in Cmdhs /\ "IDLE" \in Cmdhs /\ "COMMAND" \in Cmdhs
    /\ "NONE" \in Cmds /\ "OPERATE" \in Cmds /\ "FALLBACK" \in Cmds
    /\ TRUE \in BOOLEAN /\ FALSE \in BOOLEAN
  BY DEF Mdhs, DlCmds, Mhs, Rws, Odhs, Cmdhs, Cmds, Lefts

LEMMA DlFields ==
  ASSUME NEW d \in DlRecord
  PROVE  /\ \A x \in Cmdhs : [d EXCEPT !.cmdh = x] \in DlRecord
         /\ \A x \in Cmdhs, y \in BOOLEAN : [d EXCEPT !.cmdh = x, !.code = y] \in DlRecord
         /\ \A x \in BOOLEAN : [d EXCEPT !.chActive = x] \in DlRecord
         /\ \A x \in Odhs : [d EXCEPT !.odh = x] \in DlRecord
         /\ \A x \in Odhs, y \in Cmds : [d EXCEPT !.odh = x, !.cmd = y] \in DlRecord
         /\ \A x \in BOOLEAN : [d EXCEPT !.isdu = x] \in DlRecord
         /\ \A x \in BOOLEAN, y \in Rws : [d EXCEPT !.isdu = x, !.rw = y] \in DlRecord
         /\ \A x \in Mhs : [d EXCEPT !.mh = x] \in DlRecord
         /\ \A x \in Mhs, y \in BOOLEAN : [d EXCEPT !.mh = x, !.event = y] \in DlRecord
         /\ \A x \in DlCmds, y \in BOOLEAN : [d EXCEPT !.mode = x, !.event = y] \in DlRecord
         /\ \A x \in Rws : [d EXCEPT !.rw = x] \in DlRecord
         /\ \A x \in Lefts : [d EXCEPT !.left = x] \in DlRecord
         /\ \A x \in Lefts, y \in Rws : [d EXCEPT !.left = x, !.rw = y] \in DlRecord
         /\ \A x \in Cmds : [d EXCEPT !.cmd = x] \in DlRecord
         /\ \A x \in Cmds, y \in BOOLEAN : [d EXCEPT !.cmd = x, !.code = y] \in DlRecord
  BY DlShape

LEMMA DlMoreFields ==
  ASSUME NEW d \in DlRecord
  PROVE  /\ \A x, y \in BOOLEAN : [d EXCEPT !.event = x, !.late = y] \in DlRecord
         /\ \A x \in BOOLEAN : [d EXCEPT !.late = x] \in DlRecord
         /\ \A x \in BOOLEAN : [d EXCEPT !.wurq = x] \in DlRecord
         /\ \A x \in Mdhs : [d EXCEPT !.mdh = x] \in DlRecord
         /\ \A x \in Mdhs, y \in BOOLEAN : [d EXCEPT !.mdh = x, !.wurq = y] \in DlRecord
         /\ \A x \in Mdhs, y \in BOOLEAN, z \in Lefts :
               [d EXCEPT !.lost = y, !.mdh = x, !.left = z] \in DlRecord
         /\ \A x \in Mdhs, z \in Lefts : [d EXCEPT !.mdh = x, !.left = z] \in DlRecord
         /\ \A x \in BOOLEAN, y \in Mdhs, z \in Mhs :
               [d EXCEPT !.wurq = x, !.mdh = y, !.mh = z] \in DlRecord
         /\ \A x \in BOOLEAN, y \in Mdhs, z \in BOOLEAN :
               [d EXCEPT !.wurq = x, !.mdh = y, !.lost = z] \in DlRecord
         /\ \A x \in Mhs, y, z \in BOOLEAN, w \in Rws :
               [d EXCEPT !.mh = x, !.lost = y, !.event = z, !.rw = w] \in DlRecord
  BY DlShape

LEMMA DlFacts ==
  ASSUME NEW d \in DlRecord
  PROVE  /\ d.event \in BOOLEAN /\ d.rw \in Rws /\ d.mdh \in Mdhs /\ d.mh \in Mhs
         /\ d.isdu \in BOOLEAN /\ d.wurq \in BOOLEAN /\ d.cmd \in Cmds
         /\ d.left \in Lefts /\ (~Parallel => d.left = "none")
  BY DlShape, DlNames

(* The handlers of the DL keep the record. *)
LEMMA CmdHandlerType == ASSUME NEW d \in DlRecord PROVE CmdHandler(d) \in DlRecord
<1>1. /\ [d EXCEPT !.cmdh = "IDLE"] \in DlRecord
      /\ [d EXCEPT !.cmdh = "INACTIVE"] \in DlRecord
      /\ [d EXCEPT !.cmdh = "COMMAND"] \in DlRecord
      /\ [d EXCEPT !.cmdh = "IDLE", !.code = FALSE] \in DlRecord
  BY DlFields, DlNames
<1> QED BY <1>1 DEF CmdHandler

LEMMA CH_ConfType ==
  ASSUME NEW d \in DlRecord, NEW b \in BOOLEAN PROVE CH_Conf(d, b) \in DlRecord
<1>1. [d EXCEPT !.chActive = b] \in DlRecord
  BY DlFields
<1> QED BY <1>1, CmdHandlerType DEF CH_Conf

LEMMA OhType ==
  ASSUME NEW d \in DlRecord
  PROVE  OH_ConfInactive(d) \in DlRecord /\ OH_ConfActive(d) \in DlRecord
<1>1. /\ [d EXCEPT !.odh = "INACTIVE"] \in DlRecord
      /\ [d EXCEPT !.cmdh = "INACTIVE"] \in DlRecord
      /\ [d EXCEPT !.odh = "ISDU"] \in DlRecord
      /\ [d EXCEPT !.odh = "ISDU", !.cmd = "NONE"] \in DlRecord
  BY DlFields, DlNames
<1> QED BY <1>1 DEF OH_ConfInactive, OH_ConfActive

LEMMA IhType == ASSUME NEW d \in DlRecord PROVE IH_ConfInactive(d) \in DlRecord
  BY DlFields, DlNames DEF IH_ConfInactive

LEMMA MhType ==
  ASSUME NEW d \in DlRecord
  PROVE  /\ MH_ConfInactive(d) \in DlRecord /\ MH_ConfStartup(d) \in DlRecord
         /\ MH_ConfOperate(d) \in DlRecord /\ MH_ConfPreoperate(d) \in DlRecord
<1>1. /\ [d EXCEPT !.mh = "INACTIVE", !.event = TRUE] \in DlRecord
      /\ [d EXCEPT !.mh = "STARTUP"] \in DlRecord
      /\ [d EXCEPT !.mh = "STRAY"] \in DlRecord
      /\ [d EXCEPT !.mh = "OPERATE"] \in DlRecord
      /\ [d EXCEPT !.mh = "PREOPERATE"] \in DlRecord
  BY DlFields, DlNames
<1> QED BY <1>1 DEF MH_ConfInactive, MH_ConfStartup, MH_ConfOperate, MH_ConfPreoperate

LEMMA RequestType ==
  ASSUME NEW d \in DlRecord
  PROVE  /\ \A mode \in DlCmds : DL_SetMode_req(d, mode) \in DlRecord
         /\ \A rw \in Rws : DL_ReadWrite_req(d, rw) \in DlRecord
         /\ DL_WriteParam_req(d) \in DlRecord
         /\ DL_ISDUTransport_req(d) \in DlRecord
         /\ \A cmd \in Cmds : DL_Write_Devicemode_req(d, cmd) \in DlRecord
<1>1. \A mode \in DlCmds : DL_SetMode_req(d, mode) \in DlRecord
  BY DlFields, DlNames DEF DL_SetMode_req
<1>2. \A rw \in Rws : DL_ReadWrite_req(d, rw) \in DlRecord
  BY DlFields DEF DL_ReadWrite_req
<1>3. DL_WriteParam_req(d) \in DlRecord
  BY DlFields, DlNames DEF DL_WriteParam_req
<1>4. DL_ISDUTransport_req(d) \in DlRecord
  BY DlFields, DlNames DEF DL_ISDUTransport_req
<1>5. ASSUME NEW cmd \in Cmds PROVE DL_Write_Devicemode_req(d, cmd) \in DlRecord
  <2>1. [d EXCEPT !.cmd = cmd, !.code = TRUE] \in DlRecord
    BY DlFields, DlNames
  <2> QED BY <2>1, CmdHandlerType DEF DL_Write_Devicemode_req
<1> QED BY <1>1, <1>2, <1>3, <1>4, <1>5

LEMMA ReceivedType ==
  ASSUME NEW d \in DlRecord
  PROVE  Received(d) \in DlRecord
  BY DlMoreFields, DlFacts DEF Received

(* What the DL posts. *)
LEMMA DlPosts ==
  ASSUME NEW d \in DlRecord
  PROVE  /\ Settled(d) \in Seq(PortJob) /\ IsduFailed(d) \in Seq(PortJob)
         /\ \A cmd \in Cmds : DevmodeAnswer(d, cmd) \in Seq(PortJob)
<1>1. "OK" \in Results /\ "ERR" \in Results
  BY DEF Results
<1> QED BY <1>1, DlAnswers, EmptyPost, WildFacts DEF Settled, IsduFailed, DevmodeAnswer

-----------------------------------------------------------------------------
(* The DL thread. *)
DlKept == dl \in DlRecord /\ MboxTyped

LEMMA DlPostKeeps ==
  ASSUME MboxTyped, NEW d \in DlRecord, NEW s \in Seq(PortJob), DlPost(d, s)
  PROVE  DlKept'
  BY TwoPosts DEF DlPost, DlKept, MboxTyped

LEMMA ModeSignals ==
    \A mode \in {"MODE_INACTIVE", "MODE_STARTUP", "MODE_PREOPERATE", "MODE_OPERATE",
                 "MODE_COMLOST"} : <<Signal(mode)>> \in Seq(PortJob)
<1>1. {"MODE_INACTIVE", "MODE_STARTUP", "MODE_PREOPERATE", "MODE_OPERATE", "MODE_COMLOST"}
        \subseteq JobTypes
  BY DEF JobTypes
<1> QED BY <1>1, SignalJob

LEMMA HandledType == ASSUME dl \in DlRecord PROVE Handled \in DlRecord
  BY DlMoreFields, DlNames DEF Handled

LEMMA InIdleType == ASSUME NEW d \in DlRecord PROVE InIdle(d) \in DlRecord
<1> DEFINE stopped == MH_ConfInactive(CH_Conf(d, FALSE))
<1>1. stopped \in DlRecord
  BY CH_ConfType, MhType, DlNames
<1>2. InIdle(d) = [stopped EXCEPT !.lost = FALSE, !.mdh = "IDLE", !.left = "none"]
  BY DEF InIdle
<1> HIDE DEF stopped
<1>3. [stopped EXCEPT !.lost = FALSE, !.mdh = "IDLE", !.left = "none"] \in DlRecord
  BY <1>1, DlMoreFields, DlNames
<1> QED BY <1>2, <1>3

LEMMA InStartupType == ASSUME NEW d \in DlRecord PROVE InStartup(d) \in DlRecord
<1> DEFINE told == MH_ConfStartup(d)
<1>1. told \in DlRecord
  BY MhType
<1>2. InStartup(d) = [told EXCEPT !.mdh = "STARTUP", !.left = "none"]
  BY DEF InStartup
<1> HIDE DEF told
<1>3. [told EXCEPT !.mdh = "STARTUP", !.left = "none"] \in DlRecord
  BY <1>1, DlMoreFields, DlNames
<1> QED BY <1>2, <1>3

LEMMA InterruptKeeps ==
  ASSUME MboxTyped, NEW d \in DlRecord, NEW mode \in Leaves, Interrupts(d), Interrupt(d, mode)
  PROVE  DlKept'
<1> DEFINE off == IH_ConfInactive(OH_ConfInactive(d))
<1>1. off \in DlRecord
  BY OhType, IhType
<1>2. DlPost([off EXCEPT !.left = mode], IsduFailed(d))
  BY DEF Interrupt
<1> HIDE DEF off
<1>3. [off EXCEPT !.left = mode] \in DlRecord
  BY <1>1, DlFields, DlNames DEF Interrupts
<1> QED BY <1>2, <1>3, DlPosts, DlPostKeeps

LEMMA GotoIdleKeeps ==
  ASSUME MboxTyped, NEW d \in DlRecord,
         NEW mode \in {"MODE_INACTIVE", "MODE_COMLOST"}, GotoIdle(d, mode)
  PROVE  DlKept'
<1> DEFINE idle == InIdle(IH_ConfInactive(OH_ConfInactive(d)))
           posts == IsduFailed(d) \o <<Signal(mode)>>
<1>1. idle \in DlRecord
  BY OhType, IhType, InIdleType
<1>2. posts \in Seq(PortJob)
  BY ModeSignals, DlPosts, TwoPosts
<1>3. CASE Interrupts(d)
  BY <1>3, InterruptKeeps DEF GotoIdle, Leaves
<1>4. CASE ~Interrupts(d)
  <2>1. DlPost(idle, posts)
    BY <1>4 DEF GotoIdle
  <2> HIDE DEF idle, posts
  <2> QED BY <1>1, <1>2, <2>1, DlPostKeeps
<1> QED BY <1>3, <1>4

LEMMA GotoStartupKeeps ==
  ASSUME MboxTyped, NEW d \in DlRecord, GotoStartup(d)
  PROVE  DlKept'
<1> DEFINE next == IH_ConfInactive(OH_ConfInactive(InStartup(d)))
           posts == IsduFailed(d) \o <<Signal("MODE_STARTUP")>>
<1>1. next \in DlRecord
  BY OhType, IhType, InStartupType
<1>2. posts \in Seq(PortJob)
  BY ModeSignals, DlPosts, TwoPosts
<1>3. CASE Interrupts(d)
  BY <1>3, InterruptKeeps DEF GotoStartup, Leaves
<1>4. CASE ~Interrupts(d)
  <2>1. DlPost(next, posts)
    BY <1>4 DEF GotoStartup
  <2> HIDE DEF next, posts
  <2> QED BY <1>1, <1>2, <2>1, DlPostKeeps
<1> QED BY <1>3, <1>4

LEMMA LeaveKeeps ==
  ASSUME MboxTyped, dl \in DlRecord, Leave
  PROVE  DlKept'
<1> DEFINE d == IH_ConfInactive(dl)
           next == IF dl.left = "MODE_STARTUP" THEN InStartup(d) ELSE InIdle(d)
<1>1. next \in DlRecord
  BY IhType, InIdleType, InStartupType
<1>2. DlPost(next, <<Signal(dl.left)>>) /\ dl.left \in Leaves
  BY DEF Leave
<1> HIDE DEF next
<1> QED BY <1>1, <1>2, ModeSignals, DlPostKeeps DEF Leaves

LEMMA GotoOperateKeeps ==
  ASSUME MboxTyped, NEW d \in DlRecord, NEW s \in Seq(PortJob), GotoOperate(d, s)
  PROVE  DlKept'
<1> DEFINE told == MH_ConfOperate(d)
           next == [told EXCEPT !.mdh = "OPERATE"]
           posts == s \o <<Signal("MODE_OPERATE")>>
<1>1. told \in DlRecord
  BY MhType
<1>2. DlPost(next, posts)
  BY DEF GotoOperate
<1>3. posts \in Seq(PortJob)
  BY ModeSignals, TwoPosts
<1> HIDE DEF told, posts
<1>4. next \in DlRecord
  BY <1>1, DlMoreFields, DlNames
<1> HIDE DEF next
<1> QED BY <1>2, <1>3, <1>4, DlPostKeeps

LEMMA ModeHandlerKeeps ==
  ASSUME MboxTyped, dl \in DlRecord, ModeHandler
  PROVE  DlKept'
<1>1. Handled \in DlRecord
  BY HandledType
<1>2. /\ OH_ConfActive(Handled) \in DlRecord /\ MH_ConfOperate(Handled) \in DlRecord
      /\ CH_Conf(Handled, FALSE) \in DlRecord
      /\ [Handled EXCEPT !.mdh = "ESTCOM", !.wurq = TRUE] \in DlRecord
  BY <1>1, OhType, MhType, CH_ConfType, DlMoreFields, DlNames
<1>3. MH_ConfPreoperate(OH_ConfActive(Handled)) \in DlRecord
  BY <1>2, MhType
<1>4. [MH_ConfPreoperate(OH_ConfActive(Handled)) EXCEPT !.mdh = "PREOPERATE"] \in DlRecord
  BY <1>3, DlMoreFields, DlNames
<1>5. /\ Settled(dl) \o <<Signal("MODE_PREOPERATE")>> \in Seq(PortJob)
      /\ Settled(dl) \in Seq(PortJob) /\ <<>> \in Seq(PortJob)
  BY ModeSignals, DlPosts, TwoPosts, EmptyPost
<1>6. ASSUME Idle0 PROVE DlKept'
  BY <1>1, <1>2, <1>5, <1>6, DlPostKeeps DEF Idle0
<1>7. ASSUME EstablishCom1 PROVE DlKept'
  BY <1>1, <1>5, <1>7, DlPostKeeps DEF EstablishCom1
<1>8. ASSUME Startup2 PROVE DlKept'
  BY <1>1, <1>2, <1>4, <1>5, <1>8, DlPostKeeps, GotoOperateKeeps, GotoIdleKeeps DEF Startup2
<1>9. ASSUME Preoperate3 PROVE DlKept'
  BY <1>1, <1>2, <1>5, <1>9, DlPostKeeps, GotoOperateKeeps, GotoIdleKeeps, GotoStartupKeeps
     DEF Preoperate3
<1>10. ASSUME Operate4 PROVE DlKept'
  BY <1>1, <1>5, <1>10, DlPostKeeps, GotoIdleKeeps, GotoStartupKeeps DEF Operate4
<1> QED BY <1>6, <1>7, <1>8, <1>9, <1>10 DEF ModeHandler

LEMMA BlockCnfFacts ==
  ASSUME NEW rw \in Rws, NEW block \in Blocks, NEW res \in Results, NEW snap \in Snapshot
  PROVE  <<BlockCnf(rw, block, res, snap)>> \in Seq(PortJob)
  BY DlAnswers DEF Rws

LEMMA ResultNames == "OK" \in Results /\ "ERR" \in Results /\ "BUSY" \in Results /\ "COM_ERR" \in Results
  BY DEF Results

LEMMA WakeUpKeeps ==
  ASSUME MboxTyped, dl \in DlRecord, NEW addr \in Blocks, WakeUp(addr) \/ WakeUpFailed
  PROVE  DlKept' /\ linked' \in BOOLEAN
<1>1. Received(dl) \in DlRecord
  BY ReceivedType
<1>2. CASE WakeUp(addr)
  <2> DEFINE woken == [Received(dl) EXCEPT !.wurq = FALSE, !.mdh = "STARTUP", !.mh = "STARTUP"]
             posts == <<BlockCnf("read", addr, "OK", NoSnap), Signal("MODE_STARTUP")>>
  <2>1. woken \in DlRecord
    BY <1>1, DlMoreFields, DlNames
  <2>2. posts = <<BlockCnf("read", addr, "OK", NoSnap)>> \o <<Signal("MODE_STARTUP")>>
    OBVIOUS
  <2>3. posts \in Seq(PortJob)
    BY <2>2, BlockCnfFacts, ModeSignals, TwoPosts, DlNames, ResultNames, WildFacts
  <2>4. DlPost(CH_Conf(woken, TRUE), posts) /\ linked' = TRUE
    BY <1>2 DEF WakeUp
  <2> HIDE DEF woken, posts
  <2>5. CH_Conf(woken, TRUE) \in DlRecord
    BY <2>1, CH_ConfType, DlNames
  <2> QED BY <2>3, <2>4, <2>5, DlPostKeeps
<1>3. CASE WakeUpFailed
  <2>1. [Received(dl) EXCEPT !.wurq = FALSE, !.mdh = "IDLE", !.lost = FALSE] \in DlRecord
    BY <1>1, DlMoreFields, DlNames
  <2> QED BY <1>3, <2>1, ModeSignals, DlPostKeeps DEF WakeUpFailed
<1> QED BY <1>2, <1>3

LEMMA BlockDoneKeeps ==
  ASSUME MboxTyped, dl \in DlRecord, NEW addr \in Blocks, NEW snap \in Snapshot, BlockDone(addr, snap)
  PROVE  DlKept'
<1>1. [Received(dl) EXCEPT !.rw = "none"] \in DlRecord
  BY ReceivedType, DlFields, DlNames
<1>2. <<BlockCnf(dl.rw, addr, "OK", snap)>> \in Seq(PortJob)
  BY BlockCnfFacts, DlFacts, ResultNames
<1> QED BY <1>1, <1>2, DlPostKeeps DEF BlockDone

LEMMA ConfirmedType ==
  ASSUME NEW d \in DlRecord, NEW what \in Clears PROVE Confirmed(d, what) \in DlRecord
  BY DlFields, DlNames DEF Confirmed

LEMMA ClearKeeps ==
  ASSUME MboxTyped, dl \in DlRecord, DlClear PROVE DlKept'
<1>1. [dl EXCEPT !.left = "none", !.rw = "none"] \in DlRecord
  BY DlFields, DlNames
<1> QED BY <1>1 DEF DlClear, DlKept, MboxTyped

LEMMA ExchangeKeeps ==
  ASSUME MboxTyped, dl \in DlRecord, ParamDone \/ CommandSent \/ CommandDone
  PROVE  DlKept'
<1>1. Received(dl) \in DlRecord
  BY ReceivedType
<1>2. CASE ParamDone
  <2>1. Confirmed(Received(dl), "param") \in DlRecord
    BY <1>1, ConfirmedType DEF Clears
  <2> QED BY <1>2, <2>1, DlAnswers, ResultNames, DlPostKeeps DEF ParamDone
<1>3. CASE CommandSent
  <2>1. CmdHandler(Received(dl)) \in DlRecord
    BY <1>1, CmdHandlerType
  <2>2. [CmdHandler(Received(dl)) EXCEPT !.odh = "COMMAND"] \in DlRecord
    BY <2>1, DlFields, DlNames
  <2> QED BY <1>3, <2>2 DEF CommandSent, DlKept, MboxTyped
<1>4. CASE CommandDone
  <2>1. [Received(dl) EXCEPT !.odh = "ISDU", !.cmd = "NONE"] \in DlRecord
    BY <1>1, DlFields, DlNames
  <2> QED BY <1>4, <2>1, DlPosts, DlPostKeeps DEF CommandDone
<1> QED BY <1>2, <1>3, <1>4

LEMMA LostKeeps ==
  ASSUME MboxTyped, dl \in DlRecord, NEW addr \in Blocks, MessageLost(addr)
  PROVE  DlKept'
<1>1. GaveUp \in DlRecord
  BY DlMoreFields, DlNames DEF GaveUp
<1>2. CASE StartupLost(addr)
  <2>1. <<BlockCnf(dl.rw, addr, "ERR", NoSnap)>> \in Seq(PortJob)
    BY BlockCnfFacts, DlFacts, ResultNames, WildFacts
  <2> QED BY <1>1, <1>2, <2>1, DlPostKeeps DEF StartupLost
<1>3. CASE ExchangeLost
  <2> DEFINE first == IF dl.cmd # "NONE" THEN <<DevmodeCnf("ERR")>> ELSE <<>>
             then == IF dl.rw = "param" THEN <<ParamCnf("ERR")>> ELSE <<>>
  <2>1. first \in Seq(PortJob) /\ then \in Seq(PortJob)
    BY DlAnswers, ResultNames, EmptyPost
  <2>2. [GaveUp EXCEPT !.cmd = "NONE"] \in DlRecord
    BY <1>1, DlFields, DlNames
  <2>3. DlPost([GaveUp EXCEPT !.cmd = "NONE"], first \o then)
    BY <1>3 DEF ExchangeLost
  <2> HIDE DEF first, then
  <2> QED BY <2>1, <2>2, <2>3, TwoPosts, DlPostKeeps
<1>4. CASE CycleLost
  BY <1>1, <1>4, EmptyPost, DlPostKeeps DEF CycleLost
<1> QED BY <1>2, <1>3, <1>4 DEF MessageLost

-----------------------------------------------------------------------------
(* The system management. *)
SmKept  == SmTyped /\ dl \in DlRecord /\ ds \in DsRecord /\ MboxTyped
SmMoved == sm \in SmStates /\ smAux \in Aux /\ dl \in DlRecord /\ ds \in DsRecord /\ MboxTyped

LEMMA SmNames ==
    /\ "PortInactive" \in SmStates /\ "waitonDLPreoperate" \in SmStates
    /\ "checkSerNum" \in SmStates /\ "wait" \in SmStates /\ "SMOperate" \in SmStates
    /\ "InspectionFault" \in SmStates /\ "waitonDLOperate" \in SmStates /\ "DIDO" \in SmStates
    /\ "ReadComParameter" \in SmStates /\ "CheckCompV10" \in SmStates
    /\ "CheckVxy" \in SmStates /\ "CheckComp" \in SmStates /\ "RestartDevice" \in SmStates
    /\ "waitForFallback" \in SmStates /\ "write_master_cycl" \in SmStates
    /\ "wait_devmode_cnf" \in SmStates
  BY DEF SmStates

LEMMA BlockNames ==
    /\ "WURQ" \in Blocks /\ "COMM" \in Blocks /\ "IDENT" \in Blocks
    /\ "MASTER_IDENT" \in Blocks /\ "PREOP" \in Blocks /\ "OPERATE" \in Blocks
    /\ "RESTART" \in Blocks /\ "MIN" \in Blocks
  BY DEF Blocks

LEMMA AuxFields ==
  ASSUME NEW a \in Aux
  PROVE  /\ \A b \in BOOLEAN : [a EXCEPT !.retry = b] \in Aux /\ [a EXCEPT !.error = b] \in Aux
         /\ \A x \in Blocks : [a EXCEPT !.addr = x] \in Aux
         /\ \A x \in Blocks, b \in BOOLEAN : [a EXCEPT !.addr = x, !.error = b] \in Aux
  BY DEF Aux

LEMMA SmFacts ==
  ASSUME TypeInv
  PROVE  /\ MboxTyped /\ sm \in SmStates /\ smCfg \in Cfg /\ smReal \in Real /\ smAux \in Aux
         /\ dl \in DlRecord /\ ds \in DsRecord /\ smAux.addr \in Blocks
         /\ smReal.id \in Ids \cup {NoId}
  BY DEF TypeInv, SmTyped, DlTypeOK, DsTyped, Aux, Real

LEMMA SmSignals ==
    /\ \A type \in {"COMREADY", "FAULT", "OPERATE", "COMLOST"} :
          <<Signal(type)>> \in Seq(PortJob)
    /\ <<ReadReq("SERNUM")>> \in Seq(PortJob) /\ <<WriteReq("CYCL", 0)>> \in Seq(PortJob)
<1>1. {"COMREADY", "FAULT", "OPERATE", "COMLOST"} \subseteq JobTypes
  BY DEF JobTypes
<1>2. "SERNUM" \in Indexes /\ "CYCL" \in Indexes /\ 0 \in 0 .. N
  BY ListFacts DEF Indexes
<1> QED BY <1>1, <1>2, SignalJob, ReadIsJob, WriteIsJob

LEMMA SmEnterKeeps ==
  ASSUME TypeInv, mbox # <<>>, NEW state \in SmStates, NEW d \in DlRecord, NEW s \in Seq(PortJob),
         SmEnter(state, d, s)
  PROVE  sm' \in SmStates /\ dl' \in DlRecord /\ ds' \in DsRecord /\ MboxTyped'
  BY SmFacts, TakeKeeps DEF SmEnter

LEMMA SmIgnoreKeeps ==
  ASSUME TypeInv, mbox # <<>>, SmIgnore PROVE SmKept'
  BY SmFacts, EmptyPost, SmEnterKeeps DEF SmIgnore, SmKept, SmTyped

LEMMA SetOperateKeeps ==
  ASSUME TypeInv, mbox # <<>>, NEW state \in SmStates, NEW id, NEW s \in Seq(PortJob),
         SmSetOperate(state, id, s)
  PROVE  sm' \in SmStates /\ dl' \in DlRecord /\ ds' \in DsRecord /\ MboxTyped'
<1>1. [ds EXCEPT !.enable = FALSE] \in DsRecord /\ DL_SetMode_req(dl, "OPERATE") \in DlRecord
  BY SmFacts, DsFields, RequestType, DlNames
<1> QED BY <1>1, SmFacts, TakeKeeps DEF SmSetOperate

LEMMA SmBlockKeeps ==
  ASSUME TypeInv, mbox # <<>>, NEW state \in SmStates, NEW rw \in Rws, NEW block \in Blocks,
         NEW aux \in Aux, SmBlock(state, rw, block, aux)
  PROVE  SmMoved'
<1> DEFINE posts == IF BlockAccepted(dl) THEN <<>> ELSE <<BlockCnf(rw, block, "ERR", NoSnap)>>
<1>1. posts \in Seq(PortJob)
  BY EmptyPost, BlockCnfFacts, ResultNames, WildFacts
<1>2. DL_ReadWrite_req(dl, rw) \in DlRecord
  BY SmFacts, RequestType
<1>3. smAux' \in Aux
  BY AuxFields DEF SmBlock
<1>4. SmEnter(state, DL_ReadWrite_req(dl, rw), posts)
  BY DEF SmBlock
<1> HIDE DEF posts
<1> QED BY <1>1, <1>2, <1>3, <1>4, SmEnterKeeps DEF SmMoved

LEMMA BlocksKeep ==
  ASSUME TypeInv, mbox # <<>>, NEW state \in SmStates, NEW block \in Blocks,
         ReadBlock(state, block) \/ WriteBlock(state, block)
  PROVE  SmMoved'
  BY SmFacts, DlNames, SmBlockKeeps DEF ReadBlock, WriteBlock

LEMMA SmComlostKeeps ==
  ASSUME TypeInv, mbox # <<>>, NEW state \in SmStates, SmComlost(state)
  PROVE  SmMoved'
<1>1. DL_SetMode_req(dl, "INACTIVE") \in DlRecord
  BY SmFacts, RequestType, DlNames
<1> QED BY <1>1, SmFacts, SmSignals, SmEnterKeeps DEF SmComlost, SmMoved

LEMMA ToInactiveKeeps ==
  ASSUME TypeInv, mbox # <<>>, NEW d \in DlRecord, ToInactive(d)
  PROVE  SmMoved'
<1>1. smAux' \in Aux
  BY SmFacts, AuxFields, BlockNames, DlNames DEF ToInactive
<1> QED BY <1>1, SmNames, EmptyPost, SmEnterKeeps DEF ToInactive, SmMoved

LEMMA EventsKeep ==
  ASSUME TypeInv, mbox # <<>>, EventModeComlost \/ EventCnfComlost
  PROVE  SmKept'
<1>1. CASE /\ SmComlost("PortInactive") \/ SmComlost("RestartDevice")
           /\ UNCHANGED <<smCfg, smReal>>
  BY <1>1, SmFacts, SmNames, SmComlostKeeps DEF SmMoved, SmKept, SmTyped
<1>2. CASE SmEnter("CheckComp", dl, <<>>) /\ UNCHANGED <<smCfg, smReal, smAux>>
  BY <1>2, SmFacts, SmNames, EmptyPost, SmEnterKeeps DEF SmKept, SmTyped
<1> QED BY <1>1, <1>2, SmIgnoreKeeps DEF EventModeComlost, EventCnfComlost

(* From what moves the SM to all of its types. *)
LEMMA MovedKeeps ==
  ASSUME TypeInv, SmMoved', smCfg' \in Cfg, smReal' \in Real PROVE SmKept'
  BY DEF SmMoved, SmKept, SmTyped

LEMMA Unmoved ==
  ASSUME TypeInv, smAux' = smAux, sm' \in SmStates, dl' \in DlRecord, ds' \in DsRecord, MboxTyped'
  PROVE  SmMoved'
  BY SmFacts DEF SmMoved

LEMMA SetPortConfigKeeps ==
  ASSUME TypeInv, mbox # <<>>, SmSetPortConfig PROVE SmKept'
<1> DEFINE cfg == Head(mbox).cfg
           quiet == [dl EXCEPT !.wurq = FALSE]
<1>1. cfg \in Cfg
  BY HeadFacts, SmFacts
<1>2. smCfg' = cfg /\ smReal' = smReal /\ (SmCfgCom(cfg) \/ SmCfgDiDo(cfg) \/ SmCfgInactive(cfg))
  BY DEF SmSetPortConfig
<1> HIDE DEF cfg
<1>3. quiet \in DlRecord
  BY SmFacts, DlMoreFields, DlNames
<1>4. /\ DL_SetMode_req(quiet, "STARTUP") \in DlRecord
      /\ DL_SetMode_req(quiet, "INACTIVE") \in DlRecord
      /\ DL_SetMode_req(dl, "INACTIVE") \in DlRecord
      /\ DL_Write_Devicemode_req(dl, "FALLBACK") \in DlRecord
      /\ DevmodeAnswer(dl, "FALLBACK") \in Seq(PortJob)
  <2> HIDE DEF quiet
  <2> QED BY <1>3, SmFacts, RequestType, DlNames, DlPosts
<1>5. CASE SmCfgCom(cfg)
  BY <1>4, <1>5, ToInactiveKeeps, SmFacts, MovedKeeps, <1>1, <1>2 DEF SmCfgCom
<1>6. CASE SmCfgDiDo(cfg)
  <2>1. SmEnter(sm, dl, <<>>) \/ SmEnter("DIDO", DL_SetMode_req(quiet, "INACTIVE"), <<>>)
    BY <1>6 DEF SmCfgDiDo
  <2> HIDE DEF quiet
  <2>2. SmMoved'
    BY <1>4, <1>6, <2>1, SmEnterKeeps, SmNames, EmptyPost, SmFacts, Unmoved DEF SmCfgDiDo
  <2> QED BY <2>2, <1>1, <1>2, SmFacts, MovedKeeps
<1>7. CASE SmCfgInactive(cfg)
  <2> HIDE DEF quiet
  <2>1. CASE ToInactive(DL_SetMode_req(dl, "INACTIVE"))
    BY <2>1, <1>1, <1>2, <1>4, ToInactiveKeeps, SmFacts, MovedKeeps
  <2>2. CASE /\ SmEnter("waitForFallback", DL_Write_Devicemode_req(dl, "FALLBACK"),
                        DevmodeAnswer(dl, "FALLBACK"))
             /\ UNCHANGED smAux
    <3>1. SmMoved'
      BY <2>2, <1>4, SmEnterKeeps, SmNames, Unmoved
    <3> QED BY <3>1, <1>1, <1>2, SmFacts, MovedKeeps
  <2> QED BY <1>7, <2>1, <2>2 DEF SmCfgInactive
<1> QED BY <1>2, <1>5, <1>6, <1>7

LEMMA ModeIndKeeps ==
  ASSUME TypeInv, mbox # <<>>, SmModeInd PROVE SmKept'
<1>1. CASE ModeWhenInactive
  <2>1. CASE SmBlock("ReadComParameter", "read", "COMM", [smAux EXCEPT !.retry = FALSE])
    <3>1. [smAux EXCEPT !.retry = FALSE] \in Aux
      BY SmFacts, AuxFields, DlNames
    <3>2. SmMoved'
      BY <2>1, <3>1, SmBlockKeeps, SmNames, DlNames, BlockNames
    <3> QED BY <1>1, <3>2, SmFacts, MovedKeeps DEF ModeWhenInactive
  <2>2. CASE /\ \/ SmEnter(sm, dl, IF smCfg.mode = "DEACTIVE" THEN <<>> ELSE <<Signal("COMLOST")>>)
                \/ SmEnter(sm, dl, <<>>)
             /\ UNCHANGED smAux
    <3>1. SmMoved'
      BY <2>2, SmEnterKeeps, SmFacts, SmSignals, EmptyPost, Unmoved
    <3> QED BY <1>1, <3>1, SmFacts, MovedKeeps DEF ModeWhenInactive
  <2> QED BY <1>1, <2>1, <2>2 DEF ModeWhenInactive
<1>2. CASE ModeAwaited
  <2>1. SmMoved'
    BY <1>2, SmEnterKeeps, SmNames, SmFacts, SmSignals, Unmoved DEF ModeAwaited
  <2> QED BY <1>2, <2>1, SmFacts, MovedKeeps DEF ModeAwaited
<1>3. CASE ModeUnexpected
  BY <1>3, SmIgnoreKeeps, EventsKeep DEF ModeUnexpected
<1> QED BY <1>1, <1>2, <1>3, SmIgnoreKeeps, EventsKeep DEF SmModeInd

LEMMA ReadCnfKeeps ==
  ASSUME TypeInv, mbox # <<>>, SmReadCnf PROVE SmKept'
<1>1. CASE EventCnfComlost
  BY <1>1, EventsKeep
<1>2. CASE ~EventCnfComlost
  <2> DEFINE snap == Head(mbox).snap
  <2>1. snap.id \in Ids \cup {NoId} /\ snap.rev \in Revs
    BY HeadFacts, SmFacts DEF Snapshot
  <2>2. smReal' \in {smReal, [smReal EXCEPT !.rev = snap.rev], [smReal EXCEPT !.id = snap.id]}
    BY <1>2 DEF SmReadCnf
  <2> HIDE DEF snap
  <2>3. smReal' \in Real
    BY <2>1, <2>2, SmFacts DEF Real
  <2>4. CASE ReadIgnored
    BY <2>3, <2>4, SmIgnoreKeeps DEF ReadIgnored
  <2>5. CASE (ComParameterRead \/ IdentRead \/ Restarted) /\ UNCHANGED smCfg
    <3>1. ASSUME ComParameterRead PROVE SmMoved'
      BY <3>1, BlocksKeep, SmNames, BlockNames DEF ComParameterRead
    <3>2. ASSUME Restarted PROVE SmMoved'
      BY <3>2, BlocksKeep, SmNames, BlockNames DEF Restarted
    <3>3. ASSUME IdentRead PROVE SmMoved'
      <4>1. CASE ReadBlock(sm, "IDENT")
        BY <4>1, BlocksKeep, SmFacts, BlockNames
      <4>2. CASE CheckCompDone
        <5>1. [smAux EXCEPT !.retry = TRUE] \in Aux /\ [smAux EXCEPT !.error = TRUE] \in Aux
          BY SmFacts, AuxFields, DlNames
        <5> QED BY <4>2, <5>1, BlocksKeep, SmBlockKeeps, SmNames, BlockNames, DlNames
                DEF CheckCompDone
      <4>3. CASE CheckCompV10Done
        <5>1. CASE WriteBlock("waitonDLOperate", "OPERATE")
          BY <5>1, BlocksKeep, SmNames, BlockNames
        <5>2. CASE /\ SmEnter("InspectionFault", DL_SetMode_req(dl, "INACTIVE"), <<Signal("FAULT")>>)
                   /\ UNCHANGED smAux
          BY <5>2, SmEnterKeeps, SmFacts, SmNames, SmSignals, RequestType, DlNames, Unmoved
        <5>3. CASE /\ SmSetOperate("InspectionFault", smReal'.id, <<Signal("FAULT")>>)
                   /\ UNCHANGED smAux
          BY <5>3, SetOperateKeeps, SmNames, SmSignals, Unmoved
        <5> QED BY <4>3, <5>1, <5>2, <5>3 DEF CheckCompV10Done
      <4> QED BY <3>3, <4>1, <4>2, <4>3 DEF IdentRead
    <3>4. SmMoved'
      BY <2>5, <3>1, <3>2, <3>3
    <3> QED BY <2>3, <2>5, <3>4, SmFacts, MovedKeeps
  <2> QED BY <1>2, <2>4, <2>5 DEF SmReadCnf
<1> QED BY <1>1, <1>2

LEMMA VxyKeeps ==
  ASSUME TypeInv, mbox # <<>>, VxyWritten PROVE SmMoved'
<1>1. [smAux EXCEPT !.retry = TRUE] \in Aux /\ [smAux EXCEPT !.error = TRUE] \in Aux
  BY SmFacts, AuxFields, DlNames
<1> QED BY <1>1, BlocksKeep, SmBlockKeeps, SmNames, BlockNames, DlNames DEF VxyWritten

LEMMA WriteCnfKeeps ==
  ASSUME TypeInv, mbox # <<>>, SmWriteCnf PROVE SmKept'
<1>1. CASE EventCnfComlost
  BY <1>1, EventsKeep
<1>2. CASE ~EventCnfComlost
  <2>1. ASSUME RestartWritten PROVE SmMoved'
    BY <2>1, BlocksKeep, SmFacts, BlockNames DEF RestartWritten
  <2>2. /\ DL_SetMode_req(dl, "PREOPERATE") \in DlRecord
        /\ <<Signal("FAULT")>> \in Seq(PortJob) /\ <<>> \in Seq(PortJob)
    BY SmFacts, RequestType, DlNames, SmSignals, EmptyPost
  <2>3. ASSUME FaultWritten PROVE SmMoved'
    BY <2>2, <2>3, SmEnterKeeps, SmFacts, Unmoved DEF FaultWritten
  <2>4. ASSUME PreopWritten PROVE SmMoved'
    BY <2>2, <2>4, SmEnterKeeps, SmFacts, Unmoved DEF PreopWritten
  <2>5. ASSUME OperateWritten PROVE SmMoved'
    BY <2>2, <2>5, SetOperateKeeps, SmFacts, Unmoved DEF OperateWritten
  <2>6. SmMoved' /\ smCfg' = smCfg /\ smReal' = smReal
    BY <1>2, <2>1, <2>3, <2>4, <2>5, VxyKeeps DEF SmWriteCnf
  <2> QED BY <2>6, SmFacts, MovedKeeps
<1> QED BY <1>1, <1>2

LEMMA SernumKeeps ==
  ASSUME TypeInv, mbox # <<>>, SmSernumCnf PROVE SmKept'
<1>1. CASE EventCnfComlost \/ EventModeComlost \/ SmIgnore
  BY <1>1, EventsKeep, SmIgnoreKeeps
<1>2. CASE /\ \/ SmEnter("InspectionFault", dl, <<Signal("FAULT")>>)
              \/ SmEnter("wait", dl, <<Signal("COMREADY")>>)
           /\ UNCHANGED <<smCfg, smReal, smAux>>
  <2>1. SmMoved'
    BY <1>2, SmEnterKeeps, SmFacts, SmNames, SmSignals, Unmoved
  <2> QED BY <1>2, <2>1, SmFacts, MovedKeeps
<1> QED BY <1>1, <1>2 DEF SmSernumCnf

LEMMA OperateKeeps ==
  ASSUME TypeInv, mbox # <<>>, SmOperate PROVE SmKept'
<1>1. CASE /\ \/ SmEnter("SMOperate", dl, <<Signal("OPERATE")>>)
              \/ SmEnter("write_master_cycl", dl, <<WriteReq("CYCL", 0)>>)
           /\ UNCHANGED <<smCfg, smReal, smAux>>
  <2>1. SmMoved'
    BY <1>1, SmEnterKeeps, SmFacts, SmNames, SmSignals, Unmoved
  <2> QED BY <1>1, <2>1, SmFacts, MovedKeeps
<1> QED BY <1>1, SmIgnoreKeeps DEF SmOperate

LEMMA CyclKeeps ==
  ASSUME TypeInv, mbox # <<>>, SmCyclCnf PROVE SmKept'
<1>1. CASE /\ SmEnter("wait_devmode_cnf", DL_Write_Devicemode_req(dl, "OPERATE"),
                      DevmodeAnswer(dl, "OPERATE"))
           /\ UNCHANGED <<smCfg, smReal, smAux>>
  <2>1. /\ DL_Write_Devicemode_req(dl, "OPERATE") \in DlRecord
        /\ DevmodeAnswer(dl, "OPERATE") \in Seq(PortJob)
    BY SmFacts, RequestType, DlPosts, DlNames
  <2>2. SmMoved'
    BY <1>1, <2>1, SmEnterKeeps, SmNames, Unmoved
  <2> QED BY <1>1, <2>2, SmFacts, MovedKeeps
<1> QED BY <1>1, SmIgnoreKeeps, EventsKeep DEF SmCyclCnf

LEMMA DevmodeKeeps ==
  ASSUME TypeInv, mbox # <<>>, SmDevmodeCnf PROVE SmKept'
<1>1. CASE SmSetOperate("SMOperate", smReal.id, <<>>) /\ UNCHANGED <<smCfg, smReal, smAux>>
  <2>1. SmMoved'
    BY <1>1, SetOperateKeeps, SmNames, EmptyPost, Unmoved
  <2> QED BY <1>1, <2>1, SmFacts, MovedKeeps
<1>2. CASE ToInactive(DL_SetMode_req(dl, "INACTIVE")) /\ UNCHANGED <<smCfg, smReal>>
  <2>1. SmMoved'
    BY <1>2, ToInactiveKeeps, SmFacts, RequestType, DlNames
  <2> QED BY <1>2, <2>1, SmFacts, MovedKeeps
<1> QED BY <1>1, <1>2, EventsKeep DEF SmDevmodeCnf

LEMMA SmKeeps ==
  ASSUME TypeInv, SmStep PROVE TypeInv'
<1>1. mbox # <<>>
  BY DEF SmStep, SmJob, SmSetPortConfig, SmConfigDropped, SmModeInd, SmReadCnf, SmWriteCnf,
         SmSernumCnf, SmOperate, SmCyclCnf, SmDevmodeCnf, Take
<1>2. SmKept'
  BY <1>1, SetPortConfigKeeps, SmIgnoreKeeps, ModeIndKeeps, ReadCnfKeeps, WriteCnfKeeps,
     SernumKeeps, OperateKeeps, CyclKeeps, DevmodeKeeps DEF SmStep, SmJob, SmConfigDropped
<1> QED BY <1>2 DEF SmStep, SmKept, TypeInv, cmVars, envVars, CmTyped, DsTyped, DlTypeOK, EnvTyped

-----------------------------------------------------------------------------
(* The application layer. *)
LEMMA SvcFacts ==
  ASSUME TypeInv
  PROVE  /\ svc.dir \in {"none", "read", "write"} /\ svc.index \in Indexes \cup {"CMD"}
         /\ svc.command \in Commands /\ svc.val \in Values /\ svc \in Service
         /\ NoSvc \in Service
<1>1. NoSvc \in Service
  BY WildFacts DEF NoSvc, Service, Commands
<1> QED BY <1>1 DEF TypeInv, EnvTyped, Service

LEMMA AlCnfType ==
  ASSUME NEW dir, NEW index \in Indexes \cup {"CMD"}, NEW res \in Results, NEW snap \in Snapshot
  PROVE  <<AlCnf(dir, index, res, snap)>> \in Seq(PortJob)
<1>1. CnfType(dir, index) \in Answers
  BY DEF CnfType, Answers
<1> QED BY <1>1, CnfIsJob DEF AlCnf

LEMMA AlKeeps ==
  ASSUME TypeInv, AlBusy \/ AlService \/ AlConfirm PROVE TypeInv'
<1>1. mbox # <<>>
  BY DEF AlBusy, AlService, AlConfirm, AlReq, Take
<1>2. (AlBusy \/ AlService) => Head(mbox).index \in Indexes \cup {"CMD"}
  BY <1>1, HeadFacts, SmFacts DEF AlBusy, AlService, AlReq, Requests
<1>3. CASE AlBusy
  <2>1. MboxTyped'
    BY <1>1, <1>2, <1>3, AlCnfType, TakeKeeps, SmFacts, ResultNames, WildFacts DEF AlBusy
  <2> QED BY <1>3, <2>1 DEF AlBusy, TypeInv, cmVars, dsVars, smVars, dlVars, envVars,
                            CmTyped, DsTyped, SmTyped, DlTypeOK, EnvTyped
<1>4. CASE AlService
  <2> DEFINE job == Head(mbox)
             command == IF job.index = "CMD" THEN ds.command ELSE "BREAK"
             val == IF job.pos > 0 THEN master.data[job.pos] ELSE Wild
  <2>1. command \in Commands
    <3>1. ds.command \in Commands /\ "BREAK" \in Commands
      BY SmFacts DEF DsRecord, Commands
    <3> QED BY <3>1
  <2>2. val \in Values
    <3>1. job.pos > 0 => job.pos \in 1 .. N
      BY <1>1, HeadFacts, SmFacts, ListFacts
    <3> QED BY <3>1, DsFacts, WildFacts
  <2>3. ReqDir \in {"none", "read", "write"}
    BY DEF ReqDir
  <2>4. svc' = [dir |-> ReqDir, index |-> job.index, command |-> command, val |-> val]
    BY <1>4 DEF AlService
  <2> HIDE DEF command, val
  <2>5. svc' \in Service
    BY <1>2, <1>4, <2>1, <2>2, <2>3, <2>4 DEF Service
  <2>6. dl' \in DlRecord
    BY <1>4, SmFacts, RequestType DEF AlService
  <2>7. MboxTyped'
    BY <1>1, <1>4, SmFacts, EmptyPost, DlAnswers, ResultNames, WildFacts, TakeKeeps DEF AlService
  <2> QED BY <1>4, <2>5, <2>6, <2>7 DEF AlService, TypeInv, cmVars, dsVars, smVars, envVars,
                            CmTyped, DsTyped, SmTyped, DlTypeOK, EnvTyped
<1>5. CASE AlConfirm
  <2>1. Head(mbox).res \in Results /\ Head(mbox).snap \in Snapshot
    BY <1>1, HeadFacts, SmFacts
  <2>2. MboxTyped'
    BY <1>1, <1>5, <2>1, SvcFacts, AlCnfType, EmptyPost, TakeKeeps, SmFacts DEF AlConfirm
  <2>3. svc' \in Service
    BY <1>5, SvcFacts DEF AlConfirm
  <2> QED BY <1>5, <2>2, <2>3 DEF AlConfirm, TypeInv, cmVars, dsVars, smVars, dlVars, envVars,
                            CmTyped, DsTyped, SmTyped, DlTypeOK, EnvTyped
<1> QED BY <1>3, <1>4, <1>5

-----------------------------------------------------------------------------
(* The device and the wire. *)
LEMMA DevFields ==
  ASSUME NEW d \in Device
  PROVE  /\ \A x \in {"idle", "upload", "download"} : [d EXCEPT !.mode = x] \in Device
         /\ \A x \in {"V10", "V11"} : [d EXCEPT !.rev = x] \in Device
         /\ \A x \in {"V10", "V11"} : [d EXCEPT !.mode = "idle", !.rev = x] \in Device
         /\ \A x \in SavedSet :
               [d EXCEPT !.mode = "idle", !.flag = FALSE, !.offer = x] \in Device
         /\ \A x \in Sets :
               /\ [d EXCEPT !.mode = "download", !.shadow = x] \in Device
               /\ [d EXCEPT !.mode = "idle", !.vals = x] \in Device
               /\ [d EXCEPT !.vals = x, !.flag = TRUE] \in Device
               /\ [d EXCEPT !.vals = x] \in Device
               /\ [d EXCEPT !.shadow = x] \in Device
  BY DEF Device

LEMMA DevFacts ==
  ASSUME TypeInv
  PROVE  /\ dev \in Device /\ dev.id \in Ids /\ dev.rev \in {"V10", "V11"} /\ dev.rev \in Revs
         /\ dev.vals \in Sets /\ dev.shadow \in Sets /\ dev.flag \in BOOLEAN
         /\ used \in [Disturbances -> Nat]
  BY DEF TypeInv, EnvTyped, Device, Revs

LEMMA NewDevType == ASSUME NEW id \in Ids PROVE NewDev(id) \in Device
<1>1. Native(id) \in {"V10", "V11"}
  BY DEF Native
<1> QED BY <1>1, WildFacts DEF NewDev, Device

LEMMA SpendKeeps ==
  ASSUME TypeInv, NEW d \in Disturbances, Spend(d) PROVE used' \in [Disturbances -> Nat]
<1>1. used \in [Disturbances -> Nat]
  BY DevFacts
<1>2. used[d] + 1 \in Nat
  BY <1>1
<1>3. used' = [used EXCEPT ![d] = used[d] + 1]
  BY DEF Spend
<1> QED BY <1>1, <1>2, <1>3

LEMMA DlKeeps ==
  ASSUME TypeInv, DlStep \/ DlWakeUp \/ DlWakeUpFailed \/ DlBlockDone PROVE TypeInv'
<1> USE DEF TypeInv, cmVars, dsVars, smVars, CmTyped, DsTyped, SmTyped, DlTypeOK, EnvTyped
<1>0. MboxTyped /\ dl \in DlRecord /\ smAux.addr \in Blocks /\ linked \in BOOLEAN
  BY SmFacts
<1>1. CASE DlStep
  <2>1. DlKept'
    BY <1>0, <1>1, ModeHandlerKeeps, LeaveKeeps, ClearKeeps, ExchangeKeeps, LostKeeps DEF DlStep
  <2>2. linked' \in BOOLEAN
    BY <1>0, <1>1 DEF DlStep, ModeHandler, Leave, DlClear, ParamDone, CommandSent, CommandDone,
                      MessageLost
  <2> QED BY <1>1, <2>1, <2>2 DEF DlStep, DlKept, envVars
<1>2. CASE DlWakeUp
  <2>1. DlKept' /\ linked' \in BOOLEAN
    BY <1>0, <1>2, WakeUpKeeps DEF DlWakeUp
  <2>2. Native(dev.id) \in {"V10", "V11"}
    BY DEF Native
  <2>3. dev' \in Device
    BY <1>2, <2>2, DevFacts, DevFields DEF DlWakeUp
  <2> QED BY <1>2, <2>1, <2>3 DEF DlWakeUp, DlKept
<1>3. CASE DlWakeUpFailed
  <2>1. DlKept' /\ linked' \in BOOLEAN
    BY <1>0, <1>3, WakeUpKeeps DEF DlWakeUpFailed
  <2>2. used' \in [Disturbances -> Nat]
    BY <1>3, SpendKeeps DEF DlWakeUpFailed, Disturbances
  <2> QED BY <1>3, <2>1, <2>2 DEF DlWakeUpFailed, DlKept
<1>4. CASE DlBlockDone
  <2>1. Direct \in Snapshot /\ NoSnap \in Snapshot
    BY WildFacts, DevFacts DEF Direct, Snapshot
  <2> DEFINE snap == IF dl.rw = "read" THEN Direct ELSE NoSnap
  <2>2. snap \in Snapshot /\ BlockDone(smAux.addr, snap)
    BY <1>4, <2>1 DEF DlBlockDone
  <2> HIDE DEF snap
  <2>3. DlKept' /\ linked' = linked
    BY <1>0, <2>2, BlockDoneKeeps DEF BlockDone
  <2>4. CfgRev(smCfg) # "none" => CfgRev(smCfg) \in {"V10", "V11"}
    BY DEF CfgRev
  <2>5. dev' \in Device
    BY <1>4, <2>4, DevFacts, DevFields DEF DlBlockDone
  <2> QED BY <1>4, <2>3, <2>5 DEF DlBlockDone, DlKept
<1> QED BY <1>1, <1>2, <1>3, <1>4

LEMMA AnswerKeeps ==
  ASSUME TypeInv, NEW res \in Results, NEW snap \in Snapshot, Answer(res, snap)
  PROVE  dl' \in DlRecord /\ MboxTyped'
<1>1. [Received(dl) EXCEPT !.isdu = FALSE] \in DlRecord
  BY SmFacts, ReceivedType, DlFields, DlNames
<1>2. Confirmed([Received(dl) EXCEPT !.isdu = FALSE], "isdu") \in DlRecord
  BY <1>1, ConfirmedType DEF Clears
<1> QED BY <1>2, SmFacts, DlAnswers, PostKeeps DEF Answer

LEMMA DeviceKeeps ==
  ASSUME TypeInv, DevAnswers \/ DevRefuses PROVE TypeInv'
<1> USE DEF TypeInv, cmVars, dsVars, smVars, CmTyped, DsTyped, SmTyped, DlTypeOK, EnvTyped
<1>1. CASE DevAnswers
  <2>1. ASSUME DevRead PROVE dl' \in DlRecord /\ MboxTyped' /\ dev' \in Device
    <3>1. Shown \in Snapshot /\ [NoSnap EXCEPT !.id = dev.id] \in Snapshot
      BY WildFacts, DevFacts DEF Shown, Snapshot, Revs
    <3> QED BY <2>1, <3>1, AnswerKeeps, ResultNames, DevFacts DEF DevRead
  <2>2. ASSUME DevWrite PROVE dl' \in DlRecord /\ MboxTyped' /\ dev' \in Device
    <3>1. Commanded(svc.command) \in Device
      <4>1. [id |-> dev.id, set |-> dev.vals] \in SavedSet
        BY DevFacts DEF SavedSet
      <4>2. /\ [dev EXCEPT !.mode = "upload"] \in Device
            /\ [dev EXCEPT !.mode = "idle"] \in Device
            /\ [dev EXCEPT !.mode = "idle", !.flag = FALSE,
                           !.offer = [id |-> dev.id, set |-> dev.vals]] \in Device
            /\ [dev EXCEPT !.mode = "download", !.shadow = dev.vals] \in Device
        BY <4>1, DevFacts, DevFields
      <4>3. [dev EXCEPT !.mode = "idle", !.vals = IF dev.mode = "download" THEN dev.shadow ELSE @]
              \in Device
        BY DevFacts DEF Device
      <4> QED BY <4>2, <4>3 DEF Commanded
    <3>2. svc.index # "CMD" => Written(svc.index, svc.val) \in Device
      <4>1. svc.val \in Values
        BY SvcFacts
      <4>2. [dev.shadow EXCEPT ![svc.index] = svc.val] \in Sets
        BY <4>1, DevFacts DEF Sets
      <4>3. [dev.vals EXCEPT ![svc.index] = svc.val] \in Sets
        BY <4>1, DevFacts DEF Sets
      <4>4. Written(svc.index, svc.val) \in
              {[dev EXCEPT !.shadow = [dev.shadow EXCEPT ![svc.index] = svc.val]],
               [dev EXCEPT !.vals = [dev.vals EXCEPT ![svc.index] = svc.val]]}
        BY DevFacts DEF Written, Device
      <4> QED BY <4>2, <4>3, <4>4, DevFacts, DevFields
    <3>3. dl' \in DlRecord /\ MboxTyped'
      BY <2>2, AnswerKeeps, ResultNames, WildFacts DEF DevWrite
    <3> QED BY <2>2, <3>1, <3>2, <3>3 DEF DevWrite
  <2> QED BY <1>1, <2>1, <2>2 DEF DevAnswers
<1>2. CASE DevRefuses
  <2>1. dl' \in DlRecord /\ MboxTyped'
    BY <1>2, AnswerKeeps, ResultNames, WildFacts DEF DevRefuses
  <2>2. used' \in [Disturbances -> Nat]
    BY <1>2, SpendKeeps DEF DevRefuses, Disturbances
  <2> QED BY <1>2, <2>1, <2>2 DEF DevRefuses
<1> QED BY <1>1, <1>2

LEMMA PlugKeeps ==
  ASSUME TypeInv, LocalChange \/ LinkLost \/ NewDevice PROVE TypeInv'
<1> USE DEF TypeInv, cmVars, dsVars, smVars, dlVars, CmTyped, DsTyped, SmTyped, DlTypeOK, EnvTyped
<1>1. used' \in [Disturbances -> Nat]
  BY SpendKeeps DEF LocalChange, LinkLost, NewDevice, Disturbances
<1>2. CASE LocalChange
  <2>1. PICK p \in Params, n \in Versions : dev' = [dev EXCEPT !.vals[p] = <<dev.id, n>>, !.flag = TRUE]
    BY <1>2 DEF LocalChange
  <2>2. <<dev.id, n>> \in Values
    BY DevFacts DEF Values
  <2>3. [dev.vals EXCEPT ![p] = <<dev.id, n>>] \in Sets
    BY <2>2, DevFacts DEF Sets
  <2>4. dev' = [dev EXCEPT !.vals = [dev.vals EXCEPT ![p] = <<dev.id, n>>], !.flag = TRUE]
    BY <2>1, DevFacts DEF Device
  <2>5. dev' \in Device
    BY <2>3, <2>4, DevFacts, DevFields
  <2>6. MboxTyped'
    <3>1. Signal("DS_UPLOAD") \in PortJob
      BY SignalJob DEF JobTypes
    <3>2. Post(Signal("DS_UPLOAD")) \/ UNCHANGED mbox
      BY <1>2 DEF LocalChange
    <3> QED BY <3>1, <3>2, PostKeeps DEF MboxTyped
  <2> QED BY <1>1, <1>2, <2>5, <2>6 DEF LocalChange
<1>3. CASE LinkLost
  <2>1. dev' \in Device
    BY <1>3, DevFacts, DevFields DEF LinkLost
  <2> QED BY <1>1, <1>3, <2>1 DEF LinkLost, MboxTyped
<1>4. CASE NewDevice
  <2>1. dev' \in Device
    BY <1>4, NewDevType DEF NewDevice
  <2> QED BY <1>1, <1>4, <2>1 DEF NewDevice, MboxTyped
<1> QED BY <1>2, <1>3, <1>4

LEMMA ApplicationKeeps ==
  ASSUME TypeInv, SMI_PortConfiguration_req \/ SMI_ParServToDS_req PROVE TypeInv'
<1> USE DEF TypeInv, cmVars, dsVars, smVars, dlVars, CmTyped, DsTyped, SmTyped, DlTypeOK, EnvTyped
<1>1. used' \in [Disturbances -> Nat]
  BY SpendKeeps DEF SMI_PortConfiguration_req, SMI_ParServToDS_req, Disturbances
<1>2. CASE SMI_PortConfiguration_req
  <2>1. PICK cfg \in Cfgs : Post(CfgJob("SMI_CFG", cfg))
    BY <1>2 DEF SMI_PortConfiguration_req
  <2>2. CfgJob("SMI_CFG", cfg) \in PortJob
    BY DsPortAssumption, CfgIsJob DEF JobTypes
  <2>3. MboxTyped'
    BY <2>1, <2>2, PostKeeps
  <2> QED BY <1>1, <1>2, <2>3 DEF SMI_PortConfiguration_req
<1>3. CASE SMI_ParServToDS_req
  <2>1. PICK s \in ServedSets : ParServToDS(s.id, s.set)
    BY <1>3 DEF SMI_ParServToDS_req
  <2>2. s.id \in Ids \cup {NoId} /\ s.set \in Sets
    BY DsPortAssumption DEF SavedSet
  <2> DEFINE data == [i \in 1 .. N |-> s.set[IndexList[i]]]
             served == [master EXCEPT !.id = s.id, !.cs = WildSet, !.valid = TRUE, !.size = N,
                                      !.data = data]
  <2>3. data \in [1 .. N -> Values]
    BY <2>2, ListFacts DEF Sets
  <2>4. master' = served /\ saved' = [id |-> s.id, set |-> s.set]
        /\ UNCHANGED <<mbox, dsState, ds>>
    BY <2>1 DEF ParServToDS
  <2> HIDE DEF data
  <2>5. N \in 0 .. N /\ WildSet \in Sets
    BY ListFacts, WildFacts
  <2>6. served \in Store
    BY <2>2, <2>3, <2>5, DsFacts DEF Store
  <2> HIDE DEF served
  <2>7. saved' \in SavedSet
    BY <2>2, <2>4 DEF SavedSet
  <2> QED BY <1>1, <1>3, <2>4, <2>6, <2>7 DEF SMI_ParServToDS_req, MboxTyped
<1> QED BY <1>2, <1>3

-----------------------------------------------------------------------------
(* The theorem. *)
LEMMA TypeStart == Init => TypeInv
<1> SUFFICES ASSUME Init PROVE TypeInv
  OBVIOUS
<1>1. MboxTyped
  BY EmptyPost DEF Init, JobsInit, MboxTyped
<1>2. CmTyped
  BY WildFacts DEF Init, JobsInit, CmInit, CmTyped, CmStates
<1>3. DsTyped
  <2>1. dsState \in DsStates
    BY DsNames DEF Init, DsInit
  <2>2. ds \in DsRecord
    <3>1. 0 \in 0 .. N /\ "BREAK" \in Commands
      BY ListFacts DEF Commands
    <3> QED BY <3>1, WildFacts DEF Init, DsInit, DsRecord
  <2>3. master \in Store
    <3>1. 0 \in 0 .. N /\ [i \in 1 .. N |-> Wild] \in [1 .. N -> Values]
      BY ListFacts, WildFacts
    <3> QED BY <3>1, WildFacts DEF Init, DsInit, Store
  <2>4. saved \in SavedSet
    BY WildFacts DEF Init, DsInit
  <2> QED BY <2>1, <2>2, <2>3, <2>4 DEF DsTyped
<1>4. SmTyped
  BY WildFacts DEF Init, SmInit, SmTyped, SmStates, Real, Aux, Revs, Blocks
<1>5. DlTypeOK
  BY DlNames, DlShape DEF Init, DlInit, DlTypeOK
<1>6. EnvTyped
  <2>1. svc \in Service
    BY WildFacts DEF Init, NoSvc, Service, Commands
  <2>2. dev \in Device
    BY NewDevType DEF Init
  <2> QED BY <2>1, <2>2 DEF Init, EnvTyped
<1> QED BY <1>1, <1>2, <1>3, <1>4, <1>5, <1>6 DEF TypeInv

LEMMA TypeStep == TypeInv /\ [Next]_vars => TypeInv'
<1> SUFFICES ASSUME TypeInv, [Next]_vars PROVE TypeInv'
  OBVIOUS
<1>1. CASE MainThread
  BY <1>1, CmKeeps, DsKeeps, SmKeeps, AlKeeps DEF MainThread
<1>2. CASE DlThread
  BY <1>2, DlKeeps DEF DlThread
<1>3. CASE DevAnswers
  BY <1>3, DeviceKeeps
<1>4. CASE Environment
  BY <1>4, DlKeeps, DeviceKeeps, PlugKeeps, ApplicationKeeps DEF Environment
<1>5. CASE UNCHANGED vars
  BY <1>5 DEF vars, TypeInv, cmVars, dsVars, smVars, dlVars, envVars, MboxTyped, CmTyped, DsTyped,
              SmTyped, DlTypeOK, EnvTyped
<1> QED BY <1>1, <1>2, <1>3, <1>4, <1>5 DEF Next

LEMMA TypeInvImplies == TypeInv => TypeOK
<1> SUFFICES ASSUME TypeInv PROVE TypeOK
  OBVIOUS
<1>1. Seq(PortJob) \subseteq Seq(Job)
  BY SeqDef DEF PortJob
<1>2. JobsTypeOK /\ CmTypeOK
  BY <1>1 DEF TypeInv, MboxTyped, CmTyped, JobsTypeOK, CmTypeOK
<1>3. DsTypeOK
  BY DEF TypeInv, DsTyped, DsTypeOK, DsRecord, Store
<1>4. SmTypeOK
  BY DEF TypeInv, SmTyped, SmTypeOK, Real, Aux
<1> QED BY <1>2, <1>3, <1>4 DEF TypeInv, EnvTyped, TypeOK

(* Whatever devices, parameters and disturbances there are, the state of   *)
(* the port stays in its types: the cursors of the data storage (the       *)
(* position in the store, its size and the place in the index list) never  *)
(* pass the end, although the application may replace the set while a      *)
(* transfer walks through it, and a job only points to an entry that is    *)
(* there (ds_write_param, ds_read_cnf_cb).                                 *)
THEOREM TypeCorrect == Spec => []TypeOK
<1>1. Init => TypeInv
  BY TypeStart
<1>2. TypeInv /\ [Next]_vars => TypeInv'
  BY TypeStep
<1>3. TypeInv => TypeOK
  BY TypeInvImplies
<1> QED BY <1>1, <1>2, <1>3, PTL DEF Spec

-----------------------------------------------------------------------------
(* Jobs by their kind. Two jobs of the same type can mean different        *)
(* things to the port: the answer to the wake-up and the answer to a       *)
(* block are both confirmations of the DL, and a refused block is not a    *)
(* granted one.                                                            *)

(* What a job means to its receiver. STRAY is a confirmation of the wake-  *)
(* up the SM has no row for: of a write, or one that failed.               *)
Kind(j) ==
    CASE j.type \in {"DL_READ_CNF", "DL_WRITE_CNF"} /\ j.index = "WURQ" ->
            IF j.type = "DL_READ_CNF" /\ j.res = "OK" THEN "WURQ" ELSE "STRAY"
      [] j.type = "DL_READ_CNF" /\ j.index # "WURQ" -> IF j.res = "OK" THEN "READ" ELSE "NOT_READ"
      [] j.type = "DL_WRITE_CNF" /\ j.index # "WURQ" -> IF j.res = "OK" THEN "WRITTEN" ELSE "NOT_WRITTEN"
      [] j.type \in Requests /\ j.index \in {"SERNUM", "CYCL"} -> j.index
      [] j.type = "SERNUM_CNF" -> "SERNUM"
      [] j.type = "CYCL_CNF"   -> "CYCL"
      [] OTHER -> j.type

(* Some, at most one, and no job of the kinds K in the queue q; none of    *)
(* them behind a job of kind k.                                            *)
Among(K, q) == \E i \in DOMAIN q : Kind(q[i]) \in K
Single(K, q) == \A i, j \in DOMAIN q : Kind(q[i]) \in K /\ Kind(q[j]) \in K => i = j
NoneAfter(k, K, q) == \A i, j \in DOMAIN q : i < j /\ Kind(q[i]) = k => Kind(q[j]) \notin K

LEMMA Joined ==
  ASSUME NEW S, NEW q \in Seq(S), NEW s \in Seq(S)
  PROVE  /\ q \o s \in Seq(S) /\ Len(q \o s) = Len(q) + Len(s)
         /\ \A i \in DOMAIN (q \o s) : IF i <= Len(q) THEN i \in DOMAIN q /\ (q \o s)[i] = q[i]
                                       ELSE i - Len(q) \in DOMAIN s /\ (q \o s)[i] = s[i - Len(q)]
         /\ \A i \in DOMAIN q : i \in DOMAIN (q \o s) /\ (q \o s)[i] = q[i] /\ i <= Len(q)
         /\ \A i \in DOMAIN s : i + Len(q) \in DOMAIN (q \o s) /\ (q \o s)[i + Len(q)] = s[i] /\ i > 0
  OBVIOUS

LEMMA TailFacts ==
  ASSUME NEW S, NEW q \in Seq(S), q # <<>>
  PROVE  /\ Tail(q) \in Seq(S) /\ Head(q) = q[1] /\ 1 \in DOMAIN q
         /\ \A i \in DOMAIN Tail(q) : i + 1 \in DOMAIN q /\ Tail(q)[i] = q[i + 1] /\ i > 0 /\ i \in Nat
         /\ \A i \in DOMAIN q : i # 1 => i - 1 \in DOMAIN Tail(q) /\ Tail(q)[i - 1] = q[i] /\ i \in Nat
  OBVIOUS

LEMMA AmongJoined ==
  ASSUME NEW S, NEW q \in Seq(S), NEW s \in Seq(S), NEW K
  PROVE  Among(K, q \o s) <=> Among(K, q) \/ Among(K, s)
<1>1. ASSUME NEW i \in DOMAIN (q \o s), Kind((q \o s)[i]) \in K PROVE Among(K, q) \/ Among(K, s)
  BY <1>1, Joined DEF Among
<1>2. ASSUME NEW i \in DOMAIN q, Kind(q[i]) \in K PROVE Among(K, q \o s)
  <2>1. i \in DOMAIN (q \o s) /\ (q \o s)[i] = q[i]
    BY Joined
  <2> QED BY <1>2, <2>1 DEF Among
<1>3. ASSUME NEW i \in DOMAIN s, Kind(s[i]) \in K PROVE Among(K, q \o s)
  <2>1. i + Len(q) \in DOMAIN (q \o s) /\ (q \o s)[i + Len(q)] = s[i]
    BY Joined
  <2> QED BY <1>3, <2>1 DEF Among
<1> QED BY <1>1, <1>2, <1>3 DEF Among

LEMMA AmongTail ==
  ASSUME NEW S, NEW q \in Seq(S), q # <<>>, NEW K
  PROVE  Among(K, q) <=> Kind(Head(q)) \in K \/ Among(K, Tail(q))
<1>1. Among(K, Tail(q)) => Among(K, q)
  BY TailFacts DEF Among
<1>2. Among(K, q) => Kind(Head(q)) \in K \/ Among(K, Tail(q))
  BY TailFacts DEF Among
<1>3. Kind(Head(q)) \in K => Among(K, q)
  BY TailFacts DEF Among
<1> QED BY <1>1, <1>2, <1>3

LEMMA AmongFew ==
  ASSUME NEW K
  PROVE  /\ ~Among(K, <<>>)
         /\ \A x : Among(K, <<x>>) <=> Kind(x) \in K
         /\ \A x, y : Among(K, <<x, y>>) <=> Kind(x) \in K \/ Kind(y) \in K
         /\ \A x, y, z : Among(K, <<x, y, z>>) <=> Kind(x) \in K \/ Kind(y) \in K \/ Kind(z) \in K
  BY DEF Among

LEMMA SingleJoined ==
  ASSUME NEW S, NEW q \in Seq(S), NEW s \in Seq(S), NEW K
  PROVE  /\ Single(K, q) /\ ~Among(K, s) => Single(K, q \o s)
         /\ ~Among(K, q) /\ Single(K, s) => Single(K, q \o s)
<1>1. ASSUME Single(K, q), ~Among(K, s) PROVE Single(K, q \o s)
  BY <1>1, Joined DEF Single, Among
<1>2. ASSUME Single(K, s), ~Among(K, q) PROVE Single(K, q \o s)
  <2> SUFFICES ASSUME NEW i \in DOMAIN (q \o s), NEW j \in DOMAIN (q \o s),
                      Kind((q \o s)[i]) \in K, Kind((q \o s)[j]) \in K
               PROVE  i = j
    BY DEF Single
  <2>1. i - Len(q) \in DOMAIN s /\ (q \o s)[i] = s[i - Len(q)]
    BY <1>2, Joined DEF Among
  <2>2. j - Len(q) \in DOMAIN s /\ (q \o s)[j] = s[j - Len(q)]
    BY <1>2, Joined DEF Among
  <2>3. i - Len(q) = j - Len(q)
    BY <1>2, <2>1, <2>2 DEF Single
  <2> QED BY <2>3, Joined
<1> QED BY <1>1, <1>2

LEMMA SingleTail ==
  ASSUME NEW S, NEW q \in Seq(S), q # <<>>, NEW K, Single(K, q)
  PROVE  Single(K, Tail(q)) /\ (Kind(Head(q)) \in K => ~Among(K, Tail(q)))
<1>1. Single(K, Tail(q))
  <2> SUFFICES ASSUME NEW i \in DOMAIN Tail(q), NEW j \in DOMAIN Tail(q),
                      Kind(Tail(q)[i]) \in K, Kind(Tail(q)[j]) \in K
               PROVE  i = j
    BY DEF Single
  <2>1. i + 1 = j + 1
    BY TailFacts DEF Single
  <2> QED BY <2>1, TailFacts
<1>2. ASSUME Kind(Head(q)) \in K, Among(K, Tail(q)) PROVE FALSE
  BY <1>2, TailFacts DEF Single, Among
<1> QED BY <1>1, <1>2

LEMMA SingleFew ==
  ASSUME NEW K
  PROVE  /\ Single(K, <<>>) /\ \A x : Single(K, <<x>>)
  BY DEF Single

LEMMA AfterJoined ==
  ASSUME NEW S, NEW q \in Seq(S), NEW s \in Seq(S), NEW k, NEW K, NoneAfter(k, K, q)
  PROVE  /\ ~Among(K, s) /\ k \in K => NoneAfter(k, K, q \o s)
         /\ ~Among({k}, q) /\ NoneAfter(k, K, s) => NoneAfter(k, K, q \o s)
<1>1. ASSUME ~Among(K, s), k \in K PROVE NoneAfter(k, K, q \o s)
  BY <1>1, Joined DEF NoneAfter, Among
<1>2. ASSUME ~Among({k}, q), NoneAfter(k, K, s) PROVE NoneAfter(k, K, q \o s)
  <2> SUFFICES ASSUME NEW i \in DOMAIN (q \o s), NEW j \in DOMAIN (q \o s), i < j, Kind((q \o s)[i]) = k
               PROVE  Kind((q \o s)[j]) \notin K
    BY DEF NoneAfter
  <2>1. i - Len(q) \in DOMAIN s /\ (q \o s)[i] = s[i - Len(q)] /\ i > Len(q) /\ i \in Nat /\ j \in Nat
    BY <1>2, Joined DEF Among
  <2>2. j - Len(q) \in DOMAIN s /\ (q \o s)[j] = s[j - Len(q)]
    BY <2>1, Joined
  <2>3. i - Len(q) < j - Len(q)
    BY <2>1
  <2> QED BY <1>2, <2>1, <2>2, <2>3 DEF NoneAfter
<1> QED BY <1>1, <1>2

LEMMA AfterTail ==
  ASSUME NEW S, NEW q \in Seq(S), q # <<>>, NEW k, NEW K, NoneAfter(k, K, q)
  PROVE  NoneAfter(k, K, Tail(q)) /\ (Kind(Head(q)) = k => ~Among(K, Tail(q)))
<1>1. NoneAfter(k, K, Tail(q))
  <2> SUFFICES ASSUME NEW i \in DOMAIN Tail(q), NEW j \in DOMAIN Tail(q), i < j, Kind(Tail(q)[i]) = k
               PROVE  Kind(Tail(q)[j]) \notin K
    BY DEF NoneAfter
  <2> QED BY TailFacts DEF NoneAfter
<1>2. ASSUME Kind(Head(q)) = k PROVE ~Among(K, Tail(q))
  <2> SUFFICES ASSUME NEW j \in DOMAIN Tail(q) PROVE Kind(Tail(q)[j]) \notin K
    BY DEF Among
  <2>1. j + 1 \in DOMAIN q /\ Tail(q)[j] = q[j + 1] /\ 1 < j + 1 /\ 1 \in DOMAIN q /\ Head(q) = q[1]
    BY TailFacts
  <2> QED BY <1>2, <2>1 DEF NoneAfter
<1> QED BY <1>1, <1>2

-----------------------------------------------------------------------------
(* Job kinds. *)
LEMMA SignalKind ==
  ASSUME NEW type \in JobTypes \ {"DL_READ_CNF", "DL_WRITE_CNF", "AL_READ_REQ", "AL_WRITE_REQ",
                                  "SERNUM_CNF", "CYCL_CNF"}
  PROVE  Kind(Signal(type)) = type
  BY DEF Signal, Kind, Requests

LEMMA CfgKind ==
  ASSUME NEW type \in {"SMI_CFG", "SM_CFG", "DS_INIT"}, NEW cfg
  PROVE  Kind(CfgJob(type, cfg)) = type /\ CfgJob(type, cfg).type = type /\ CfgJob(type, cfg).cfg = cfg
  BY DEF CfgJob, Signal, Kind, Requests

LEMMA CnfKind ==
  ASSUME NEW index, NEW res, NEW snap
  PROVE  /\ Kind(DevmodeCnf(res)) = "DEVMODE_CNF" /\ Kind(ParamCnf(res)) = "PARAM_CNF"
         /\ Kind(IsduCnf(res, snap)) = "ISDU_CNF"
         /\ Kind(BlockCnf("read", index, res, snap)) =
               IF index = "WURQ" THEN (IF res = "OK" THEN "WURQ" ELSE "STRAY")
                                 ELSE (IF res = "OK" THEN "READ" ELSE "NOT_READ")
         /\ index # "WURQ" => Kind(BlockCnf("write", index, res, snap)) = 
                                 (IF res = "OK" THEN "WRITTEN" ELSE "NOT_WRITTEN")
         /\ Kind(Cnf("SERNUM_CNF", index, res, snap)) = "SERNUM"
         /\ Kind(Cnf("CYCL_CNF", index, res, snap)) = "CYCL"
         /\ Kind(Cnf("AL_READ_CNF", index, res, snap)) = "AL_READ_CNF"
         /\ Kind(Cnf("AL_WRITE_CNF", index, res, snap)) = "AL_WRITE_CNF"
  BY DEF DevmodeCnf, ParamCnf, IsduCnf, BlockCnf, Cnf, Signal, Kind, Requests

LEMMA RequestKind ==
  ASSUME NEW index, NEW pos
  PROVE  /\ Kind(ReadReq(index)) = IF index \in {"SERNUM", "CYCL"} THEN index ELSE "AL_READ_REQ"
         /\ Kind(WriteReq(index, pos)) = IF index \in {"SERNUM", "CYCL"} THEN index ELSE "AL_WRITE_REQ"
  BY DEF ReadReq, WriteReq, Signal, Kind, Requests

-----------------------------------------------------------------------------
(* The inductive invariant. A sequence of jobs is described by which       *)
(* kinds are in it (Among), which are in it at most once (Single) and      *)
(* which never follow another (NoneAfter); every step of the port appends  *)
(* jobs, or takes the one at the head and appends others.                  *)

(* Kinds of jobs: those that end what the SM was doing; the answers to a   *)
(* block; the answers that find the device still there; those that may     *)
(* wait while a port is configured, and those that may not.                *)
Upsets  == {"MODE_INACTIVE", "MODE_STARTUP", "MODE_PREOPERATE", "MODE_OPERATE", "MODE_COMLOST",
            "DEVMODE_CNF"}
Asked   == {"READ", "NOT_READ", "WRITTEN", "NOT_WRITTEN"}
Granted == {"READ", "WRITTEN"}
Calm    == {"SMI_CFG", "SM_CFG", "DS_DELETE", "DS_INIT", "COMLOST", "DEVMODE_CNF",
            "MODE_INACTIVE", "MODE_COMLOST"}
Loud    == (JobTypes \cup Asked \cup {"WURQ", "STRAY", "SERNUM", "CYCL"}) \ Calm
(* States of the SM: it waits for a block it read, or wrote; it has        *)
(* identified the device. States of the CM: the port was configured.       *)
Reading == {"ReadComParameter", "CheckComp", "CheckCompV10", "RestartDevice"}
Writing == {"waitonDLPreoperate", "InspectionFault", "CheckVxy", "RestartDevice",
            "waitonDLOperate"}
Passed  == {"waitonDLPreoperate", "waitonDLOperate", "checkSerNum", "wait",
            "write_master_cycl", "wait_devmode_cnf", "SMOperate"}
Started == {"SM_Startup", "DS_ParamManager", "WaitingOnOperate", "Port_Active"}

Waiting(k) == Among({k}, mbox)

(* The DL: its message handler follows its mode handler, and where the     *)
(* mode it was given and the state it is in disagree, an event is          *)
(* pending.                                                                *)
DlSound ==
    /\ dl.wurq => dl.mdh = "ESTCOM"
    /\ dl.mdh \in {"IDLE", "ESTCOM", "STARTUP"} => dl.mh \in {"STARTUP", "INACTIVE"}
    /\ dl.mdh = "PREOPERATE" => dl.mh \in {"PREOPERATE", "OPERATE", "INACTIVE"}
    /\ dl.mdh = "OPERATE" => dl.mh \in {"OPERATE", "INACTIVE"}
    /\ dl.lost => dl.mh = "INACTIVE" /\ dl.mdh \notin {"IDLE", "ESTCOM"}
    /\ dl.mdh = "STARTUP" /\ dl.mode # "STARTUP" => dl.event
    /\ dl.mdh = "PREOPERATE" /\ dl.mode \in {"STARTUP", "OPERATE"} => dl.event
    /\ dl.mdh = "OPERATE" /\ dl.mode \in {"STARTUP", "INACTIVE"} => dl.event
    /\ dl.mdh = "STARTUP" /\ dl.mode = "STARTUP" /\ dl.event => dl.lost

(* A wake-up is under way only while the SM is inactive and has asked for  *)
(* one (smAux.addr is WURQ), and nothing that would change the SM's mind   *)
(* stands behind the MODE_STARTUP that ends it.                            *)
Woken ==
    /\ dl.mdh = "ESTCOM" => /\ ~dl.event /\ dl.wurq /\ dl.mode = "STARTUP"
                            /\ sm = "PortInactive" /\ smAux.addr = "WURQ"
    /\ dl.mdh = "IDLE" /\ dl.mode = "STARTUP" /\ dl.event =>
            sm = "PortInactive" /\ smAux.addr = "WURQ"
    /\ sm = "PortInactive" /\ dl.mdh = "STARTUP" /\ ~dl.event => Waiting("MODE_STARTUP")
    /\ Waiting("MODE_STARTUP") => /\ sm = "PortInactive" /\ ~dl.event
                                  /\ dl.mdh = "STARTUP" /\ dl.mode = "STARTUP"
    /\ NoneAfter("MODE_STARTUP", Upsets, mbox)

(* A block was asked for and not answered; its answer is still to come;    *)
(* and nothing interferes with it.                                         *)
BlockOut == dl.rw \in {"read", "write"}
Token    == BlockOut \/ Among(Asked, mbox)
Ready    == /\ dl.mdh = "STARTUP" /\ dl.mode = "STARTUP" /\ dl.mh = "STARTUP"
            /\ ~dl.event /\ ~dl.lost /\ ~Among(Upsets, mbox)

(* One block at a time: the SM has asked for one and waits in a state      *)
(* that has a row for its answer, whatever the answer. This is what        *)
(* NoAssertion needs.                                                      *)
Asking ==
    /\ Single(Asked, mbox)
    /\ BlockOut => ~Among(Asked, mbox) /\ smAux.addr # "WURQ"
    /\ dl.rw = "read" \/ Among({"READ", "NOT_READ"}, mbox) => sm \in Reading
    /\ dl.rw = "write" \/ Among({"WRITTEN"}, mbox) => sm \in Writing
    /\ BlockOut \/ Among(Granted, mbox) => Ready
    /\ (BlockOut /\ sm # "ReadComParameter") \/ Among(Granted, mbox) => linked
    /\ Waiting("NOT_READ") => sm = "ReadComParameter"
    /\ ~Among({"NOT_WRITTEN", "STRAY"}, mbox)

(* The mode of the DL is the one the state of the SM calls for. *)
Moded ==
    /\ sm \in {"checkSerNum", "wait", "write_master_cycl", "wait_devmode_cnf", "SMOperate", "DIDO"}
         => dl.mode # "STARTUP"
    /\ sm \in {"waitonDLPreoperate", "waitonDLOperate", "InspectionFault"} /\ dl.mode = "STARTUP"
         => Token
    /\ sm = "InspectionFault" /\ Token => smAux.error

(* One service of each kind at the AL: the read of the serial number and   *)
(* the write of the cycle time are asked for in the one state that waits   *)
(* for them.                                                               *)
Serving ==
    /\ Single({"SERNUM"}, mbox) /\ Single({"CYCL"}, mbox)
    /\ svc # NoSvc /\ svc.index = "SERNUM" => ~Waiting("SERNUM")
    /\ svc # NoSvc /\ svc.index = "CYCL" => ~Waiting("CYCL")
    /\ Waiting("SERNUM") \/ (svc # NoSvc /\ svc.index = "SERNUM") => sm = "checkSerNum"
    /\ Waiting("CYCL") \/ (svc # NoSvc /\ svc.index = "CYCL") => sm = "write_master_cycl"

(* Nothing is under way that an answer could come from. *)
Still == dl.rw \notin {"read", "write", "param"} /\ ~dl.isdu /\ ~Engaged /\ ~Among(Loud, mbox)

(* A configuration finds the port at rest: no answer of the old            *)
(* configuration can meet the new one.                                     *)
Configuring ==
    /\ Waiting("SMI_CFG") \/ Waiting("SM_CFG") =>
          /\ Still /\ sm \in SmRest /\ dl.mdh \notin {"ESTCOM", "STARTUP"}
          /\ dl.mode = "STARTUP" => dl.mdh = "IDLE" /\ ~dl.event
          /\ dl.mode = "OPERATE" => dl.mdh # "PREOPERATE"
    /\ dl.mode = "STARTUP" /\ dl.mdh \in {"PREOPERATE", "OPERATE"} => sm = "PortInactive" /\ Still
    /\ Single({"SMI_CFG", "SM_CFG"}, mbox)

(* The configurations the SM has been sent and not taken are all c. *)
Told(c, q) == \A i \in DOMAIN q : Kind(q[i]) = "SM_CFG" => q[i].cfg = c

(* The SM works on the configuration the CM has, and the CM is where the   *)
(* SM's reports have taken it. This is what ActiveMeansChecked needs.      *)
Followed ==
    /\ Waiting("SM_CFG") => cm \notin {"DS_ParamManager", "WaitingOnOperate", "Port_Active"}
    /\ cm = "SM_Startup" => Told(cmCfg, mbox)
    /\ cm \in Started /\ ~Waiting("SM_CFG") => smCfg = cmCfg
    /\ sm \in Passed => smCfg.backup = "CHECK_NO" \/ smReal.id = smCfg.id
    /\ cm = "WaitingOnOperate" /\ Waiting("OPERATE") => sm = "SMOperate" \/ Waiting("COMLOST")
    /\ cm = "Port_Active" => sm = "SMOperate" \/ Waiting("COMLOST")
    /\ cm \in {"SM_Startup", "DS_ParamManager"} /\ ~Waiting("SM_CFG") =>
          /\ ~Waiting("SM_OPERATE") /\ ~Waiting("OPERATE")
          /\ sm \notin {"write_master_cycl", "wait_devmode_cnf", "SMOperate"}

(* What the DL leaves alone. *)
SmFixed == UNCHANGED <<sm, smCfg, smReal, smAux, cm, cmCfg, svc>>

(* A step that only appends jobs: of the kinds in "may", and all in "must". *)
Gains(may, must) ==
    /\ \A K : Among(K, mbox') => Among(K, mbox) \/ may \cap K # {}
    /\ \A K : Among(K, mbox) \/ must \cap K # {} => Among(K, mbox')
    /\ \A K : Single(K, mbox) /\ may \cap K = {} => Single(K, mbox')
    /\ \A k, K : NoneAfter(k, K, mbox) /\ k \in K /\ may \cap K = {} => NoneAfter(k, K, mbox')
    /\ \A c : Told(c, mbox) /\ "SM_CFG" \notin may => Told(c, mbox')

(* A step that takes the job at the head and appends others. *)
Trades(may, must) ==
    /\ \A K : Among(K, mbox') => Among(K, mbox) \/ may \cap K # {}
    /\ \A K : Kind(Head(mbox)) \in K => Among(K, mbox)
    /\ \A K : (Among(K, mbox) /\ Kind(Head(mbox)) \notin K) \/ must \cap K # {} => Among(K, mbox')
    /\ \A K : Single(K, mbox) /\ may \cap K = {} =>
          Single(K, mbox') /\ (Kind(Head(mbox)) \in K => ~Among(K, mbox'))
    /\ \A k, K : NoneAfter(k, K, mbox) /\ may \cap K = {} =>
          /\ k \in K => NoneAfter(k, K, mbox')
          /\ Kind(Head(mbox)) = k => ~Among(K, mbox')
    /\ \A c : Told(c, mbox) /\ "SM_CFG" \notin may => Told(c, mbox')

(* How those descriptions of the mailbox change. *)
LEMMA NoneAfterNone ==
  ASSUME NEW k, NEW K, NEW q, ~Among({k}, q) PROVE NoneAfter(k, K, q)
  BY DEF Among, NoneAfter

LEMMA ToldJoined ==
  ASSUME NEW c, NEW q \in Seq(PortJob), NEW s \in Seq(PortJob), Told(c, q)
  PROVE  /\ ~Among({"SM_CFG"}, s) => Told(c, q \o s)
         /\ q # <<>> => Told(c, Tail(q))
<1>1. ASSUME ~Among({"SM_CFG"}, s) PROVE Told(c, q \o s)
  <2> SUFFICES ASSUME NEW i \in DOMAIN (q \o s), Kind((q \o s)[i]) = "SM_CFG"
               PROVE  (q \o s)[i].cfg = c
    BY DEF Told
  <2>1. i \in DOMAIN q /\ (q \o s)[i] = q[i]
    BY <1>1, Joined DEF Among
  <2> QED BY <2>1 DEF Told
<1>2. ASSUME q # <<>> PROVE Told(c, Tail(q))
  BY <1>2, TailFacts DEF Told
<1> QED BY <1>1, <1>2

LEMMA Gained ==
  ASSUME mbox \in Seq(PortJob), NEW s \in Seq(PortJob), mbox' = mbox \o s, NEW may, NEW must,
         \A i \in DOMAIN s : Kind(s[i]) \in may,
         \A k \in must : \E i \in DOMAIN s : Kind(s[i]) = k
  PROVE  Gains(may, must)
<1>1. ASSUME NEW K PROVE Among(K, s) => may \cap K # {}
  BY DEF Among
<1>2. ASSUME NEW K, must \cap K # {} PROVE Among(K, s)
  BY <1>2 DEF Among
<1>3. ASSUME NEW K PROVE Among(K, mbox') <=> Among(K, mbox) \/ Among(K, s)
  BY AmongJoined
<1>4. ASSUME NEW K, Single(K, mbox), may \cap K = {} PROVE Single(K, mbox')
  BY <1>1, <1>4, SingleJoined
<1>5. ASSUME NEW k, NEW K, NoneAfter(k, K, mbox), k \in K, may \cap K = {} PROVE NoneAfter(k, K, mbox')
  BY <1>1, <1>5, AfterJoined
<1>6. ASSUME NEW c, Told(c, mbox), "SM_CFG" \notin may PROVE Told(c, mbox')
  <2>1. ~Among({"SM_CFG"}, s)
    BY <1>6 DEF Among
  <2> QED BY <1>6, <2>1, ToldJoined
<1> QED BY <1>1, <1>2, <1>3, <1>4, <1>5, <1>6 DEF Gains

LEMMA Traded ==
  ASSUME mbox \in Seq(PortJob), mbox # <<>>, NEW s \in Seq(PortJob), TakeAndPost(s),
         NEW may, NEW must,
         \A i \in DOMAIN s : Kind(s[i]) \in may,
         \A k \in must : \E i \in DOMAIN s : Kind(s[i]) = k
  PROVE  Trades(may, must)
<1> DEFINE rest == Tail(mbox)
<1>0. rest \in Seq(PortJob) /\ mbox' = rest \o s
  BY TailFacts DEF TakeAndPost
<1>1. ASSUME NEW K PROVE Among(K, s) => may \cap K # {}
  BY DEF Among
<1>2. ASSUME NEW K, must \cap K # {} PROVE Among(K, s)
  BY <1>2 DEF Among
<1>3. ASSUME NEW K PROVE Among(K, mbox) <=> Kind(Head(mbox)) \in K \/ Among(K, rest)
  BY AmongTail
<1>4. ASSUME NEW K, Single(K, mbox)
      PROVE  Single(K, rest) /\ (Kind(Head(mbox)) \in K => ~Among(K, rest))
  BY <1>4, SingleTail
<1>5. ASSUME NEW k, NEW K, NoneAfter(k, K, mbox)
      PROVE  NoneAfter(k, K, rest) /\ (Kind(Head(mbox)) = k => ~Among(K, rest))
  BY <1>5, AfterTail
<1>6. ASSUME NEW c, Told(c, mbox) PROVE Told(c, rest)
  BY <1>6, ToldJoined
<1> HIDE DEF rest
<1>7. ASSUME NEW K PROVE Among(K, mbox') <=> Among(K, rest) \/ Among(K, s)
  BY <1>0, AmongJoined
<1>8. ASSUME NEW K, Single(K, rest), may \cap K = {} PROVE Single(K, mbox')
  BY <1>0, <1>1, <1>8, SingleJoined
<1>9. ASSUME NEW k, NEW K, NoneAfter(k, K, rest), k \in K, may \cap K = {} PROVE NoneAfter(k, K, mbox')
  BY <1>0, <1>1, <1>9, AfterJoined
<1>10. ASSUME NEW c, Told(c, rest), "SM_CFG" \notin may PROVE Told(c, mbox')
  <2>1. ~Among({"SM_CFG"}, s)
    BY <1>10 DEF Among
  <2> QED BY <1>0, <1>10, <2>1, ToldJoined
<1>11. \A K : Among(K, mbox') => Among(K, mbox) \/ may \cap K # {}
  BY <1>1, <1>3, <1>7
<1>12. \A K : Kind(Head(mbox)) \in K => Among(K, mbox)
  BY <1>3
<1>13. \A K : (Among(K, mbox) /\ Kind(Head(mbox)) \notin K) \/ must \cap K # {} => Among(K, mbox')
  BY <1>2, <1>3, <1>7
<1>14. \A K : Single(K, mbox) /\ may \cap K = {} =>
          Single(K, mbox') /\ (Kind(Head(mbox)) \in K => ~Among(K, mbox'))
  BY <1>1, <1>4, <1>7, <1>8
<1>15. \A k, K : NoneAfter(k, K, mbox) /\ may \cap K = {} =>
          /\ k \in K => NoneAfter(k, K, mbox')
          /\ Kind(Head(mbox)) = k => ~Among(K, mbox')
  BY <1>1, <1>5, <1>7, <1>9
<1>16. \A c : Told(c, mbox) /\ "SM_CFG" \notin may => Told(c, mbox')
  BY <1>6, <1>10
<1> QED BY <1>11, <1>12, <1>13, <1>14, <1>15, <1>16 DEF Trades

(* The same with exactly one job posted, or none. *)
GainsOne(k) ==
    /\ Gains({k}, {k})
    /\ \A K : ~Among(K, mbox) => Single(K, mbox')
    /\ \A l, K : ~Among({l}, mbox) => NoneAfter(l, K, mbox')

TradesOne(k) ==
    /\ Trades({k}, {k})
    /\ \A K : Single(K, mbox) /\ (Kind(Head(mbox)) \in K \/ ~Among(K, mbox)) => Single(K, mbox')

LEMMA GainedOne ==
  ASSUME mbox \in Seq(PortJob), NEW x \in PortJob, mbox' = mbox \o <<x>>, NEW k, Kind(x) = k
  PROVE  GainsOne(k)
<1>1. <<x>> \in Seq(PortJob) /\ (\A i \in DOMAIN <<x>> : Kind(<<x>>[i]) \in {k})
      /\ (\A l \in {k} : \E i \in DOMAIN <<x>> : Kind(<<x>>[i]) = l)
  OBVIOUS
<1>2. Gains({k}, {k})
  BY <1>1, Gained
<1>3. ASSUME NEW K, ~Among(K, mbox) PROVE Single(K, mbox')
  BY <1>1, <1>3, SingleJoined, SingleFew
<1>4. ASSUME NEW l, NEW K, ~Among({l}, mbox) PROVE NoneAfter(l, K, mbox')
  <2>1. NoneAfter(l, K, mbox)
    BY <1>4, NoneAfterNone
  <2>2. NoneAfter(l, K, <<x>>)
    BY DEF NoneAfter
  <2> QED BY <1>1, <1>4, <2>1, <2>2, AfterJoined
<1> QED BY <1>2, <1>3, <1>4 DEF GainsOne

LEMMA GainedNone ==
  ASSUME mbox \in Seq(PortJob), mbox' = mbox PROVE Gains({}, {})
  BY DEF Gains

LEMMA TradedOne ==
  ASSUME mbox \in Seq(PortJob), mbox # <<>>, NEW x \in PortJob, TakeAndPost(<<x>>), NEW k, Kind(x) = k
  PROVE  TradesOne(k)
<1>1. <<x>> \in Seq(PortJob) /\ (\A i \in DOMAIN <<x>> : Kind(<<x>>[i]) \in {k})
      /\ (\A l \in {k} : \E i \in DOMAIN <<x>> : Kind(<<x>>[i]) = l)
  OBVIOUS
<1>2. Trades({k}, {k})
  BY <1>1, Traded
<1>3. ASSUME NEW K, Single(K, mbox), Kind(Head(mbox)) \in K \/ ~Among(K, mbox)
      PROVE  Single(K, mbox')
  <2>1. Tail(mbox) \in Seq(PortJob) /\ mbox' = Tail(mbox) \o <<x>>
    BY TailFacts DEF TakeAndPost
  <2>2. ~Among(K, Tail(mbox))
    BY <1>3, SingleTail, AmongTail
  <2>3. Single(K, <<x>>)
    BY SingleFew
  <2> QED BY <1>1, <2>1, <2>2, <2>3, SingleJoined
<1> QED BY <1>2, <1>3 DEF TradesOne

LEMMA TradedNone ==
  ASSUME mbox \in Seq(PortJob), mbox # <<>>, TakeAndPost(<<>>)
  PROVE  Trades({}, {})
<1>1. <<>> \in Seq(PortJob) /\ (\A i \in DOMAIN <<>> : Kind(<<>>[i]) \in {})
      /\ (\A l \in {} : \E i \in DOMAIN <<>> : Kind(<<>>[i]) = l)
  BY EmptyPost
<1> QED BY <1>1, Traded

-----------------------------------------------------------------------------
(* What the handlers of the DL leave alone. *)

(* What the handlers change of the record. *)
LEMMA CmdHandlerFields ==
  ASSUME NEW d \in DlRecord
  PROVE  /\ CmdHandler(d).mdh = d.mdh /\ CmdHandler(d).mode = d.mode /\ CmdHandler(d).lost = d.lost
         /\ CmdHandler(d).event = d.event /\ CmdHandler(d).wurq = d.wurq /\ CmdHandler(d).mh = d.mh
         /\ CmdHandler(d).rw = d.rw /\ CmdHandler(d).isdu = d.isdu /\ CmdHandler(d).odh = d.odh
         /\ CmdHandler(d).cmd = d.cmd
         /\ d.cmdh # "COMMAND" => CmdHandler(d).code = d.code
  BY DlShape DEF CmdHandler

LEMMA CH_ConfFields ==
  ASSUME NEW d \in DlRecord, NEW b \in BOOLEAN
  PROVE  /\ CH_Conf(d, b).mdh = d.mdh /\ CH_Conf(d, b).mode = d.mode /\ CH_Conf(d, b).lost = d.lost
         /\ CH_Conf(d, b).event = d.event /\ CH_Conf(d, b).wurq = d.wurq /\ CH_Conf(d, b).mh = d.mh
         /\ CH_Conf(d, b).rw = d.rw /\ CH_Conf(d, b).isdu = d.isdu /\ CH_Conf(d, b).odh = d.odh
         /\ CH_Conf(d, b).cmd = d.cmd
         /\ d.cmdh # "COMMAND" => CH_Conf(d, b).code = d.code
<1> DEFINE e == [d EXCEPT !.chActive = b]
<1>1. e \in DlRecord
  BY DlFields
<1>2. /\ e.mdh = d.mdh /\ e.mode = d.mode /\ e.lost = d.lost /\ e.event = d.event
      /\ e.wurq = d.wurq /\ e.mh = d.mh /\ e.rw = d.rw /\ e.isdu = d.isdu /\ e.odh = d.odh
      /\ e.cmd = d.cmd /\ e.cmdh = d.cmdh /\ e.code = d.code
  BY DlShape
<1>3. CH_Conf(d, b) = CmdHandler(e)
  BY DEF CH_Conf
<1> HIDE DEF e
<1> QED BY <1>1, <1>2, <1>3, CmdHandlerFields

LEMMA OhFields ==
  ASSUME NEW d \in DlRecord, NEW e \in {OH_ConfInactive(d), OH_ConfActive(d)}
  PROVE  /\ e.mdh = d.mdh /\ e.mode = d.mode /\ e.lost = d.lost /\ e.event = d.event
         /\ e.wurq = d.wurq /\ e.mh = d.mh /\ e.rw = d.rw /\ e.isdu = d.isdu
  BY DlShape DEF OH_ConfInactive, OH_ConfActive

LEMMA IhFields ==
  ASSUME NEW d \in DlRecord
  PROVE  /\ IH_ConfInactive(d).mdh = d.mdh /\ IH_ConfInactive(d).mode = d.mode
         /\ IH_ConfInactive(d).lost = d.lost /\ IH_ConfInactive(d).event = d.event
         /\ IH_ConfInactive(d).wurq = d.wurq /\ IH_ConfInactive(d).mh = d.mh
         /\ IH_ConfInactive(d).rw = d.rw /\ ~IH_ConfInactive(d).isdu
  BY DlShape DEF IH_ConfInactive

LEMMA MhFields ==
  ASSUME NEW d \in DlRecord,
         NEW e \in {MH_ConfInactive(d), MH_ConfStartup(d), MH_ConfOperate(d), MH_ConfPreoperate(d)}
  PROVE  /\ e.mdh = d.mdh /\ e.mode = d.mode /\ e.lost = d.lost
         /\ e.wurq = d.wurq /\ e.rw = d.rw /\ e.isdu = d.isdu
         /\ e # MH_ConfInactive(d) => e.event = d.event
  BY DlShape DEF MH_ConfInactive, MH_ConfStartup, MH_ConfOperate, MH_ConfPreoperate

LEMMA MhOutcome ==
  ASSUME NEW d \in DlRecord
  PROVE  /\ MH_ConfOperate(d).mh = IF d.mh \in {"STARTUP", "PREOPERATE"} THEN "OPERATE" ELSE d.mh
         /\ MH_ConfPreoperate(d).mh = IF d.mh = "STARTUP" THEN "PREOPERATE" ELSE d.mh
         /\ (d.mh = "PREOPERATE" => ~Busy(d))
            => MH_ConfStartup(d).mh = IF d.mh \in {"OPERATE", "PREOPERATE"} THEN "STARTUP" ELSE d.mh
         /\ MH_ConfOperate(d).event = d.event /\ MH_ConfPreoperate(d).event = d.event
         /\ MH_ConfStartup(d).event = d.event
         /\ d.mh = "OPERATE" => MH_ConfInactive(d).mh = "INACTIVE" /\ MH_ConfInactive(d).event
         /\ d.mh \in {"STARTUP", "INACTIVE"} => MH_ConfInactive(d) = d
<1>1. (d.mh = "PREOPERATE" => ~Busy(d))
         => MH_ConfStartup(d).mh = IF d.mh \in {"OPERATE", "PREOPERATE"} THEN "STARTUP" ELSE d.mh
  BY DlShape DEF MH_ConfStartup
<1>2. MH_ConfStartup(d).event = d.event
  BY DlShape DEF MH_ConfStartup
<1> QED BY <1>1, <1>2, DlShape DEF MH_ConfInactive, MH_ConfOperate, MH_ConfPreoperate

-----------------------------------------------------------------------------
(* What the steps of the mode handler do. *)
Modes4 == {"MODE_INACTIVE", "MODE_STARTUP", "MODE_PREOPERATE", "MODE_OPERATE", "MODE_COMLOST"}

(* The jobs of the mode handler, by the state it enters. *)
LEMMA ModeKinds ==
    /\ \A mode \in Modes4 : Signal(mode) \in PortJob /\ Kind(Signal(mode)) = mode
    /\ \A res \in Results : DevmodeCnf(res) \in PortJob /\ Kind(DevmodeCnf(res)) = "DEVMODE_CNF"
    /\ \A res \in Results : ParamCnf(res) \in PortJob /\ Kind(ParamCnf(res)) = "PARAM_CNF"
    /\ \A res \in Results, snap \in Snapshot :
          IsduCnf(res, snap) \in PortJob /\ Kind(IsduCnf(res, snap)) = "ISDU_CNF"
<1>1. \A mode \in Modes4 : Signal(mode) \in PortJob /\ Kind(Signal(mode)) = mode
  BY SignalJob, SignalKind DEF Modes4, JobTypes
<1>2. {"DEVMODE_CNF", "PARAM_CNF", "ISDU_CNF"} \subseteq Answers
  BY DEF Answers
<1>3. "CYCL" \in Indexes
  BY DEF Indexes
<1>4. ASSUME NEW res \in Results, NEW snap \in Snapshot
      PROVE  DevmodeCnf(res) \in PortJob /\ ParamCnf(res) \in PortJob /\ IsduCnf(res, snap) \in PortJob
  BY <1>2, <1>3, CnfIsJob, WildFacts DEF DevmodeCnf, ParamCnf, IsduCnf
<1>5. ASSUME NEW res \in Results, NEW snap \in Snapshot
      PROVE  /\ Kind(DevmodeCnf(res)) = "DEVMODE_CNF" /\ Kind(ParamCnf(res)) = "PARAM_CNF"
             /\ Kind(IsduCnf(res, snap)) = "ISDU_CNF"
  BY CnfKind
<1> QED BY <1>1, <1>4, <1>5, WildFacts

(* Two jobs, or one job behind another or none. *)
LEMMA GainedPair ==
  ASSUME mbox \in Seq(PortJob), NEW y \in PortJob, NEW x \in PortJob, mbox' = mbox \o <<y, x>>,
         NEW k, NEW l, Kind(y) = l, Kind(x) = k
  PROVE  Gains({k, l}, {k, l})
<1> DEFINE t == <<y, x>>
<1>1. t \in Seq(PortJob) /\ DOMAIN t = 1 .. 2 /\ t[1] = y /\ t[2] = x
  OBVIOUS
<1>2. mbox' = mbox \o t
  OBVIOUS
<1> HIDE DEF t
<1>3. \A i \in DOMAIN t : Kind(t[i]) \in {k, l}
  BY <1>1
<1>4. 1 \in DOMAIN t /\ 2 \in DOMAIN t
  BY <1>1
<1>5. \A n \in {k, l} : \E i \in DOMAIN t : Kind(t[i]) = n
  BY <1>1, <1>4
<1> QED BY <1>1, <1>2, <1>3, <1>5, Gained

LEMMA PairJoined == ASSUME NEW x, NEW y PROVE <<y, x>> = <<y>> \o <<x>>
  OBVIOUS

LEMMA GainedTwo ==
  ASSUME mbox \in Seq(PortJob), NEW s \in Seq(PortJob), NEW x \in PortJob, mbox' = mbox \o (s \o <<x>>),
         NEW k, NEW l, s = <<>> \/ \E y \in PortJob : s = <<y>> /\ Kind(y) = l, Kind(x) = k
  PROVE  Gains({k, l}, {k}) /\ (s = <<>> => GainsOne(k))
<1>1. CASE s = <<>>
  <2>1. s \o <<x>> = <<x>>
    BY <1>1
  <2>2. GainsOne(k)
    BY <2>1, GainedOne
  <2>3. Gains({k, l}, {k})
    BY <2>2 DEF Gains, GainsOne
  <2> QED BY <2>2, <2>3
<1>2. ASSUME NEW y \in PortJob, s = <<y>>, Kind(y) = l PROVE Gains({k, l}, {k}) /\ s # <<>>
  <2>1. <<y>> \o <<x>> = <<y, x>>
    BY PairJoined
  <2>2. <<y>> # <<>>
    OBVIOUS
  <2>3. mbox' = mbox \o <<y, x>>
    BY <1>2, <2>1
  <2>4. Gains({k, l}, {k, l})
    BY <1>2, <2>3, GainedPair
  <2>5. Gains({k, l}, {k})
    BY <2>4 DEF Gains
  <2> QED BY <1>2, <2>2, <2>5
<1> QED BY <1>1, <1>2

LEMMA HandledFields ==
  ASSUME dl \in DlRecord
  PROVE  /\ Handled \in DlRecord
         /\ Handled.mdh = dl.mdh /\ Handled.mode = dl.mode /\ Handled.lost = dl.lost /\ ~Handled.event
         /\ Handled.wurq = dl.wurq /\ Handled.mh = dl.mh /\ Handled.rw = dl.rw
         /\ Handled.isdu = dl.isdu /\ Handled.odh = dl.odh /\ Handled.code = dl.code
         /\ Handled.cmd = dl.cmd /\ Handled.cmdh = dl.cmdh /\ Handled.left = dl.left
  BY HandledType, DlShape DEF Handled

LEMMA GoneIdle ==
  ASSUME ~Parallel, MboxTyped, NEW d \in DlRecord, NEW mode \in {"MODE_INACTIVE", "MODE_COMLOST"},
         GotoIdle(d, mode)
  PROVE  /\ dl'.mdh = "IDLE" /\ ~dl'.lost /\ dl'.mode = d.mode /\ dl'.wurq = d.wurq /\ dl'.rw = d.rw
         /\ ~dl'.isdu
         /\ d.mh \in {"STARTUP", "INACTIVE"} => dl'.mh = d.mh /\ dl'.event = d.event
         /\ d.mh = "OPERATE" => dl'.mh = "INACTIVE" /\ dl'.event
         /\ Gains({mode, "ISDU_CNF"}, {mode}) /\ (~d.isdu => GainsOne(mode))
<1> DEFINE off == OH_ConfInactive(d)
           free == IH_ConfInactive(off)
           inactive == CH_Conf(free, FALSE)
           stopped == MH_ConfInactive(inactive)
           idle == [stopped EXCEPT !.lost = FALSE, !.mdh = "IDLE", !.left = "none"]
<1>1. off \in DlRecord
  BY OhType
<1>2. /\ off.mode = d.mode /\ off.event = d.event /\ off.wurq = d.wurq /\ off.mh = d.mh
      /\ off.rw = d.rw
  BY OhFields
<1> HIDE DEF off
<1>3. free \in DlRecord
  BY <1>1, IhType
<1>4. /\ free.mode = d.mode /\ free.event = d.event /\ free.wurq = d.wurq /\ free.mh = d.mh
      /\ free.rw = d.rw /\ ~free.isdu
  BY <1>1, <1>2, IhFields
<1> HIDE DEF free
<1>5. inactive \in DlRecord
  BY <1>3, CH_ConfType, DlNames
<1>6. /\ inactive.mode = d.mode /\ inactive.event = d.event /\ inactive.wurq = d.wurq
      /\ inactive.mh = d.mh /\ inactive.rw = d.rw /\ ~inactive.isdu
  BY <1>3, <1>4, CH_ConfFields, DlNames
<1> HIDE DEF inactive
<1>7. stopped \in DlRecord
  BY <1>5, MhType
<1>8. /\ stopped.mode = d.mode /\ stopped.wurq = d.wurq /\ stopped.rw = d.rw /\ ~stopped.isdu
      /\ d.mh \in {"STARTUP", "INACTIVE"} => stopped.mh = d.mh /\ stopped.event = d.event
      /\ d.mh = "OPERATE" => stopped.mh = "INACTIVE" /\ stopped.event
  BY <1>5, <1>6, MhFields, MhOutcome
<1>9. dl' = idle /\ mbox' = mbox \o (IsduFailed(d) \o <<Signal(mode)>>)
  BY DEF GotoIdle, Interrupts, InIdle, DlPost, off, free, inactive
<1> HIDE DEF stopped
<1>10. /\ idle.mdh = "IDLE" /\ ~idle.lost /\ idle.mode = stopped.mode /\ idle.wurq = stopped.wurq
       /\ idle.rw = stopped.rw /\ idle.isdu = stopped.isdu /\ idle.mh = stopped.mh
       /\ idle.event = stopped.event
  BY <1>7, DlShape
<1> HIDE DEF idle
<1>11. /\ IsduFailed(d) \in Seq(PortJob)
       /\ IsduFailed(d) = <<>> \/ \E y \in PortJob : IsduFailed(d) = <<y>> /\ Kind(y) = "ISDU_CNF"
       /\ ~d.isdu => IsduFailed(d) = <<>>
  BY DlPosts, ModeKinds, WildFacts, ResultNames DEF IsduFailed
<1>12. Signal(mode) \in PortJob /\ Kind(Signal(mode)) = mode
  BY ModeKinds DEF Modes4
<1>13. Gains({mode, "ISDU_CNF"}, {mode}) /\ (~d.isdu => GainsOne(mode))
  BY <1>9, <1>11, <1>12, GainedTwo DEF MboxTyped
<1> QED BY <1>8, <1>9, <1>10, <1>13

LEMMA GoneStartup ==
  ASSUME MboxTyped, NEW d \in DlRecord, GotoStartup(d), d.mh = "PREOPERATE" => ~Busy(d), ~d.isdu
  PROVE  /\ dl'.mdh = "STARTUP" /\ dl'.lost = d.lost /\ dl'.mode = d.mode /\ dl'.wurq = d.wurq
         /\ dl'.rw = d.rw /\ ~dl'.isdu /\ dl'.event = d.event
         /\ dl'.mh = IF d.mh \in {"OPERATE", "PREOPERATE"} THEN "STARTUP" ELSE d.mh
         /\ GainsOne("MODE_STARTUP")
<1> DEFINE told == MH_ConfStartup(d)
           started == [told EXCEPT !.mdh = "STARTUP", !.left = "none"]
           inactive == OH_ConfInactive(started)
           next == IH_ConfInactive(inactive)
<1>1. told \in DlRecord
  BY MhType
<1>2. /\ told.mode = d.mode /\ told.lost = d.lost /\ told.wurq = d.wurq /\ told.rw = d.rw
      /\ told.event = d.event
      /\ told.mh = IF d.mh \in {"OPERATE", "PREOPERATE"} THEN "STARTUP" ELSE d.mh
  BY MhFields, MhOutcome
<1>3. dl' = next /\ mbox' = mbox \o (IsduFailed(d) \o <<Signal("MODE_STARTUP")>>)
  BY DEF GotoStartup, Interrupts, InStartup, DlPost
<1> HIDE DEF told
<1>4. started \in DlRecord
  BY <1>1, DlMoreFields, DlNames
<1>5. /\ started.mdh = "STARTUP" /\ started.mode = d.mode /\ started.lost = d.lost
      /\ started.wurq = d.wurq /\ started.rw = d.rw /\ started.event = d.event
      /\ started.mh = told.mh
  BY <1>1, <1>2, DlShape
<1> HIDE DEF started
<1>6. inactive \in DlRecord
  BY <1>4, OhType
<1>7. /\ inactive.mdh = "STARTUP" /\ inactive.mode = d.mode /\ inactive.lost = d.lost
      /\ inactive.wurq = d.wurq /\ inactive.rw = d.rw /\ inactive.event = d.event
      /\ inactive.mh = told.mh
  BY <1>4, <1>5, OhFields
<1> HIDE DEF inactive
<1>8. /\ next.mdh = "STARTUP" /\ next.mode = d.mode /\ next.lost = d.lost
      /\ next.wurq = d.wurq /\ next.rw = d.rw /\ next.event = d.event
      /\ next.mh = told.mh /\ ~next.isdu
  BY <1>6, <1>7, IhFields
<1> HIDE DEF next
<1>9. IsduFailed(d) = <<>> /\ <<>> \in Seq(PortJob)
  BY EmptyPost DEF IsduFailed
<1>10. Signal("MODE_STARTUP") \in PortJob /\ Kind(Signal("MODE_STARTUP")) = "MODE_STARTUP"
  BY ModeKinds DEF Modes4
<1>11. mbox' = mbox \o <<Signal("MODE_STARTUP")>>
  BY <1>3, <1>9
<1>12. GainsOne("MODE_STARTUP")
  BY <1>10, <1>11, GainedOne DEF MboxTyped
<1> QED BY <1>2, <1>3, <1>8, <1>12

LEMMA SettledFacts ==
  ASSUME NEW d \in DlRecord
  PROVE  /\ Settled(d) \in Seq(PortJob)
         /\ Settled(d) = <<>> \/ \E y \in PortJob : Settled(d) = <<y>> /\ Kind(y) = "DEVMODE_CNF"
  BY DlPosts, ModeKinds, ResultNames DEF Settled

LEMMA GoneOperate ==
  ASSUME MboxTyped, NEW d \in DlRecord, NEW s \in Seq(PortJob), GotoOperate(d, s),
         s = <<>> \/ \E y \in PortJob : s = <<y>> /\ Kind(y) = "DEVMODE_CNF"
  PROVE  /\ dl'.mdh = "OPERATE" /\ dl'.lost = d.lost /\ dl'.mode = d.mode /\ dl'.wurq = d.wurq
         /\ dl'.rw = d.rw /\ dl'.isdu = d.isdu /\ dl'.event = d.event
         /\ dl'.mh = IF d.mh \in {"STARTUP", "PREOPERATE"} THEN "OPERATE" ELSE d.mh
         /\ Gains({"MODE_OPERATE", "DEVMODE_CNF"}, {"MODE_OPERATE"})
<1> DEFINE told == MH_ConfOperate(d)
           next == [told EXCEPT !.mdh = "OPERATE"]
<1>1. told \in DlRecord
  BY MhType
<1>2. /\ told.mode = d.mode /\ told.lost = d.lost /\ told.wurq = d.wurq /\ told.rw = d.rw
      /\ told.isdu = d.isdu /\ told.event = d.event
      /\ told.mh = IF d.mh \in {"STARTUP", "PREOPERATE"} THEN "OPERATE" ELSE d.mh
  BY MhFields, MhOutcome
<1>3. dl' = next /\ mbox' = mbox \o (s \o <<Signal("MODE_OPERATE")>>)
  BY DEF GotoOperate, DlPost
<1> HIDE DEF told
<1>4. /\ next.mdh = "OPERATE" /\ next.mode = d.mode /\ next.lost = d.lost
      /\ next.wurq = d.wurq /\ next.rw = d.rw /\ next.isdu = d.isdu /\ next.event = d.event
      /\ next.mh = told.mh
  BY <1>1, <1>2, DlShape
<1> HIDE DEF next
<1>5. Signal("MODE_OPERATE") \in PortJob /\ Kind(Signal("MODE_OPERATE")) = "MODE_OPERATE"
  BY ModeKinds DEF Modes4
<1>6. Gains({"MODE_OPERATE", "DEVMODE_CNF"}, {"MODE_OPERATE"})
  BY <1>3, <1>5, GainedTwo DEF MboxTyped
<1> QED BY <1>2, <1>3, <1>4, <1>6

-----------------------------------------------------------------------------
(* The mode handler keeps the invariant. *)

(* The invariant. *)
PortInv == DlSound /\ Woken /\ Asking /\ Moded /\ Serving /\ Configuring /\ Followed

(* Kinds of jobs that the DL never posts. *)
Foreign == {"SERNUM", "CYCL", "SMI_CFG", "SM_CFG", "SM_OPERATE", "OPERATE", "COMLOST"}

(* What the DL does not touch. *)
LEMMA ForeignKept ==
  ASSUME Serving, Followed, SmFixed, NEW may, NEW must, Gains(may, must), may \cap Foreign = {}
  PROVE  /\ Serving' /\ Followed' /\ \A k \in Foreign : Waiting(k)' <=> Waiting(k)
         /\ Single({"SMI_CFG", "SM_CFG"}, mbox) => Single({"SMI_CFG", "SM_CFG"}, mbox')
<1>1. \A k \in Foreign : Waiting(k)' <=> Waiting(k)
  BY DEF Gains, Waiting
<1>2. /\ Single({"SERNUM"}, mbox) => Single({"SERNUM"}, mbox')
      /\ Single({"CYCL"}, mbox) => Single({"CYCL"}, mbox')
      /\ Single({"SMI_CFG", "SM_CFG"}, mbox) => Single({"SMI_CFG", "SM_CFG"}, mbox')
  BY DEF Gains, Foreign
<1>3. Told(cmCfg, mbox) => Told(cmCfg, mbox')
  BY DEF Gains, Foreign
<1>4. Serving'
  BY <1>1, <1>2 DEF Serving, SmFixed, Foreign
<1>5. Followed'
  BY <1>1, <1>3 DEF Followed, SmFixed, Foreign
<1> QED BY <1>1, <1>2, <1>4, <1>5

(* No communication yet, or no more: the next state is IDLE. *)
LEMMA IdleKeeps ==
  ASSUME TypeInv, PortInv, SmFixed, UNCHANGED linked, dl.event, Idle0
  PROVE  PortInv'
<1>1. dl \in DlRecord /\ MboxTyped
  BY SmFacts
<1>2. /\ dl'.mdh = IF dl.mode = "STARTUP" THEN "ESTCOM" ELSE "IDLE"
      /\ dl'.wurq <=> dl.mode = "STARTUP"
      /\ ~dl'.event /\ dl'.mode = dl.mode /\ dl'.lost = dl.lost /\ dl'.mh = dl.mh /\ dl'.rw = dl.rw
      /\ dl'.isdu = dl.isdu
      /\ mbox' = mbox
  <2>1. ~dl.wurq /\ dl.mdh = "IDLE"
    BY DEF PortInv, DlSound, Idle0
  <2>2. mbox \o <<>> = mbox
    BY <1>1 DEF MboxTyped
  <2>3. CASE dl.mode = "STARTUP"
    BY <1>1, <2>1, <2>2, <2>3, HandledFields, DlShape DEF Idle0, DlPost
  <2>4. CASE dl.mode # "STARTUP"
    BY <1>1, <2>1, <2>2, <2>4, HandledFields DEF Idle0, DlPost
  <2> QED BY <2>3, <2>4
<1>3. Gains({}, {})
  BY <1>1, <1>2, GainedNone DEF MboxTyped
<1>4. dl.mdh = "IDLE"
  BY DEF Idle0
<1>5. Serving' /\ Followed'
  BY <1>3, ForeignKept DEF PortInv
<1>6. DlSound'
  BY <1>2, <1>4 DEF PortInv, DlSound
<1>7. Woken'
  BY <1>2, <1>4 DEF PortInv, DlSound, Woken, SmFixed, Waiting
<1>8. Asking'
  BY <1>2, <1>4 DEF PortInv, DlSound, Asking, SmFixed, Waiting, BlockOut, Ready
<1>9. Moded'
  BY <1>2, <1>4 DEF PortInv, Moded, SmFixed, Token, BlockOut
<1>10. Configuring'
  BY <1>2, <1>4 DEF PortInv, DlSound, Configuring, SmFixed, Waiting, Still, Engaged
<1> QED BY <1>5, <1>6, <1>7, <1>8, <1>9, <1>10 DEF PortInv

(* Communication starts to carry on-request data. *)
LEMMA StartedKeeps ==
  ASSUME TypeInv, PortInv, SmFixed, UNCHANGED linked, dl.event, dl.mdh = "STARTUP",
         dl.mode \in {"PREOPERATE", "OPERATE"}, Startup2
  PROVE  PortInv'
<1> DEFINE active == OH_ConfActive(Handled)
<1>1. dl \in DlRecord /\ MboxTyped /\ Handled \in DlRecord
  BY SmFacts, HandledType
<1>2. active \in DlRecord
  BY <1>1, OhType
<1>3. /\ active.mdh = dl.mdh /\ active.mode = dl.mode /\ active.lost = dl.lost /\ ~active.event
      /\ active.wurq = dl.wurq /\ active.mh = dl.mh /\ active.rw = dl.rw /\ active.isdu = dl.isdu
  BY <1>1, OhFields, HandledFields
<1>4. /\ dl'.mdh = dl.mode /\ ~dl'.event /\ dl'.mode = dl.mode /\ dl'.lost = dl.lost
      /\ dl'.wurq = dl.wurq /\ dl'.rw = dl.rw
      /\ dl.mh = "INACTIVE" => dl'.mh = "INACTIVE"
      /\ dl.mh = "STARTUP" => dl'.mh = dl.mode
      /\ \E k : k \in {"MODE_PREOPERATE", "MODE_OPERATE"} /\ Gains({k, "DEVMODE_CNF"}, {k})
  <2>1. CASE dl.mode = "PREOPERATE"
    <3> DEFINE told == MH_ConfPreoperate(active)
    <3>1. told \in DlRecord
      BY <1>2, MhType
    <3>2. /\ ~told.event /\ told.mode = dl.mode /\ told.lost = dl.lost /\ told.wurq = dl.wurq
          /\ told.rw = dl.rw /\ told.mh = IF dl.mh = "STARTUP" THEN "PREOPERATE" ELSE dl.mh
      BY <1>2, <1>3, MhFields, MhOutcome
    <3>3. /\ dl' = [told EXCEPT !.mdh = "PREOPERATE"]
          /\ mbox' = mbox \o (Settled(dl) \o <<Signal("MODE_PREOPERATE")>>)
      BY <2>1 DEF Startup2, DlPost
    <3> HIDE DEF told
    <3>4. Gains({"MODE_PREOPERATE", "DEVMODE_CNF"}, {"MODE_PREOPERATE"})
      BY <1>1, <3>3, SettledFacts, ModeKinds, GainedTwo DEF MboxTyped, Modes4
    <3> QED BY <2>1, <3>1, <3>2, <3>3, <3>4, DlShape
  <2>2. CASE dl.mode = "OPERATE"
    <3>1. GotoOperate(active, Settled(dl))
      BY <2>2 DEF Startup2
    <3> HIDE DEF active
    <3> QED BY <1>1, <1>2, <1>3, <2>2, <3>1, SettledFacts, GoneOperate
  <2> QED BY <2>1, <2>2
<1> HIDE DEF active
<1>5. PICK k : k \in {"MODE_PREOPERATE", "MODE_OPERATE"} /\ Gains({k, "DEVMODE_CNF"}, {k})
  BY <1>4
<1>6. Serving' /\ Followed'
  BY <1>5, ForeignKept DEF PortInv, Foreign
<1>7. DlSound'
  BY <1>4 DEF PortInv, DlSound
<1>8. Woken'
  <2>1. ~Waiting("MODE_STARTUP")
    BY DEF PortInv, Woken
  <2>2. ~Waiting("MODE_STARTUP")'
    BY <1>5, <2>1 DEF Gains, Waiting
  <2>3. NoneAfter("MODE_STARTUP", Upsets, mbox)'
    BY <2>2, NoneAfterNone DEF Waiting
  <2> QED BY <1>4, <2>2, <2>3 DEF Woken
<1>9. Asking'
  BY <1>4, <1>5 DEF PortInv, Asking, SmFixed, Waiting, BlockOut, Ready, Gains, Asked, Granted
<1>10. Moded'
  BY <1>4, <1>5 DEF PortInv, Moded, SmFixed, Token, BlockOut, Gains, Asked
<1>11. Configuring'
  BY <1>4, <1>5, ForeignKept DEF PortInv, Configuring, Waiting, Foreign
<1> QED BY <1>6, <1>7, <1>8, <1>9, <1>10, <1>11 DEF PortInv

(* Communication ends. *)
LEMMA IdleEntered ==
  ASSUME ~Parallel, TypeInv, PortInv, SmFixed, UNCHANGED linked, dl.event,
         NEW mode \in {"MODE_INACTIVE", "MODE_COMLOST"}, GotoIdle(Handled, mode),
         \/ dl.mdh \in {"STARTUP", "OPERATE"} /\ dl.mode = "INACTIVE"
         \/ dl.mdh \in {"STARTUP", "PREOPERATE", "OPERATE"} /\ dl.lost
             /\ (dl.mode = "STARTUP" => dl.mdh = "STARTUP")
  PROVE  PortInv'
<1>1. dl \in DlRecord /\ MboxTyped /\ Handled \in DlRecord
  BY SmFacts, HandledType
<1>2. dl.mh \in {"STARTUP", "INACTIVE", "OPERATE"} /\ (dl.mh # "OPERATE" \/ dl.mode = "INACTIVE")
  BY DEF PortInv, DlSound
<1>3. /\ dl'.mdh = "IDLE" /\ ~dl'.lost /\ dl'.mode = dl.mode /\ dl'.wurq = dl.wurq /\ dl'.rw = dl.rw
      /\ ~dl'.isdu /\ dl'.mh \in {"STARTUP", "INACTIVE"}
      /\ dl'.event => dl.mode = "INACTIVE"
      /\ Gains({mode, "ISDU_CNF"}, {mode}) /\ (~dl.isdu => GainsOne(mode))
  BY <1>1, <1>2, HandledFields, GoneIdle
<1>4. Serving' /\ Followed' /\ (\A k \in Foreign : Waiting(k)' <=> Waiting(k))
      /\ Single({"SMI_CFG", "SM_CFG"}, mbox')
  BY <1>3, ForeignKept DEF PortInv, Configuring, Foreign
<1>5. DlSound'
  BY <1>3 DEF PortInv, DlSound
<1>6. Woken'
  <2>1. ~Waiting("MODE_STARTUP")
    BY DEF PortInv, Woken
  <2>2. ~Waiting("MODE_STARTUP")'
    BY <1>3, <2>1 DEF Gains, Waiting
  <2>3. NoneAfter("MODE_STARTUP", Upsets, mbox)'
    BY <2>2, NoneAfterNone DEF Waiting
  <2> QED BY <1>3, <2>2, <2>3 DEF Woken
<1>7. Asking'
  BY <1>3 DEF PortInv, Asking, SmFixed, Waiting, BlockOut, Ready, Gains, Asked, Granted
<1>8. Moded'
  BY <1>3 DEF PortInv, Moded, SmFixed, Token, BlockOut, Gains, Asked
<1>9. Configuring'
  <2>1. Waiting("SMI_CFG")' \/ Waiting("SM_CFG")' => Waiting("SMI_CFG") \/ Waiting("SM_CFG")
    BY <1>4 DEF Foreign
  <2>2. ASSUME Still PROVE Still'
    <3>1. Gains({mode}, {mode})
      BY <1>3, <2>2 DEF Still, GainsOne
    <3>2. mode \notin Loud
      BY DEF Loud, Calm
    <3>3. ~Among(Loud, mbox')
      BY <2>2, <3>1, <3>2 DEF Still, Gains
    <3> QED BY <1>3, <2>2, <3>3 DEF Still, Engaged
  <2> QED BY <1>3, <1>4, <2>1, <2>2 DEF PortInv, Configuring, SmFixed
<1> QED BY <1>4, <1>5, <1>6, <1>7, <1>8, <1>9 DEF PortInv

(* The device is told to start again. *)
LEMMA StartupEntered ==
  ASSUME ~Parallel, TypeInv, PortInv, SmFixed, UNCHANGED linked, dl.event, dl.mode = "STARTUP",
         \/ dl.mdh = "PREOPERATE" /\ GotoStartup(CH_Conf(Handled, FALSE))
         \/ dl.mdh = "OPERATE" /\ GotoStartup(Handled)
  PROVE  PortInv'
<1>1. dl \in DlRecord /\ MboxTyped /\ Handled \in DlRecord
  BY SmFacts, HandledType
<1>2. sm = "PortInactive" /\ Still
  BY DEF PortInv, Configuring
<1>3. PICK d \in DlRecord :
         /\ GotoStartup(d) /\ (d.mh = "PREOPERATE" => ~Busy(d)) /\ ~d.isdu /\ ~d.event
         /\ d.mode = dl.mode /\ d.lost = dl.lost /\ d.wurq = dl.wurq /\ d.mh = dl.mh /\ d.rw = dl.rw
  <2>1. CASE dl.mdh = "PREOPERATE" /\ GotoStartup(CH_Conf(Handled, FALSE))
    <3> DEFINE d == CH_Conf(Handled, FALSE)
    <3>1. d \in DlRecord
      BY <1>1, CH_ConfType, DlNames
    <3>2. /\ d.mode = dl.mode /\ d.lost = dl.lost /\ d.wurq = dl.wurq /\ d.mh = dl.mh
          /\ d.rw = dl.rw /\ d.isdu = dl.isdu /\ ~d.event /\ d.odh = dl.odh /\ d.cmd = dl.cmd
          /\ dl.cmdh # "COMMAND" => d.code = dl.code
      BY <1>1, CH_ConfFields, HandledFields, DlNames
    <3>3. GotoStartup(d)
      BY <2>1
    <3> HIDE DEF d
    <3>4. d.mh = "PREOPERATE" => ~Busy(d)
      BY <1>2, <3>1, <3>2, DlFacts DEF Still, Engaged, Busy, CommandSettled
    <3> QED BY <1>2, <3>1, <3>2, <3>3, <3>4 DEF Still
  <2>2. CASE dl.mdh = "OPERATE" /\ GotoStartup(Handled)
    <3>1. Handled.mh # "PREOPERATE"
      BY <1>1, <2>2, HandledFields DEF PortInv, DlSound
    <3> QED BY <1>1, <1>2, <2>2, <3>1, HandledFields DEF Still
  <2> QED BY <2>1, <2>2
<1>4. /\ dl'.mdh = "STARTUP" /\ dl'.lost = dl.lost /\ dl'.mode = dl.mode /\ dl'.wurq = dl.wurq
      /\ dl'.rw = dl.rw /\ ~dl'.isdu /\ ~dl'.event
      /\ dl'.mh = IF dl.mh \in {"OPERATE", "PREOPERATE"} THEN "STARTUP" ELSE dl.mh
      /\ GainsOne("MODE_STARTUP")
  BY <1>1, <1>3, GoneStartup
<1>5. Gains({"MODE_STARTUP"}, {"MODE_STARTUP"})
  BY <1>4 DEF GainsOne
<1>6. Serving' /\ Followed' /\ (\A k \in Foreign : Waiting(k)' <=> Waiting(k))
      /\ Single({"SMI_CFG", "SM_CFG"}, mbox')
  BY <1>5, ForeignKept DEF PortInv, Configuring, Foreign
<1>7. DlSound'
  BY <1>4 DEF PortInv, DlSound
<1>8. Woken'
  <2>1. ~Waiting("MODE_STARTUP")
    BY DEF PortInv, Woken
  <2>2. NoneAfter("MODE_STARTUP", Upsets, mbox)'
    BY <1>4, <2>1 DEF Waiting, GainsOne
  <2>3. Waiting("MODE_STARTUP")'
    BY <1>5 DEF Waiting, Gains
  <2> QED BY <1>2, <1>4, <2>2, <2>3 DEF Woken, SmFixed
<1>9. Asking'
  <2>1. ~Among(Asked, mbox) /\ ~Among({"STRAY"}, mbox)
    BY <1>2 DEF PortInv, Asking, Asked, Still, Waiting, Reading, Writing, Among
  <2>2. ~Among(Asked, mbox') /\ ~Among({"STRAY"}, mbox')
    BY <1>5, <2>1 DEF Gains, Asked
  <2>3. ~BlockOut'
    BY <1>2, <1>4 DEF Still, BlockOut
  <2>4. \A K : K \subseteq Asked \cup {"STRAY"} => ~Among(K, mbox')
    BY <2>2 DEF Among
  <2>5. Single(Asked, mbox')
    BY <2>2 DEF Single, Among
  <2> QED BY <2>3, <2>4, <2>5 DEF Asking, Asked, Granted, Waiting, BlockOut
<1>10. Moded'
  BY <1>2 DEF Moded, SmFixed
<1>11. Configuring'
  BY <1>4, <1>6 DEF PortInv, Configuring, Foreign
<1> QED BY <1>6, <1>7, <1>8, <1>9, <1>10, <1>11 DEF PortInv

(* A later mode, or none of its business. *)
LEMMA RaisedKeeps ==
  ASSUME TypeInv, PortInv, SmFixed, UNCHANGED linked, dl.event, dl.mdh \in {"PREOPERATE", "OPERATE"},
         dl.mode # "STARTUP",
         \/ dl.mode = "OPERATE" /\ dl.mdh = "PREOPERATE" /\ GotoOperate(Handled, <<>>)
         \/ dl.mode = "INACTIVE" /\ dl.mdh = "PREOPERATE" /\ DlPost(MH_ConfOperate(Handled), <<>>)
         \/ dl.mode = "PREOPERATE" /\ DlPost(Handled, <<>>)
         \/ dl.mode = "OPERATE" /\ dl.mdh = "OPERATE" /\ DlPost(Handled, <<>>)
  PROVE  PortInv'
<1>1. dl \in DlRecord /\ MboxTyped /\ Handled \in DlRecord /\ <<>> \in Seq(PortJob)
      /\ mbox \o <<>> = mbox
  BY SmFacts, HandledType, EmptyPost DEF MboxTyped
<1>2. /\ ~dl'.event /\ dl'.mode = dl.mode /\ dl'.lost = dl.lost /\ dl'.wurq = dl.wurq
      /\ dl'.rw = dl.rw /\ dl'.isdu = dl.isdu
      /\ dl.mh = "INACTIVE" => dl'.mh = "INACTIVE"
      /\ dl'.mdh = IF dl.mode = "OPERATE" THEN "OPERATE" ELSE dl.mdh
      /\ dl.mode = "INACTIVE" => dl.mdh = "PREOPERATE"
      /\ dl.mh \in {"PREOPERATE", "OPERATE"} => dl'.mh \in {"PREOPERATE", "OPERATE"}
      /\ dl'.mdh = "OPERATE" => dl'.mh \in {"OPERATE", "INACTIVE"}
      /\ Engaged' => Engaged
      /\ \E may : may \subseteq {"MODE_OPERATE", "DEVMODE_CNF"} /\ Gains(may, {})
            /\ (may = {} \/ (dl.mode = "OPERATE" /\ dl.mdh = "PREOPERATE"))
  <2>0. dl.mh \in {"PREOPERATE", "OPERATE", "INACTIVE"} /\ (dl.mdh = "OPERATE" => dl.mh # "PREOPERATE")
    BY DEF PortInv, DlSound
  <2>1. CASE dl.mode = "OPERATE" /\ dl.mdh = "PREOPERATE" /\ GotoOperate(Handled, <<>>)
    <3>1. /\ dl'.mdh = "OPERATE" /\ dl'.lost = dl.lost /\ dl'.mode = dl.mode /\ dl'.wurq = dl.wurq
          /\ dl'.rw = dl.rw /\ dl'.isdu = dl.isdu /\ ~dl'.event
          /\ dl'.mh = IF dl.mh \in {"STARTUP", "PREOPERATE"} THEN "OPERATE" ELSE dl.mh
          /\ Gains({"MODE_OPERATE", "DEVMODE_CNF"}, {"MODE_OPERATE"})
      BY <1>1, <2>1, HandledFields, GoneOperate
    <3>2. Gains({"MODE_OPERATE", "DEVMODE_CNF"}, {})
      BY <3>1 DEF Gains
    <3> QED BY <2>0, <2>1, <3>1, <3>2 DEF Engaged
  <2>2. CASE dl.mode = "INACTIVE" /\ dl.mdh = "PREOPERATE" /\ DlPost(MH_ConfOperate(Handled), <<>>)
    <3> DEFINE told == MH_ConfOperate(Handled)
    <3>1. told \in DlRecord
      BY <1>1, MhType
    <3>2. /\ told.mdh = dl.mdh /\ told.lost = dl.lost /\ told.mode = dl.mode /\ told.wurq = dl.wurq
          /\ told.rw = dl.rw /\ told.isdu = dl.isdu /\ ~told.event
          /\ told.mh = IF dl.mh \in {"STARTUP", "PREOPERATE"} THEN "OPERATE" ELSE dl.mh
      BY <1>1, HandledFields, MhFields, MhOutcome
    <3>3. dl' = told /\ mbox' = mbox
      BY <1>1, <2>2 DEF DlPost
    <3> HIDE DEF told
    <3>4. Gains({}, {})
      BY <1>1, <3>3, GainedNone DEF MboxTyped
    <3> QED BY <2>0, <2>2, <3>2, <3>3, <3>4 DEF Engaged
  <2>3. CASE DlPost(Handled, <<>>) /\ (dl.mode = "PREOPERATE" \/ (dl.mode = "OPERATE" /\ dl.mdh = "OPERATE"))
    <3>1. dl' = Handled /\ mbox' = mbox
      BY <1>1, <2>3 DEF DlPost
    <3>2. Gains({}, {})
      BY <1>1, <3>1, GainedNone DEF MboxTyped
    <3>3. Engaged' <=> Engaged
      BY <1>1, <3>1, HandledFields DEF Engaged, Busy, CommandSettled
    <3> QED BY <1>1, <2>0, <2>3, <3>1, <3>2, <3>3, HandledFields
  <2> QED BY <2>1, <2>2, <2>3
<1>3. PICK may : /\ may \subseteq {"MODE_OPERATE", "DEVMODE_CNF"} /\ Gains(may, {})
                 /\ (may = {} \/ (dl.mode = "OPERATE" /\ dl.mdh = "PREOPERATE"))
  BY <1>2
<1>4. Serving' /\ Followed' /\ (\A k \in Foreign : Waiting(k)' <=> Waiting(k))
      /\ Single({"SMI_CFG", "SM_CFG"}, mbox')
  BY <1>3, ForeignKept DEF PortInv, Configuring, Foreign
<1>5. DlSound'
  BY <1>2 DEF PortInv, DlSound
<1>6. Woken'
  <2>1. ~Waiting("MODE_STARTUP")
    BY DEF PortInv, Woken
  <2>2. ~Waiting("MODE_STARTUP")'
    BY <1>3, <2>1 DEF Gains, Waiting
  <2>3. NoneAfter("MODE_STARTUP", Upsets, mbox)'
    BY <2>2, NoneAfterNone DEF Waiting
  <2> QED BY <1>2, <2>2, <2>3 DEF Woken
<1>7. Asking'
  BY <1>2, <1>3 DEF PortInv, Asking, SmFixed, Waiting, BlockOut, Ready, Gains, Asked, Granted
<1>8. Moded'
  BY <1>2, <1>3 DEF PortInv, Moded, SmFixed, Token, BlockOut, Gains, Asked
<1>9. Configuring'
  <2>1. Waiting("SMI_CFG")' \/ Waiting("SM_CFG")' => Waiting("SMI_CFG") \/ Waiting("SM_CFG")
    BY <1>4 DEF Foreign
  <2>2. ASSUME Still, may = {} PROVE Still'
    BY <1>2, <1>3, <2>2 DEF Still, Gains
  <2>3. ASSUME Waiting("SMI_CFG") \/ Waiting("SM_CFG") PROVE may = {} /\ dl'.mdh = dl.mdh
    BY <1>2, <1>3, <2>3 DEF PortInv, Configuring
  <2> QED BY <1>2, <1>4, <2>1, <2>2, <2>3 DEF PortInv, Configuring, SmFixed
<1> QED BY <1>4, <1>5, <1>6, <1>7, <1>8, <1>9 DEF PortInv

(* Every transition of the mode handler. *)
LEMMA ModeHandlerInv ==
  ASSUME ~Parallel, TypeInv, PortInv, SmFixed, ModeHandler PROVE PortInv'
<1>1. dl.event /\ UNCHANGED linked
  BY DEF ModeHandler
<1>2. CASE Idle0
  BY <1>1, <1>2, IdleKeeps
<1>3. CASE EstablishCom1
  BY <1>1, <1>3 DEF EstablishCom1, PortInv, Woken
<1>4. CASE Startup2
  <2>1. dl.mode = "STARTUP" => dl.lost
    BY <1>1, <1>4 DEF PortInv, DlSound, Startup2
  <2>2. ASSUME dl.mode \notin {"PREOPERATE", "OPERATE"}
        PROVE  \/ dl.mode = "INACTIVE" /\ GotoIdle(Handled, "MODE_INACTIVE")
               \/ dl.lost /\ GotoIdle(Handled, "MODE_COMLOST")
    BY <1>4, <2>1, <2>2 DEF Startup2
  <2> QED BY <1>1, <1>4, <2>2, StartedKeeps, IdleEntered DEF Startup2
<1>5. CASE Preoperate3
  BY <1>1, <1>5, StartupEntered, RaisedKeeps, IdleEntered DEF Preoperate3
<1>6. CASE Operate4
  BY <1>1, <1>6, StartupEntered, RaisedKeeps, IdleEntered DEF Operate4
<1> QED BY <1>2, <1>3, <1>4, <1>5, <1>6 DEF ModeHandler

-----------------------------------------------------------------------------
(* Exchanges of on-request data keep it, answered or not. *)

(* An exchange of on-request data, and its effect. *)
Exchanged ==
    /\ dl'.mdh = dl.mdh /\ dl'.mode = dl.mode /\ dl'.event = dl.event /\ dl'.lost = dl.lost
    /\ dl'.wurq = dl.wurq /\ dl'.mh = dl.mh /\ dl.mh \in {"PREOPERATE", "OPERATE"}
    /\ dl'.rw = dl.rw \/ (dl.rw \in {"param", "isdu"} /\ dl'.rw = "none")
    /\ dl'.isdu => dl.isdu
    /\ \E may : /\ may \subseteq {"DEVMODE_CNF", "PARAM_CNF", "ISDU_CNF"} /\ Gains(may, {})
                /\ Still => dl.mh = "OPERATE" /\ may \subseteq {"DEVMODE_CNF"}

LEMMA ExchangedKeeps ==
  ASSUME TypeInv, PortInv, SmFixed, Exchanged
  PROVE  PortInv'
<1>1. PICK may : /\ may \subseteq {"DEVMODE_CNF", "PARAM_CNF", "ISDU_CNF"} /\ Gains(may, {})
                 /\ Still => dl.mh = "OPERATE" /\ may \subseteq {"DEVMODE_CNF"}
  BY DEF Exchanged
<1>2. /\ dl'.mdh = dl.mdh /\ dl'.mode = dl.mode /\ dl'.event = dl.event /\ dl'.lost = dl.lost
      /\ dl'.wurq = dl.wurq /\ dl'.mh = dl.mh /\ dl.mh \in {"PREOPERATE", "OPERATE"}
      /\ dl'.rw = dl.rw \/ (dl.rw \in {"param", "isdu"} /\ dl'.rw = "none")
      /\ dl'.isdu => dl.isdu
  BY DEF Exchanged
<1>3. Serving' /\ Followed' /\ (\A k \in Foreign : Waiting(k)' <=> Waiting(k))
      /\ Single({"SMI_CFG", "SM_CFG"}, mbox')
  BY <1>1, ForeignKept DEF PortInv, Configuring, Foreign
<1>4. DlSound'
  BY <1>2 DEF PortInv, DlSound
<1>5. Woken'
  <2>1. ~Waiting("MODE_STARTUP")
    BY <1>2 DEF PortInv, Woken, DlSound
  <2>2. ~Waiting("MODE_STARTUP")'
    BY <1>1, <2>1 DEF Gains, Waiting
  <2>3. NoneAfter("MODE_STARTUP", Upsets, mbox)'
    BY <2>2, NoneAfterNone DEF Waiting
  <2> QED BY <1>2, <2>1, <2>2, <2>3 DEF PortInv, Woken, SmFixed
<1>6. Asking'
  BY <1>1, <1>2 DEF PortInv, Asking, SmFixed, Waiting, BlockOut, Ready, Gains, Asked, Granted
<1>7. Moded'
  BY <1>1, <1>2 DEF PortInv, Moded, SmFixed, Token, BlockOut, Gains, Asked
<1>8. Configuring'
  <2>1. Waiting("SMI_CFG")' \/ Waiting("SM_CFG")' => Waiting("SMI_CFG") \/ Waiting("SM_CFG")
    BY <1>3 DEF Foreign
  <2>2. ASSUME Still PROVE Still'
    <3>1. "DEVMODE_CNF" \notin Loud
      BY DEF Loud, Calm
    <3>2. ~Among(Loud, mbox')
      BY <1>1, <2>2, <3>1 DEF Still, Gains
    <3> QED BY <1>1, <1>2, <2>2, <3>2 DEF Still, Engaged
  <2> QED BY <1>2, <1>3, <2>1, <2>2 DEF PortInv, Configuring, SmFixed
<1> QED BY <1>3, <1>4, <1>5, <1>6, <1>7, <1>8 DEF PortInv

(* A message that was answered. *)
LEMMA ReceivedFields ==
  ASSUME NEW d \in DlRecord
  PROVE  /\ Received(d).mdh = d.mdh /\ Received(d).mode = d.mode /\ Received(d).lost = d.lost
         /\ Received(d).event = d.event /\ Received(d).wurq = d.wurq /\ Received(d).mh = d.mh
         /\ Received(d).rw = d.rw /\ Received(d).isdu = d.isdu /\ Received(d).odh = d.odh
         /\ Received(d).cmd = d.cmd /\ Received(d).code = d.code /\ Received(d).cmdh = d.cmdh
         /\ Received(d).left = d.left
  BY DlShape DEF Received

(* Exchanges that were answered. *)
LEMMA ExchangeInv ==
  ASSUME ~Parallel, TypeInv, PortInv, SmFixed, ParamDone \/ CommandSent \/ CommandDone
  PROVE  PortInv'
<1> DEFINE got == Received(dl)
<1>1. dl \in DlRecord /\ MboxTyped /\ got \in DlRecord
  BY SmFacts, ReceivedType
<1>2. /\ got.mdh = dl.mdh /\ got.mode = dl.mode /\ got.lost = dl.lost /\ got.event = dl.event
      /\ got.wurq = dl.wurq /\ got.mh = dl.mh /\ got.rw = dl.rw /\ got.isdu = dl.isdu
  BY <1>1, ReceivedFields
<1>3. CASE ParamDone
  <2>1. /\ dl' = [got EXCEPT !.rw = "none"] /\ mbox' = mbox \o <<ParamCnf("OK")>> /\ dl.rw = "param"
        /\ dl.mh \in {"PREOPERATE", "OPERATE"}
    BY <1>3 DEF ParamDone, Confirmed, DlPost, OdExchange
  <2>2. GainsOne("PARAM_CNF")
    BY <1>1, <2>1, GainedOne, ModeKinds, ResultNames DEF MboxTyped
  <2>3. Gains({"PARAM_CNF"}, {})
    BY <2>2 DEF GainsOne, Gains
  <2>4. ~Still
    BY <2>1 DEF Still
  <2> HIDE DEF got
  <2>5. Exchanged
    BY <1>1, <1>2, <2>1, <2>3, <2>4, DlShape DEF Exchanged
  <2> QED BY <2>5, ExchangedKeeps
<1>4. CASE CommandSent
  <2>1. CmdHandler(got) \in DlRecord
    BY <1>1, CmdHandlerType
  <2>2. /\ dl' = [CmdHandler(got) EXCEPT !.odh = "COMMAND"] /\ mbox' = mbox
        /\ dl.mh = "OPERATE" \/ (dl.mh = "PREOPERATE" /\ Busy(dl))
    BY <1>4 DEF CommandSent
  <2>3. Gains({}, {})
    BY <1>1, <2>2, GainedNone DEF MboxTyped
  <2>4. Still => dl.mh = "OPERATE"
    BY <2>2 DEF Still, Engaged
  <2> HIDE DEF got
  <2>5. /\ CmdHandler(got).mdh = dl.mdh /\ CmdHandler(got).mode = dl.mode
        /\ CmdHandler(got).lost = dl.lost /\ CmdHandler(got).event = dl.event
        /\ CmdHandler(got).wurq = dl.wurq /\ CmdHandler(got).mh = dl.mh
        /\ CmdHandler(got).rw = dl.rw /\ CmdHandler(got).isdu = dl.isdu
    BY <1>1, <1>2, CmdHandlerFields
  <2>6. /\ dl'.mdh = dl.mdh /\ dl'.mode = dl.mode /\ dl'.event = dl.event /\ dl'.lost = dl.lost
        /\ dl'.wurq = dl.wurq /\ dl'.mh = dl.mh /\ dl'.rw = dl.rw /\ dl'.isdu = dl.isdu
    BY <2>1, <2>2, <2>5, DlShape
  <2>7. Exchanged
    BY <2>2, <2>3, <2>4, <2>6 DEF Exchanged
  <2> QED BY <2>7, ExchangedKeeps
<1>5. CASE CommandDone
  <2>1. /\ dl' = [got EXCEPT !.odh = "ISDU", !.cmd = "NONE"] /\ mbox' = mbox \o Settled(dl)
        /\ dl.mh \in {"PREOPERATE", "OPERATE"} /\ CommandSettled(dl)
    BY <1>5 DEF CommandDone, DlPost, OdExchange
  <2>2. Settled(dl) = <<>> => mbox' = mbox
    BY <1>1, <2>1 DEF MboxTyped
  <2>3. ASSUME NEW y \in PortJob, Settled(dl) = <<y>>, Kind(y) = "DEVMODE_CNF"
        PROVE  Gains({"DEVMODE_CNF"}, {})
    <3>1. GainsOne("DEVMODE_CNF")
      BY <1>1, <2>1, <2>3, GainedOne DEF MboxTyped
    <3> QED BY <3>1 DEF GainsOne, Gains
  <2>4. \E may : may \subseteq {"DEVMODE_CNF"} /\ Gains(may, {})
    BY <1>1, <2>2, <2>3, SettledFacts, GainedNone DEF MboxTyped
  <2>5. Still => dl.mh = "OPERATE"
    BY <2>1 DEF Still, Engaged, Busy
  <2> HIDE DEF got
  <2>6. Exchanged
    BY <1>1, <1>2, <2>1, <2>4, <2>5, DlShape DEF Exchanged
  <2> QED BY <2>6, ExchangedKeeps
<1> QED BY <1>3, <1>4, <1>5

(* A step that posts at most one job of the kind k. *)
LEMMA GainedSome ==
  ASSUME mbox \in Seq(PortJob), NEW s \in Seq(PortJob), mbox' = mbox \o s, NEW may,
         \A i \in DOMAIN s : Kind(s[i]) \in may
  PROVE  Gains(may, {})
<1>1. \A k \in {} : \E i \in DOMAIN s : Kind(s[i]) = k
  OBVIOUS
<1> QED BY <1>1, Gained

LEMMA Appended == ASSUME NEW S, NEW q \in Seq(S), NEW x \in S PROVE Append(q, x) = q \o <<x>>
  OBVIOUS

(* The device answers in the startup or later. *)
LEMMA AnswerInv ==
  ASSUME ~Parallel, TypeInv, PortInv, SmFixed, IsduExchange, NEW res \in Results, NEW snap \in Snapshot,
         Answer(res, snap)
  PROVE  PortInv'
<1> DEFINE got == Received(dl)
<1>1. dl \in DlRecord /\ MboxTyped /\ got \in DlRecord
  BY SmFacts, ReceivedType
<1>2. /\ got.mdh = dl.mdh /\ got.mode = dl.mode /\ got.lost = dl.lost /\ got.event = dl.event
      /\ got.wurq = dl.wurq /\ got.mh = dl.mh /\ got.rw = dl.rw /\ got.isdu = dl.isdu
  BY <1>1, ReceivedFields
<1> DEFINE free == [got EXCEPT !.isdu = FALSE]
<1>3. /\ dl' = [free EXCEPT !.rw = "none"] /\ mbox' = Append(mbox, IsduCnf(res, snap))
      /\ dl.mh \in {"PREOPERATE", "OPERATE"} /\ dl.isdu /\ dl.rw = "isdu"
  BY DEF Answer, Confirmed, Post, IsduExchange, OdExchange
<1>4. IsduCnf(res, snap) \in PortJob /\ Kind(IsduCnf(res, snap)) = "ISDU_CNF"
  BY ModeKinds
<1>5. mbox' = mbox \o <<IsduCnf(res, snap)>>
  BY <1>1, <1>3, <1>4, Appended DEF MboxTyped
<1>6. GainsOne("ISDU_CNF")
  BY <1>1, <1>4, <1>5, GainedOne DEF MboxTyped
<1>7. Gains({"ISDU_CNF"}, {})
  BY <1>6 DEF GainsOne, Gains
<1>8. ~Still
  BY <1>3 DEF Still
<1> HIDE DEF got
<1>9. Exchanged
  BY <1>1, <1>2, <1>3, <1>7, <1>8, DlShape DEF Exchanged
<1> QED BY <1>9, ExchangedKeeps

-----------------------------------------------------------------------------
(* Messages without an answer. *)
LEMMA GaveUpFields ==
  ASSUME dl \in DlRecord, NEW d \in {GaveUp, [GaveUp EXCEPT !.cmd = "NONE"]}
  PROVE  /\ d.mdh = dl.mdh /\ d.mode = dl.mode /\ d.lost /\ d.event /\ d.wurq = dl.wurq
         /\ d.mh = "INACTIVE" /\ d.rw = "none" /\ d.isdu = dl.isdu
<1>1. GaveUp \in DlRecord
  BY DlMoreFields, DlNames DEF GaveUp
<1>2. /\ GaveUp.mdh = dl.mdh /\ GaveUp.mode = dl.mode /\ GaveUp.lost /\ GaveUp.event
      /\ GaveUp.wurq = dl.wurq /\ GaveUp.mh = "INACTIVE" /\ GaveUp.rw = "none"
      /\ GaveUp.isdu = dl.isdu
  BY DlShape DEF GaveUp
<1> QED BY <1>1, <1>2, DlShape

(* A block was not answered: only the first one, before the device spoke. *)
LEMMA StartupLostInv ==
  ASSUME TypeInv, PortInv, SmFixed, ~linked, UNCHANGED linked, StartupLost(smAux.addr)
  PROVE  PortInv'
<1>1. dl \in DlRecord /\ MboxTyped /\ smAux.addr \in Blocks
  BY SmFacts
<1>2. /\ dl' = GaveUp /\ mbox' = mbox \o <<BlockCnf(dl.rw, smAux.addr, "ERR", NoSnap)>>
      /\ dl.mh = "STARTUP" /\ BlockOut
  BY DEF StartupLost, DlPost, BlockOut
<1>3. dl.rw = "read" /\ sm = "ReadComParameter" /\ smAux.addr # "WURQ" /\ Ready
  BY <1>2 DEF PortInv, Asking, BlockOut, Writing
<1>4. /\ dl'.mdh = dl.mdh /\ dl'.mode = dl.mode /\ dl'.lost /\ dl'.event /\ dl'.wurq = dl.wurq
      /\ dl'.mh = "INACTIVE" /\ dl'.rw = "none" /\ dl'.isdu = dl.isdu
  BY <1>1, <1>2, GaveUpFields
<1>5. BlockCnf("read", smAux.addr, "ERR", NoSnap) \in PortJob
  BY <1>1, CnfIsJob, ResultNames, WildFacts DEF BlockCnf, Answers
<1>6. GainsOne("NOT_READ")
  BY <1>1, <1>2, <1>3, <1>5, GainedOne, CnfKind, WildFacts DEF MboxTyped
<1>7. Gains({"NOT_READ"}, {"NOT_READ"})
  BY <1>6 DEF GainsOne
<1>8. Serving' /\ Followed' /\ (\A k \in Foreign : Waiting(k)' <=> Waiting(k))
      /\ Single({"SMI_CFG", "SM_CFG"}, mbox')
  BY <1>7, ForeignKept DEF PortInv, Configuring, Foreign
<1>9. DlSound'
  BY <1>3, <1>4 DEF PortInv, DlSound, Ready
<1>10. Woken'
  <2>1. ~Waiting("MODE_STARTUP")
    BY <1>3 DEF PortInv, Woken
  <2>2. ~Waiting("MODE_STARTUP")'
    BY <1>7, <2>1 DEF Gains, Waiting
  <2>3. NoneAfter("MODE_STARTUP", Upsets, mbox)'
    BY <2>2, NoneAfterNone DEF Waiting
  <2> QED BY <1>3, <1>4, <2>2, <2>3 DEF Woken, SmFixed, Ready
<1>11. Asking'
  <2>1. ~Among(Asked, mbox)
    BY <1>2 DEF PortInv, Asking
  <2>2. Single(Asked, mbox')
    BY <1>6, <2>1 DEF GainsOne
  <2>3. ~Among({"READ"}, mbox') /\ ~Among({"WRITTEN"}, mbox') /\ ~Among(Granted, mbox')
        /\ ~Among({"NOT_WRITTEN", "STRAY"}, mbox')
    <3>1. ~Among({"READ"}, mbox) /\ ~Among({"WRITTEN"}, mbox) /\ ~Among(Granted, mbox)
      BY <2>1 DEF Among, Asked, Granted
    <3>2. ~Among({"NOT_WRITTEN", "STRAY"}, mbox)
      BY DEF PortInv, Asking
    <3> QED BY <1>7, <3>1, <3>2 DEF Gains, Granted
  <2>4. ~BlockOut' /\ sm' = "ReadComParameter"
    BY <1>3, <1>4 DEF BlockOut, SmFixed
  <2> QED BY <1>4, <2>2, <2>3, <2>4 DEF Asking, BlockOut, Reading
<1>12. Moded'
  BY <1>3 DEF Moded, SmFixed
<1>13. Configuring'
  <2>1. ~Still
    BY <1>2 DEF Still, BlockOut
  <2> QED BY <1>4, <1>8, <2>1 DEF PortInv, Configuring, Foreign
<1> QED BY <1>8, <1>9, <1>10, <1>11, <1>12, <1>13 DEF PortInv

(* An exchange or a cycle was not answered. *)
LEMMA CyclesLostInv ==
  ASSUME TypeInv, PortInv, SmFixed, UNCHANGED linked, ExchangeLost \/ CycleLost
  PROVE  PortInv'
<1>1. dl \in DlRecord /\ MboxTyped /\ <<>> \in Seq(PortJob) /\ mbox \o <<>> = mbox
  BY SmFacts, EmptyPost DEF MboxTyped
<1>2. /\ dl' \in {GaveUp, [GaveUp EXCEPT !.cmd = "NONE"]}
      /\ dl.mh \in {"PREOPERATE", "OPERATE"}
      /\ \E may : may \subseteq {"DEVMODE_CNF", "PARAM_CNF"} /\ Gains(may, {}) /\ (Still => may = {})
  <2>1. CASE CycleLost
    <3>1. mbox' = mbox /\ dl' = GaveUp /\ dl.mh = "OPERATE"
      BY <1>1, <2>1 DEF CycleLost, DlPost
    <3> QED BY <1>1, <3>1, GainedNone DEF MboxTyped
  <2>2. CASE ExchangeLost
    <3> DEFINE first == IF dl.cmd # "NONE" THEN <<DevmodeCnf("ERR")>> ELSE <<>>
               then == IF dl.rw = "param" THEN <<ParamCnf("ERR")>> ELSE <<>>
               s == first \o then
    <3>1. /\ dl' = [GaveUp EXCEPT !.cmd = "NONE"] /\ mbox' = mbox \o s
          /\ \/ dl.mh = "PREOPERATE" /\ Busy(dl)
             \/ dl.mh = "STRAY"
             \/ dl.mh = "OPERATE" /\ dl.rw = "param"
      BY <2>2 DEF ExchangeLost, DlPost
    <3>2. dl.mh # "STRAY"
      BY <1>1, DlFacts DEF PortInv, DlSound, Mdhs
    <3>3. ~Still
      BY <3>1, <3>2 DEF Still, Engaged
    <3>4. /\ first \in Seq(PortJob) /\ then \in Seq(PortJob)
          /\ \A i \in DOMAIN first : Kind(first[i]) \in {"DEVMODE_CNF", "PARAM_CNF"}
          /\ \A i \in DOMAIN then : Kind(then[i]) \in {"DEVMODE_CNF", "PARAM_CNF"}
      BY ModeKinds, ResultNames, EmptyPost
    <3> HIDE DEF first, then
    <3>5. s \in Seq(PortJob) /\ \A i \in DOMAIN s : Kind(s[i]) \in {"DEVMODE_CNF", "PARAM_CNF"}
      BY <3>4, Joined
    <3> HIDE DEF s
    <3>6. Gains({"DEVMODE_CNF", "PARAM_CNF"}, {})
      BY <1>1, <3>1, <3>5, GainedSome DEF MboxTyped
    <3> QED BY <3>1, <3>2, <3>3, <3>6
  <2> QED BY <2>1, <2>2
<1>3. PICK may : may \subseteq {"DEVMODE_CNF", "PARAM_CNF"} /\ Gains(may, {}) /\ (Still => may = {})
  BY <1>2
<1>4. /\ dl'.mdh = dl.mdh /\ dl'.mode = dl.mode /\ dl'.lost /\ dl'.event /\ dl'.wurq = dl.wurq
      /\ dl'.mh = "INACTIVE" /\ dl'.rw = "none" /\ dl'.isdu = dl.isdu
  BY <1>1, <1>2, GaveUpFields
<1>5. Serving' /\ Followed' /\ (\A k \in Foreign : Waiting(k)' <=> Waiting(k))
      /\ Single({"SMI_CFG", "SM_CFG"}, mbox')
  BY <1>3, ForeignKept DEF PortInv, Configuring, Foreign
<1>6. dl.mdh \in {"PREOPERATE", "OPERATE"}
  BY <1>1, <1>2, DlFacts DEF PortInv, DlSound, Mdhs
<1>7. DlSound'
  BY <1>4, <1>6 DEF PortInv, DlSound
<1>8. Woken'
  <2>1. ~Waiting("MODE_STARTUP")
    BY <1>6 DEF PortInv, Woken
  <2>2. ~Waiting("MODE_STARTUP")'
    BY <1>3, <2>1 DEF Gains, Waiting
  <2>3. NoneAfter("MODE_STARTUP", Upsets, mbox)'
    BY <2>2, NoneAfterNone DEF Waiting
  <2> QED BY <1>4, <1>6, <2>2, <2>3 DEF Woken, SmFixed
<1>9. Asking'
  BY <1>2, <1>3, <1>4 DEF PortInv, Asking, SmFixed, Waiting, BlockOut, Ready, Gains, Asked, Granted
<1>10. Moded'
  <2>1. ~BlockOut
    BY <1>6 DEF PortInv, Asking, Ready
  <2> QED BY <1>3, <1>4, <2>1 DEF PortInv, Moded, SmFixed, Token, BlockOut, Gains, Asked
<1>11. Configuring'
  <2>1. Waiting("SMI_CFG")' \/ Waiting("SM_CFG")' => Waiting("SMI_CFG") \/ Waiting("SM_CFG")
    BY <1>5 DEF Foreign
  <2>2. ASSUME Still PROVE Still'
    BY <1>3, <1>4, <2>2 DEF Still, Engaged, Gains
  <2> QED BY <1>4, <1>5, <1>6, <2>1, <2>2 DEF PortInv, Configuring, SmFixed
<1> QED BY <1>5, <1>7, <1>8, <1>9, <1>10, <1>11 DEF PortInv

-----------------------------------------------------------------------------
(* The wake-up and the blocks of the startup keep it. *)

(* The device was woken, and the SM is told. *)
LEMMA WakeUpInv ==
  ASSUME TypeInv, PortInv, SmFixed, WakeUp(smAux.addr)
  PROVE  PortInv'
<1> DEFINE woken == [Received(dl) EXCEPT !.wurq = FALSE, !.mdh = "STARTUP", !.mh = "STARTUP"]
           idle  == BlockCnf("read", "WURQ", "OK", NoSnap)
           posts == <<idle, Signal("MODE_STARTUP")>>
<1>1. dl \in DlRecord /\ MboxTyped /\ Received(dl) \in DlRecord
  BY SmFacts, ReceivedType
<1>2. /\ dl.mdh = "ESTCOM" /\ ~dl.event /\ dl.mode = "STARTUP" /\ sm = "PortInactive"
      /\ smAux.addr = "WURQ" /\ ~dl.lost
  BY DEF PortInv, DlSound, Woken, WakeUp
<1>3. dl' = CH_Conf(woken, TRUE) /\ mbox' = mbox \o posts /\ linked'
  BY <1>2 DEF WakeUp, DlPost
<1>4. /\ idle \in PortJob /\ Kind(idle) = "WURQ"
      /\ Signal("MODE_STARTUP") \in PortJob /\ Kind(Signal("MODE_STARTUP")) = "MODE_STARTUP"
  <2>1. idle \in PortJob
    BY CnfIsJob, ResultNames, WildFacts, BlockNames DEF BlockCnf, Answers
  <2> QED BY <2>1, CnfKind, ModeKinds DEF Modes4
<1>5. woken \in DlRecord
  BY <1>1, DlMoreFields, DlNames
<1>6. /\ woken.mdh = "STARTUP" /\ woken.mh = "STARTUP" /\ ~woken.wurq /\ ~woken.event
      /\ woken.mode = "STARTUP" /\ ~woken.lost /\ woken.rw = dl.rw
  BY <1>1, <1>2, ReceivedFields, DlShape
<1> HIDE DEF woken, idle
<1>7. /\ dl'.mdh = "STARTUP" /\ dl'.mh = "STARTUP" /\ ~dl'.wurq /\ ~dl'.event
      /\ dl'.mode = "STARTUP" /\ ~dl'.lost /\ dl'.rw = dl.rw
  BY <1>3, <1>5, <1>6, CH_ConfFields, DlNames
<1>8. Gains({"MODE_STARTUP", "WURQ"}, {"MODE_STARTUP", "WURQ"})
  BY <1>1, <1>3, <1>4, GainedPair DEF MboxTyped
<1>9. Serving' /\ Followed' /\ (\A k \in Foreign : Waiting(k)' <=> Waiting(k))
      /\ Single({"SMI_CFG", "SM_CFG"}, mbox')
  BY <1>8, ForeignKept DEF PortInv, Configuring, Foreign
<1>10. DlSound'
  BY <1>7 DEF DlSound
<1>11. Woken'
  <2>1. ~Waiting("MODE_STARTUP")
    BY <1>2 DEF PortInv, Woken
  <2>2. posts \in Seq(PortJob) /\ DOMAIN posts = 1 .. 2 /\ posts[1] = idle
    BY <1>4
  <2>3. NoneAfter("MODE_STARTUP", Upsets, posts)
    BY <1>4, <2>2 DEF NoneAfter
  <2>4. NoneAfter("MODE_STARTUP", Upsets, mbox)
    BY DEF PortInv, Woken
  <2>5. mbox' = mbox \o posts
    BY <1>3
  <2> HIDE DEF posts
  <2>6. NoneAfter("MODE_STARTUP", Upsets, mbox)'
    BY <1>1, <2>1, <2>2, <2>3, <2>4, <2>5, AfterJoined DEF MboxTyped, Waiting
  <2>7. Waiting("MODE_STARTUP")'
    BY <1>8 DEF Gains, Waiting
  <2> QED BY <1>2, <1>7, <2>6, <2>7 DEF Woken, SmFixed
<1>12. Asking'
  <2>1. ~BlockOut /\ ~Among(Granted, mbox)
    BY <1>2 DEF PortInv, Asking, Ready
  <2> QED BY <1>2, <1>7, <1>8, <2>1
          DEF PortInv, Asking, SmFixed, Waiting, BlockOut, Gains, Asked, Granted, Reading, Writing
<1>13. Moded'
  BY <1>2 DEF Moded, SmFixed
<1>14. Configuring'
  BY <1>2, <1>7, <1>9 DEF PortInv, Configuring, Foreign
<1> QED BY <1>9, <1>10, <1>11, <1>12, <1>13, <1>14 DEF PortInv

(* It was not: the SM tries again, until the retries are used up. *)
LEMMA WakeUpFailedInv ==
  ASSUME TypeInv, PortInv, SmFixed, WakeUpFailed
  PROVE  PortInv'
<1> DEFINE idle == [Received(dl) EXCEPT !.wurq = FALSE, !.mdh = "IDLE", !.lost = FALSE]
<1>1. dl \in DlRecord /\ MboxTyped /\ Received(dl) \in DlRecord
  BY SmFacts, ReceivedType
<1>2. dl.mdh = "ESTCOM" /\ ~dl.event /\ dl.mode = "STARTUP" /\ sm = "PortInactive"
  BY DEF PortInv, DlSound, Woken, WakeUpFailed
<1>3. dl' = idle /\ mbox' = mbox \o <<Signal("MODE_INACTIVE")>> /\ ~linked'
  BY DEF WakeUpFailed, DlPost
<1>4. /\ dl'.mdh = "IDLE" /\ dl'.mh = dl.mh /\ ~dl'.wurq /\ ~dl'.event
      /\ dl'.mode = "STARTUP" /\ ~dl'.lost /\ dl'.rw = dl.rw
  BY <1>1, <1>2, <1>3, ReceivedFields, DlShape
<1>5. Gains({"MODE_INACTIVE"}, {"MODE_INACTIVE"})
  BY <1>1, <1>3, GainedOne, ModeKinds DEF MboxTyped, Modes4, GainsOne
<1>6. Serving' /\ Followed' /\ (\A k \in Foreign : Waiting(k)' <=> Waiting(k))
      /\ Single({"SMI_CFG", "SM_CFG"}, mbox')
  BY <1>5, ForeignKept DEF PortInv, Configuring, Foreign
<1>7. DlSound'
  BY <1>2, <1>4 DEF PortInv, DlSound
<1>8. Woken'
  <2>1. ~Waiting("MODE_STARTUP")
    BY <1>2 DEF PortInv, Woken
  <2>2. ~Waiting("MODE_STARTUP")'
    BY <1>5, <2>1 DEF Gains, Waiting
  <2>3. NoneAfter("MODE_STARTUP", Upsets, mbox)'
    BY <2>2, NoneAfterNone DEF Waiting
  <2> QED BY <1>4, <2>2, <2>3 DEF Woken
<1>9. Asking'
  <2>1. ~BlockOut /\ ~Among(Granted, mbox)
    BY <1>2 DEF PortInv, Asking, Ready
  <2> QED BY <1>2, <1>4, <1>5, <2>1
          DEF PortInv, Asking, SmFixed, Waiting, BlockOut, Gains, Asked, Granted, Reading, Writing
<1>10. Moded'
  BY <1>2 DEF Moded, SmFixed
<1>11. Configuring'
  BY <1>2, <1>4, <1>6 DEF PortInv, Configuring, Foreign
<1> QED BY <1>6, <1>7, <1>8, <1>9, <1>10, <1>11 DEF PortInv

(* A block was exchanged. *)
LEMMA BlockDoneInv ==
  ASSUME TypeInv, PortInv, SmFixed, NEW snap \in Snapshot, BlockDone(smAux.addr, snap)
  PROVE  PortInv'
<1> DEFINE cnf == BlockCnf(dl.rw, smAux.addr, "OK", snap)
<1>1. dl \in DlRecord /\ MboxTyped /\ Received(dl) \in DlRecord /\ smAux.addr \in Blocks
  BY SmFacts, ReceivedType
<1>2. /\ BlockOut /\ linked /\ UNCHANGED linked /\ dl' = [Received(dl) EXCEPT !.rw = "none"]
      /\ mbox' = mbox \o <<cnf>>
  BY DEF BlockDone, DlPost, BlockOut
<1>3. /\ dl'.mdh = dl.mdh /\ dl'.mh = dl.mh /\ dl'.wurq = dl.wurq /\ dl'.event = dl.event
      /\ dl'.mode = dl.mode /\ dl'.lost = dl.lost /\ dl'.rw = "none"
  BY <1>1, <1>2, ReceivedFields, DlShape
<1>4. smAux.addr # "WURQ" /\ Ready /\ ~Among(Asked, mbox)
  BY <1>2 DEF PortInv, Asking
<1>5. PICK k \in Granted : /\ GainsOne(k)
                           /\ (k = "READ" /\ dl.rw = "read") \/ (k = "WRITTEN" /\ dl.rw = "write")
  <2>1. cnf \in PortJob
    BY <1>1, CnfIsJob, ResultNames DEF BlockCnf, Answers
  <2>2. Kind(cnf) = IF dl.rw = "read" THEN "READ" ELSE "WRITTEN"
    BY <1>2, <1>4, CnfKind DEF BlockOut
  <2> HIDE DEF cnf
  <2>3. GainsOne(Kind(cnf))
    BY <1>1, <1>2, <2>1, GainedOne DEF MboxTyped
  <2> QED BY <1>2, <2>2, <2>3 DEF BlockOut, Granted
<1>6. Gains({k}, {k})
  BY <1>5 DEF GainsOne
<1>7. Serving' /\ Followed' /\ (\A l \in Foreign : Waiting(l)' <=> Waiting(l))
      /\ Single({"SMI_CFG", "SM_CFG"}, mbox')
  BY <1>6, ForeignKept DEF PortInv, Configuring, Foreign, Granted
<1>8. DlSound'
  BY <1>3 DEF PortInv, DlSound
<1>9. sm \in Reading \cup Writing
  BY <1>5 DEF PortInv, Asking
<1>10. Woken'
  <2>1. ~Waiting("MODE_STARTUP")
    BY <1>9 DEF PortInv, Woken, Reading, Writing
  <2>2. ~Waiting("MODE_STARTUP")'
    BY <1>6, <2>1 DEF Gains, Waiting, Granted
  <2>3. NoneAfter("MODE_STARTUP", Upsets, mbox)'
    BY <2>2, NoneAfterNone DEF Waiting
  <2> QED BY <1>3, <1>4, <1>9, <2>2, <2>3 DEF Woken, Ready, SmFixed, Reading, Writing
<1>11. Asking'
  <2>1. Single(Asked, mbox')
    BY <1>4, <1>5 DEF GainsOne
  <2>2. Ready'
    <3>1. ~Among(Upsets, mbox')
      BY <1>4, <1>6 DEF Ready, Gains, Upsets, Granted
    <3> QED BY <1>3, <1>4, <3>1 DEF Ready
  <2>3. linked' \/ sm = "ReadComParameter"
    BY <1>2
  <2>4. ~Among({"NOT_READ"}, mbox')
    <3>1. ~Among({"NOT_READ"}, mbox)
      BY <1>4 DEF Among, Asked
    <3> QED BY <1>6, <3>1 DEF Gains, Granted
  <2>5. ~Among({"NOT_WRITTEN", "STRAY"}, mbox')
    BY <1>6 DEF PortInv, Asking, Gains, Granted
  <2>6. Among({"READ", "NOT_READ"}, mbox') => sm \in Reading
    <3>1. ~Among({"READ", "NOT_READ"}, mbox)
      BY <1>4 DEF Among, Asked
    <3>2. Among({"READ", "NOT_READ"}, mbox') => k = "READ"
      BY <1>5, <1>6, <3>1 DEF Gains
    <3> QED BY <1>5, <3>2 DEF PortInv, Asking
  <2>7. Among({"WRITTEN"}, mbox') => sm \in Writing
    <3>1. ~Among({"WRITTEN"}, mbox)
      BY <1>4 DEF Among, Asked
    <3>2. Among({"WRITTEN"}, mbox') => k = "WRITTEN"
      BY <1>5, <1>6, <3>1 DEF Gains
    <3> QED BY <1>5, <3>2 DEF PortInv, Asking
  <2> QED BY <1>2, <1>3, <2>1, <2>2, <2>3, <2>4, <2>5, <2>6, <2>7 DEF Asking, BlockOut, SmFixed, Waiting
<1>12. Moded'
  <2>1. Token /\ Token'
    <3>1. Among(Asked, mbox')
      BY <1>5, <1>6 DEF Gains, Asked, Granted
    <3> QED BY <1>2, <3>1 DEF Token
  <2> QED BY <1>3, <2>1 DEF PortInv, Moded, SmFixed
<1>13. Configuring'
  BY <1>2, <1>3, <1>4, <1>7 DEF PortInv, Configuring, Foreign, Ready
<1> QED BY <1>7, <1>8, <1>10, <1>11, <1>12, <1>13 DEF PortInv

(* The thread of the DL. *)
LEMMA DlInv ==
  ASSUME ~Parallel, TypeInv, PortInv, DlStep \/ DlWakeUp \/ DlWakeUpFailed \/ DlBlockDone \/ DevAnswers \/ DevRefuses
  PROVE  PortInv'
<1>1. SmFixed
  BY DEF SmFixed, DlStep, DlWakeUp, DlWakeUpFailed, DlBlockDone, DevAnswers, DevRefuses, cmVars, smVars
<1>2. CASE DlStep
  <2>1. MessageLost(smAux.addr) => PortInv'
    BY <1>1, StartupLostInv, CyclesLostInv DEF MessageLost
  <2>2. ~Leave /\ ~DlClear
    <3>1. dl.left = "none"
      BY SmFacts, DlFacts
    <3> QED BY <3>1 DEF Leave, DlClear, Leaves, Clears
  <2> QED BY <1>1, <1>2, <2>1, <2>2, ModeHandlerInv, ExchangeInv DEF DlStep
<1>3. CASE DlWakeUp
  BY <1>1, <1>3, WakeUpInv DEF DlWakeUp
<1>4. CASE DlWakeUpFailed
  BY <1>1, <1>4, WakeUpFailedInv DEF DlWakeUpFailed
<1>5. CASE DlBlockDone
  <2>1. Direct \in Snapshot /\ NoSnap \in Snapshot
    BY WildFacts, DevFacts DEF Direct, Snapshot
  <2> QED BY <1>1, <1>5, <2>1, BlockDoneInv DEF DlBlockDone
<1>6. CASE DevAnswers \/ DevRefuses
  <2>1. IsduExchange
    BY <1>6 DEF DevAnswers, DevRefuses
  <2>2. Shown \in Snapshot /\ [NoSnap EXCEPT !.id = dev.id] \in Snapshot /\ NoSnap \in Snapshot
    BY WildFacts, DevFacts DEF Shown, Snapshot, Revs
  <2>3. PICK res \in Results, snap \in Snapshot : Answer(res, snap)
    BY <1>6, <2>2, ResultNames DEF DevAnswers, DevRefuses, DevRead, DevWrite
  <2> QED BY <1>1, <2>1, <2>3, AnswerInv
<1> QED BY <1>2, <1>3, <1>4, <1>5, <1>6

-----------------------------------------------------------------------------
(* The steps of the main thread: what concerns the DL stays. *)

(* Types of jobs that are kinds. *)
Plain == JobTypes \ {"DL_READ_CNF", "DL_WRITE_CNF", "AL_READ_REQ", "AL_WRITE_REQ",
                     "SERNUM_CNF", "CYCL_CNF"}

LEMMA HeadKind ==
  ASSUME NEW j
  PROVE  /\ j.type \in Plain => Kind(j) = j.type
         /\ j.type \in Requests => Kind(j) = IF j.index \in {"SERNUM", "CYCL"} THEN j.index ELSE j.type
         /\ j.type = "SERNUM_CNF" => Kind(j) = "SERNUM"
         /\ j.type = "CYCL_CNF" => Kind(j) = "CYCL"
         /\ j.type = "DL_READ_CNF" => Kind(j) = IF j.index = "WURQ" THEN (IF j.res = "OK" THEN "WURQ" ELSE "STRAY")
                                                ELSE (IF j.res = "OK" THEN "READ" ELSE "NOT_READ")
         /\ j.type = "DL_WRITE_CNF" => Kind(j) = IF j.index = "WURQ" THEN "STRAY"
                                                 ELSE (IF j.res = "OK" THEN "WRITTEN" ELSE "NOT_WRITTEN")
  BY DEF Kind, Requests, Plain

(* The DL is as before, for all that the groups say of it. *)
SameModes ==
    /\ dl'.mdh = dl.mdh /\ dl'.mode = dl.mode /\ dl'.event = dl.event /\ dl'.lost = dl.lost
    /\ dl'.wurq = dl.wurq /\ dl'.mh = dl.mh
    /\ dl'.rw = dl.rw \/ (~BlockOut /\ dl'.rw \in {"param", "isdu"})

(* What concerns the DL stays when other jobs are taken and posted. *)
LEMMA QuietKeeps ==
  ASSUME PortInv, UNCHANGED <<linked, sm, smAux>>, SameModes, NEW may, NEW must, Trades(may, must),
         may \cap (Asked \cup Upsets \cup {"STRAY"}) = {},
         Kind(Head(mbox)) \notin Asked \cup {"MODE_STARTUP"}
  PROVE  DlSound' /\ Woken' /\ Asking' /\ Moded'
<1>1. DlSound'
  BY DEF PortInv, DlSound, SameModes
<1>2. Waiting("MODE_STARTUP")' <=> Waiting("MODE_STARTUP")
  BY DEF Waiting, Trades, Upsets
<1>3. NoneAfter("MODE_STARTUP", Upsets, mbox)'
  <2>1. NoneAfter("MODE_STARTUP", Upsets, mbox) /\ may \cap Upsets = {} /\ "MODE_STARTUP" \in Upsets
    BY DEF PortInv, Woken, Upsets
  <2> QED BY <2>1 DEF Trades
<1>4. Woken'
  BY <1>2, <1>3 DEF PortInv, Woken, SameModes
<1>5. /\ BlockOut' <=> BlockOut
      /\ dl'.rw = "read" <=> dl.rw = "read"
      /\ dl'.rw = "write" <=> dl.rw = "write"
  BY DEF SameModes, BlockOut
<1>6. \A K : K \subseteq Asked \cup {"STRAY"} /\ Among(K, mbox') => Among(K, mbox)
  BY DEF Trades
<1>7. Among(Asked, mbox) => Among(Asked, mbox')
  BY DEF Trades
<1>8. Single(Asked, mbox')
  BY DEF PortInv, Asking, Trades
<1>9. Ready => Ready'
  <2>1. Among(Upsets, mbox') => Among(Upsets, mbox)
    BY DEF Trades
  <2> QED BY <2>1 DEF Ready, SameModes
<1>10. Asking'
  <2>1. {"READ", "NOT_READ"} \subseteq Asked /\ {"WRITTEN"} \subseteq Asked /\ Granted \subseteq Asked
        /\ {"NOT_READ"} \subseteq Asked /\ {"NOT_WRITTEN", "STRAY"} \subseteq Asked \cup {"STRAY"}
    BY DEF Asked, Granted
  <2> QED BY <1>5, <1>6, <1>8, <1>9, <2>1 DEF PortInv, Asking, Waiting
<1>11. Moded'
  BY <1>5, <1>6, <1>7 DEF PortInv, Moded, Token, SameModes
<1> QED BY <1>1, <1>4, <1>10, <1>11

(* Nothing is configured while a job of another kind is at the head. *)
LEMMA LoudKeeps ==
  ASSUME Configuring, SameModes, UNCHANGED sm, NEW may, NEW must, Trades(may, must),
         may \cap {"SMI_CFG", "SM_CFG"} = {}, Kind(Head(mbox)) \in Loud
  PROVE  Configuring'
<1>1. ~Still
  BY DEF Still, Trades
<1>2. Waiting("SMI_CFG")' \/ Waiting("SM_CFG")' => Waiting("SMI_CFG") \/ Waiting("SM_CFG")
  BY DEF Waiting, Trades
<1>3. Single({"SMI_CFG", "SM_CFG"}, mbox')
  BY DEF Configuring, Trades
<1> QED BY <1>1, <1>2, <1>3 DEF Configuring, SameModes

(* Kinds of jobs that Followed speaks of. *)
Guide == {"SM_CFG", "SM_OPERATE", "OPERATE", "COMLOST"}

LEMMA GuideKeeps ==
  ASSUME Followed, UNCHANGED <<sm, smCfg, smReal, cm, cmCfg>>, NEW may, NEW must, Trades(may, must),
         may \cap Guide = {}, Kind(Head(mbox)) \notin Guide
  PROVE  Followed'
<1>1. \A k \in Guide : Waiting(k)' <=> Waiting(k)
  BY DEF Waiting, Trades
<1>2. Told(cmCfg, mbox) => Told(cmCfg, mbox')
  BY DEF Trades, Guide
<1> QED BY <1>1, <1>2 DEF Followed, Guide

LEMMA ServedKeeps ==
  ASSUME Serving, UNCHANGED <<sm, svc>>, NEW may, NEW must, Trades(may, must),
         may \cap {"SERNUM", "CYCL"} = {}
  PROVE  Serving'
<1>1. /\ Waiting("SERNUM")' => Waiting("SERNUM")
      /\ Waiting("CYCL")' => Waiting("CYCL")
      /\ Single({"SERNUM"}, mbox') /\ Single({"CYCL"}, mbox')
  BY DEF Serving, Waiting, Trades
<1> QED BY <1>1 DEF Serving

-----------------------------------------------------------------------------
(* The application layer. *)
LEMMA AlHead ==
  ASSUME TypeInv, AlReq
  PROVE  /\ mbox # <<>> /\ Head(mbox).index \in Indexes \cup {"CMD"}
         /\ Kind(Head(mbox)) = IF Head(mbox).index \in {"SERNUM", "CYCL"} THEN Head(mbox).index
                               ELSE Head(mbox).type
         /\ Head(mbox).type \in {"AL_READ_REQ", "AL_WRITE_REQ"}
         /\ Kind(Head(mbox)) \in Loud
<1>1. mbox # <<>> /\ Head(mbox).type \in Requests
  BY DEF AlReq, Requests
<1>2. Head(mbox).index \in Indexes \cup {"CMD"}
  BY <1>1, SmFacts, HeadFacts
<1>3. Kind(Head(mbox)) = IF Head(mbox).index \in {"SERNUM", "CYCL"} THEN Head(mbox).index
                         ELSE Head(mbox).type
  BY <1>1, HeadKind
<1> QED BY <1>1, <1>2, <1>3 DEF Requests, Loud, Calm, JobTypes

LEMMA AlCnfKind ==
  ASSUME NEW dir \in {"none", "read", "write"}, NEW index \in Indexes \cup {"CMD"},
         NEW res \in Results, NEW snap \in Snapshot
  PROVE  /\ AlCnf(dir, index, res, snap) \in PortJob
         /\ Kind(AlCnf(dir, index, res, snap)) \in
               IF index \in {"SERNUM", "CYCL"} THEN {index} ELSE {"AL_READ_CNF", "AL_WRITE_CNF"}
<1>1. CnfType(dir, index) \in Answers
  BY DEF CnfType, Answers
<1>2. AlCnf(dir, index, res, snap) \in PortJob
  BY <1>1, CnfIsJob DEF AlCnf
<1> QED BY <1>2, CnfKind DEF AlCnf, CnfType

LEMMA AlBusyInv ==
  ASSUME TypeInv, PortInv, AlBusy PROVE PortInv'
<1> DEFINE index == Head(mbox).index
           cnf   == AlCnf(ReqDir, index, "BUSY", NoSnap)
<1>1. /\ MboxTyped /\ mbox # <<>> /\ index \in Indexes \cup {"CMD"} /\ Kind(Head(mbox)) \in Loud
      /\ Kind(Head(mbox)) = IF index \in {"SERNUM", "CYCL"} THEN index ELSE Head(mbox).type
      /\ Head(mbox).type \in {"AL_READ_REQ", "AL_WRITE_REQ"}
  BY AlHead, SmFacts DEF AlBusy
<1>2. /\ cnf \in PortJob
      /\ Kind(cnf) \in IF index \in {"SERNUM", "CYCL"} THEN {index} ELSE {"AL_READ_CNF", "AL_WRITE_CNF"}
  BY <1>1, AlCnfKind, ResultNames, WildFacts DEF ReqDir
<1>3. TakeAndPost(<<cnf>>) /\ UNCHANGED <<cm, cmCfg, sm, smCfg, smReal, smAux, dl, linked, svc>>
  BY DEF AlBusy, cmVars, smVars, dlVars
<1> HIDE DEF cnf, index
<1>4. PICK k : k = Kind(cnf)
  OBVIOUS
<1>5. TradesOne(k)
  BY <1>1, <1>2, <1>3, <1>4, TradedOne DEF MboxTyped
<1>6. Trades({k}, {k})
  BY <1>5 DEF TradesOne
<1>7. k \in {"SERNUM", "CYCL", "AL_READ_CNF", "AL_WRITE_CNF"}
  BY <1>2, <1>4
<1>8. SameModes
  BY <1>3 DEF SameModes
<1>9. Kind(Head(mbox)) \in {"SERNUM", "CYCL", "AL_READ_REQ", "AL_WRITE_REQ"}
  BY <1>1
<1>10. DlSound' /\ Woken' /\ Asking' /\ Moded'
  BY <1>3, <1>6, <1>7, <1>8, <1>9, QuietKeeps DEF Asked, Upsets
<1>11. Configuring'
  BY <1>1, <1>3, <1>6, <1>7, <1>8, LoudKeeps DEF PortInv
<1>12. Followed'
  BY <1>3, <1>6, <1>7, <1>9, GuideKeeps DEF PortInv, Guide
<1>13. Serving'
  <2>1. CASE index \in {"SERNUM", "CYCL"}
    <3>1. k = index /\ Kind(Head(mbox)) = index
      BY <1>1, <1>2, <1>4, <2>1
    <3>2. /\ Waiting("SERNUM")' => Waiting("SERNUM")
          /\ Waiting("CYCL")' => Waiting("CYCL")
      BY <1>6, <2>1, <3>1 DEF Waiting, Trades
    <3>3. Single({"SERNUM"}, mbox') /\ Single({"CYCL"}, mbox')
      BY <1>5, <1>6, <2>1, <3>1 DEF PortInv, Serving, Trades, TradesOne
    <3> QED BY <1>3, <3>2, <3>3 DEF PortInv, Serving
  <2>2. CASE index \notin {"SERNUM", "CYCL"}
    BY <1>2, <1>3, <1>4, <1>6, <2>2, ServedKeeps DEF PortInv
  <2> QED BY <2>1, <2>2
<1> QED BY <1>10, <1>11, <1>12, <1>13 DEF PortInv

(* A job is taken, and at most one is posted. *)
LEMMA TakenMay ==
  ASSUME mbox \in Seq(PortJob), mbox # <<>>, NEW k, NEW x \in PortJob, Kind(x) = k,
         TakeAndPost(<<>>) \/ TakeAndPost(<<x>>)
  PROVE  \E must : Trades({k}, must)
<1>1. CASE TakeAndPost(<<>>)
  <2>1. Trades({}, {})
    BY <1>1, TradedNone
  <2>2. Trades({k}, {})
    BY <2>1 DEF Trades
  <2> QED BY <2>2
<1>2. CASE TakeAndPost(<<x>>)
  BY <1>2, TradedOne DEF TradesOne
<1> QED BY <1>1, <1>2

(* The AL starts a service, and ends one. *)
LEMMA AlServiceInv ==
  ASSUME TypeInv, PortInv, AlService PROVE PortInv'
<1> DEFINE index == Head(mbox).index
<1>1. /\ MboxTyped /\ mbox # <<>> /\ index \in Indexes \cup {"CMD"} /\ Kind(Head(mbox)) \in Loud
      /\ Kind(Head(mbox)) = IF index \in {"SERNUM", "CYCL"} THEN index ELSE Head(mbox).type
      /\ Head(mbox).type \in {"AL_READ_REQ", "AL_WRITE_REQ"} /\ dl \in DlRecord
  BY AlHead, SmFacts DEF AlService
<1>2. /\ UNCHANGED <<cm, cmCfg, sm, smCfg, smReal, smAux, linked>> /\ svc = NoSvc /\ svc'.index = index
  BY DEF AlService, cmVars, smVars
<1>3. /\ ParamCnf("ERR") \in PortJob /\ Kind(ParamCnf("ERR")) = "PARAM_CNF"
      /\ IsduCnf("ERR", NoSnap) \in PortJob /\ Kind(IsduCnf("ERR", NoSnap)) = "ISDU_CNF"
  BY ModeKinds, ResultNames, WildFacts
<1>4. ASSUME Kind(Head(mbox)) \in {"SERNUM", "CYCL"} PROVE Waiting(Kind(Head(mbox)))
  BY <1>1, <1>4, AmongTail DEF Waiting, MboxTyped
<1>5. /\ SameModes
      /\ \E k, must : k \in {"PARAM_CNF", "ISDU_CNF"} /\ Trades({k}, must)
  <2>1. CASE index = "CYCL"
    <3>1. dl' = DL_WriteParam_req(dl) /\ (TakeAndPost(<<>>) \/ TakeAndPost(<<ParamCnf("ERR")>>))
      BY <2>1 DEF AlService
    <3>2. ~BlockOut
      <4>1. Waiting("CYCL")
        BY <1>1, <1>4, <2>1
      <4> QED BY <4>1 DEF PortInv, Serving, Moded, Asking, Ready
    <3>3. SameModes
      BY <1>1, <3>1, <3>2, DlShape DEF DL_WriteParam_req, SameModes
    <3>4. \E must : Trades({"PARAM_CNF"}, must)
      BY <1>1, <1>3, <3>1, TakenMay DEF MboxTyped
    <3> QED BY <3>3, <3>4
  <2>2. CASE index # "CYCL"
    <3>1. /\ (IsduAccepted(dl) /\ dl' = DL_ISDUTransport_req(dl)) \/ dl' = dl
          /\ TakeAndPost(<<>>) \/ TakeAndPost(<<IsduCnf("ERR", NoSnap)>>)
      BY <2>2 DEF AlService, IsduAnswers
    <3>2. IsduAccepted(dl) => ~BlockOut
      BY DEF PortInv, Asking, Ready, IsduAccepted
    <3>3. SameModes
      BY <1>1, <3>1, <3>2, DlShape DEF DL_ISDUTransport_req, SameModes
    <3>4. \E must : Trades({"ISDU_CNF"}, must)
      BY <1>1, <1>3, <3>1, TakenMay DEF MboxTyped
    <3> QED BY <3>3, <3>4
  <2> QED BY <2>1, <2>2
<1>6. PICK k, must : k \in {"PARAM_CNF", "ISDU_CNF"} /\ Trades({k}, must)
  BY <1>5
<1> HIDE DEF index
<1>7. Kind(Head(mbox)) \in {"SERNUM", "CYCL", "AL_READ_REQ", "AL_WRITE_REQ"}
  BY <1>1
<1>8. DlSound' /\ Woken' /\ Asking' /\ Moded'
  BY <1>2, <1>5, <1>6, <1>7, QuietKeeps DEF Asked, Upsets
<1>9. Configuring'
  BY <1>1, <1>2, <1>5, <1>6, LoudKeeps DEF PortInv
<1>10. Followed'
  BY <1>2, <1>6, <1>7, GuideKeeps DEF PortInv, Guide
<1>11. Serving'
  <2>1. /\ Waiting("SERNUM")' => Waiting("SERNUM")
        /\ Waiting("CYCL")' => Waiting("CYCL")
        /\ Single({"SERNUM"}, mbox') /\ Single({"CYCL"}, mbox')
        /\ Kind(Head(mbox)) = "SERNUM" => ~Waiting("SERNUM")'
        /\ Kind(Head(mbox)) = "CYCL" => ~Waiting("CYCL")'
    BY <1>6 DEF PortInv, Serving, Waiting, Trades
  <2>2. svc'.index = "SERNUM" => Kind(Head(mbox)) = "SERNUM" /\ sm = "checkSerNum"
    BY <1>1, <1>2, <1>4 DEF PortInv, Serving
  <2>3. svc'.index = "CYCL" => Kind(Head(mbox)) = "CYCL" /\ sm = "write_master_cycl"
    BY <1>1, <1>2, <1>4 DEF PortInv, Serving
  <2> QED BY <1>2, <2>1, <2>2, <2>3 DEF PortInv, Serving
<1> QED BY <1>8, <1>9, <1>10, <1>11 DEF PortInv

LEMMA AlConfirmInv ==
  ASSUME TypeInv, PortInv, AlConfirm PROVE PortInv'
<1>1. MboxTyped /\ mbox # <<>> /\ Head(mbox).type \in {"ISDU_CNF", "PARAM_CNF"}
  BY SmFacts DEF AlConfirm, Take
<1>2. Kind(Head(mbox)) \in {"ISDU_CNF", "PARAM_CNF"}
  BY <1>1, HeadKind DEF Plain, JobTypes
<1>3. Kind(Head(mbox)) \in Loud
  BY <1>2 DEF Loud, JobTypes, Calm
<1>4. UNCHANGED <<cm, cmCfg, sm, smCfg, smReal, smAux, dl, linked>>
  BY DEF AlConfirm, cmVars, smVars, dlVars
<1>5. SameModes
  BY <1>4 DEF SameModes
<1>6. CASE TakeAndPost(<<>>) /\ UNCHANGED svc
  <2>1. Trades({}, {})
    BY <1>1, <1>6, TradedNone DEF MboxTyped
  <2>2. DlSound' /\ Woken' /\ Asking' /\ Moded'
    BY <1>2, <1>4, <1>5, <2>1, QuietKeeps DEF Asked, Upsets
  <2>3. Configuring'
    BY <1>3, <1>4, <1>5, <2>1, LoudKeeps DEF PortInv
  <2>4. Followed'
    BY <1>2, <1>4, <2>1, GuideKeeps DEF PortInv, Guide
  <2>5. Serving'
    BY <1>4, <1>6, <2>1, ServedKeeps DEF PortInv
  <2> QED BY <2>2, <2>3, <2>4, <2>5 DEF PortInv
<1>7. CASE /\ svc # NoSvc /\ svc' = NoSvc
           /\ TakeAndPost(<<AlCnf(svc.dir, svc.index, Head(mbox).res, Head(mbox).snap)>>)
  <2> DEFINE cnf == AlCnf(svc.dir, svc.index, Head(mbox).res, Head(mbox).snap)
  <2>1. /\ cnf \in PortJob
        /\ Kind(cnf) \in IF svc.index \in {"SERNUM", "CYCL"} THEN {svc.index}
                         ELSE {"AL_READ_CNF", "AL_WRITE_CNF"}
    BY <1>1, HeadFacts, SvcFacts, AlCnfKind
  <2>2. TakeAndPost(<<cnf>>)
    BY <1>7
  <2> HIDE DEF cnf
  <2>3. PICK k : k = Kind(cnf)
    OBVIOUS
  <2>4. TradesOne(k)
    BY <1>1, <2>1, <2>2, <2>3, TradedOne DEF MboxTyped
  <2>5. Trades({k}, {k})
    BY <2>4 DEF TradesOne
  <2>6. k \in {"SERNUM", "CYCL", "AL_READ_CNF", "AL_WRITE_CNF"}
    BY <2>1, <2>3
  <2>7. DlSound' /\ Woken' /\ Asking' /\ Moded'
    BY <1>2, <1>4, <1>5, <2>5, <2>6, QuietKeeps DEF Asked, Upsets
  <2>8. Configuring'
    BY <1>3, <1>4, <1>5, <2>5, <2>6, LoudKeeps DEF PortInv
  <2>9. Followed'
    BY <1>2, <1>4, <2>5, <2>6, GuideKeeps DEF PortInv, Guide
  <2>10. Serving'
    <3>1. /\ Waiting("SERNUM")' => Waiting("SERNUM") \/ k = "SERNUM"
          /\ Waiting("CYCL")' => Waiting("CYCL") \/ k = "CYCL"
      BY <2>5 DEF Waiting, Trades
    <3>2. /\ k = "SERNUM" => svc.index = "SERNUM" /\ ~Waiting("SERNUM")
          /\ k = "CYCL" => svc.index = "CYCL" /\ ~Waiting("CYCL")
      BY <1>7, <2>1, <2>3 DEF PortInv, Serving
    <3>3. Single({"SERNUM"}, mbox')
      BY <2>4, <2>5, <3>2 DEF PortInv, Serving, Trades, TradesOne, Waiting
    <3>4. Single({"CYCL"}, mbox')
      BY <2>4, <2>5, <3>2 DEF PortInv, Serving, Trades, TradesOne, Waiting
    <3> QED BY <1>4, <1>7, <3>1, <3>2, <3>3, <3>4 DEF PortInv, Serving
  <2> QED BY <2>7, <2>8, <2>9, <2>10 DEF PortInv
<1> QED BY <1>6, <1>7 DEF AlConfirm

-----------------------------------------------------------------------------
(* The data storage. *)

(* What the data storage posts. *)
DsKinds   == {"AL_READ_REQ", "AL_WRITE_REQ", "DS_READY", "DS_FAULT"}
DsIndexes == Params \cup {"SIZE", "STATE", "CHECKSUM", "LIST", "CMD"}
DsPosts   == {s \in Seq(PortJob) : \A i \in DOMAIN s : Kind(s[i]) \in DsKinds}
DsTook    == \E s \in DsPosts : TakeAndPost(s)

LEMMA DsPostFacts ==
    /\ <<>> \in DsPosts
    /\ \A index \in DsIndexes \ {"CMD"} : <<ReadReq(index)>> \in DsPosts
    /\ \A index \in DsIndexes, pos \in 0 .. N :
          <<WriteReq(index, pos)>> \in DsPosts /\ <<WriteReq(index, pos), WriteReq(index, pos)>> \in DsPosts
    /\ <<Signal("DS_READY")>> \in DsPosts /\ <<Signal("DS_FAULT")>> \in DsPosts
<1>1. /\ DsIndexes \ {"CMD"} \subseteq Indexes /\ DsIndexes \subseteq Indexes \cup {"CMD"}
      /\ DsIndexes \cap {"SERNUM", "CYCL"} = {}
  BY PortJobsAssumption DEF DsIndexes, Indexes
<1>2. <<>> \in DsPosts
  BY EmptyPost DEF DsPosts
<1>3. ASSUME NEW index \in DsIndexes \ {"CMD"} PROVE <<ReadReq(index)>> \in DsPosts
  <2>1. ReadReq(index) \in PortJob /\ Kind(ReadReq(index)) = "AL_READ_REQ"
    BY <1>1, ReadIsJob, RequestKind
  <2> QED BY <2>1 DEF DsPosts, DsKinds
<1>4. ASSUME NEW index \in DsIndexes, NEW pos \in 0 .. N
      PROVE  <<WriteReq(index, pos)>> \in DsPosts /\ <<WriteReq(index, pos), WriteReq(index, pos)>> \in DsPosts
  <2> DEFINE req == WriteReq(index, pos)
  <2>1. req \in PortJob /\ Kind(req) = "AL_WRITE_REQ"
    BY <1>1, WriteIsJob, RequestKind
  <2> HIDE DEF req
  <2>2. <<req>> \in DsPosts /\ <<req, req>> \in DsPosts
    BY <2>1 DEF DsPosts, DsKinds
  <2> QED BY <2>2 DEF req
<1>5. ASSUME NEW type \in {"DS_READY", "DS_FAULT"} PROVE <<Signal(type)>> \in DsPosts
  <2>1. Signal(type) \in PortJob /\ Kind(Signal(type)) = type
    BY SignalJob, SignalKind DEF JobTypes
  <2> QED BY <2>1 DEF DsPosts, DsKinds
<1> QED BY <1>2, <1>3, <1>4, <1>5

LEMMA DsSteps ==
    /\ Ignore => DsTook
    /\ \A state, index : index \in DsIndexes \ {"CMD"} /\ ReadIn(state, index) => DsTook
    /\ \A state, command : WriteIn(state, command) => DsTook
    /\ ReportFault => DsTook
    /\ ReportReady => DsTook
    /\ \A state : Enter(state, <<>>) => DsTook
    /\ \A state : Enter(state, <<WriteReq("CMD", 0)>>) => DsTook
    /\ \A state : Enter(state, <<WriteReq("CMD", 0), WriteReq("CMD", 0)>>) => DsTook
    /\ \A state, index, pos : index \in DsIndexes /\ pos \in 0 .. N
          /\ Enter(state, <<WriteReq(index, pos)>>) => DsTook
<1>1. 0 \in 0 .. N /\ "CMD" \in DsIndexes
  BY ListFacts DEF DsIndexes
<1>2. \A state, s : s \in DsPosts /\ Enter(state, s) => DsTook
  BY DEF Enter, DsTook
<1>3. Ignore => DsTook
  BY DsPostFacts DEF Ignore, DsTook
<1>4. ReportFault \/ ReportReady => DsTook
  BY <1>2, DsPostFacts DEF ReportFault, ReportReady
<1>5. \A state, index : index \in DsIndexes \ {"CMD"} /\ ReadIn(state, index) => DsTook
  BY <1>2, DsPostFacts DEF ReadIn
<1>6. \A state, command : WriteIn(state, command) => DsTook
  BY <1>1, <1>2, DsPostFacts DEF WriteIn
<1> QED BY <1>1, <1>2, <1>3, <1>4, <1>5, <1>6, DsPostFacts

LEMMA DsPosted ==
  ASSUME TypeInv, DsStartupCb \/ DsUploadCb \/ DsReadCnf \/ DsWriteCnf
  PROVE  DsTook
<1>1. /\ {"SIZE", "STATE", "CHECKSUM", "LIST"} \subseteq DsIndexes \ {"CMD"}
      /\ \A i \in 1 .. N : IndexList[i] \in DsIndexes \ {"CMD"}
  BY ListFacts, PortJobsAssumption DEF DsIndexes
<1>2. CASE DsStartupCb \/ DsUploadCb
  <2>1. CheckId => DsTook
    BY <1>1, DsSteps DEF CheckId
  <2> QED BY <1>2, <2>1, DsSteps, DsPostFacts DEF DsStartupCb, DsUploadCb, Enter, DsTook
<1>3. ComErr => DsTook
  BY DsSteps DEF ComErr, BreakOff
<1>4. CASE DsReadCnf
  <2>1. SizeRead => DsTook
    BY <1>1, DsSteps DEF SizeRead
  <2>2. StateRead => DsTook
    BY <1>1, DsSteps DEF StateRead
  <2>3. ChecksumRead => DsTook
    BY DsSteps DEF ChecksumRead
  <2>4. ParameterRead => DsTook
    <3>1. ds.il < N => ds.il + 1 \in 1 .. N
      BY DsFacts, ListFacts
    <3> QED BY <1>1, <3>1, DsSteps DEF ParameterRead, BreakOff
  <2>5. StoreRead => DsTook
    BY DsSteps DEF StoreRead
  <2>6. DownloadRead => DsTook
    BY DsSteps DEF DownloadRead
  <2> QED BY <1>3, <1>4, <2>1, <2>2, <2>3, <2>4, <2>5, <2>6, DsSteps DEF DsReadCnf
<1>5. CASE DsWriteCnf
  <2>1. ASSUME NEW pos \in 0 .. N, WriteNext(pos) PROVE DsTook
    <3>1. pos < master.size => pos + 1 \in 1 .. N /\ pos + 1 \in 0 .. N
      BY DsFacts, ListFacts
    <3> QED BY <1>1, <2>1, <3>1, DsSteps DEF WriteNext
  <2>2. 0 \in 0 .. N /\ master.pos \in 0 .. N
    BY DsFacts, ListFacts
  <2>3. UploadStarted \/ UploadEnded \/ DownloadEnded \/ BrokenOff => DsTook
    BY <1>1, DsSteps DEF UploadStarted, UploadEnded, DownloadEnded, BrokenOff
  <2>4. DownloadStarted \/ ParameterWritten => DsTook
    BY <2>1, <2>2 DEF DownloadStarted, ParameterWritten
  <2> QED BY <1>3, <1>5, <2>3, <2>4, DsSteps DEF DsWriteCnf
<1> QED BY <1>2, <1>4, <1>5

LEMMA DsInv ==
  ASSUME TypeInv, PortInv, DsStep PROVE PortInv'
<1>1. MboxTyped /\ mbox # <<>>
  BY SmFacts DEF DsStep, DsJob, DsInitCb, DsDeleteCb, DsStartupCb, DsUploadCb, DsReadCnf, DsWriteCnf, Take
<1>2. UNCHANGED <<cm, cmCfg, sm, smCfg, smReal, smAux, dl, linked, svc>>
  BY DEF DsStep, cmVars, smVars, dlVars
<1>3. SameModes
  BY <1>2 DEF SameModes
<1>4. PICK may, must :
        /\ Trades(may, must) /\ may \subseteq DsKinds
        /\ Kind(Head(mbox)) \in {"DS_INIT", "DS_DELETE", "DS_STARTUP", "DS_UPLOAD", "AL_READ_CNF", "AL_WRITE_CNF"}
        /\ Kind(Head(mbox)) \in {"DS_INIT", "DS_DELETE"} => may = {}
  <2>1. CASE DsInitCb \/ DsDeleteCb
    <3>1. TakeAndPost(<<>>)
      BY <2>1 DEF DsInitCb, DsDeleteCb, Enter
    <3>2. Kind(Head(mbox)) \in {"DS_INIT", "DS_DELETE"}
      BY <2>1, HeadKind DEF DsInitCb, DsDeleteCb, Take, Plain, JobTypes
    <3> QED BY <1>1, <3>1, <3>2, TradedNone DEF MboxTyped
  <2>2. CASE DsStartupCb \/ DsUploadCb \/ DsReadCnf \/ DsWriteCnf
    <3>1. Kind(Head(mbox)) \in {"DS_STARTUP", "DS_UPLOAD", "AL_READ_CNF", "AL_WRITE_CNF"}
      BY <2>2, HeadKind DEF DsStartupCb, DsUploadCb, DsReadCnf, DsWriteCnf, Take, Plain, JobTypes
    <3>2. PICK s \in DsPosts : TakeAndPost(s)
      BY <2>2, DsPosted DEF DsTook
    <3>3. s \in Seq(PortJob) /\ (\A i \in DOMAIN s : Kind(s[i]) \in DsKinds)
          /\ (\A k \in {} : \E i \in DOMAIN s : Kind(s[i]) = k)
      BY DEF DsPosts
    <3>4. Trades(DsKinds, {})
      BY <1>1, <3>2, <3>3, Traded DEF MboxTyped
    <3> QED BY <3>1, <3>4
  <2> QED BY <2>1, <2>2 DEF DsStep, DsJob
<1>5. DlSound' /\ Woken' /\ Asking' /\ Moded'
  BY <1>2, <1>3, <1>4, QuietKeeps DEF Asked, Upsets, DsKinds
<1>6. Followed'
  BY <1>2, <1>4, GuideKeeps DEF PortInv, Guide, DsKinds
<1>7. Serving'
  BY <1>2, <1>4, ServedKeeps DEF PortInv, DsKinds
<1>8. Configuring'
  <2>1. CASE Kind(Head(mbox)) \in {"DS_INIT", "DS_DELETE"}
    <3>1. Trades({}, must)
      BY <1>4, <2>1
    <3>2. Waiting("SMI_CFG")' \/ Waiting("SM_CFG")' => Waiting("SMI_CFG") \/ Waiting("SM_CFG")
      BY <3>1 DEF Waiting, Trades
    <3>3. Single({"SMI_CFG", "SM_CFG"}, mbox')
      BY <3>1 DEF PortInv, Configuring, Trades
    <3>4. Still => Still'
      BY <1>2, <3>1 DEF Still, Engaged, Trades
    <3> QED BY <1>2, <3>2, <3>3, <3>4 DEF PortInv, Configuring
  <2>2. CASE Kind(Head(mbox)) \notin {"DS_INIT", "DS_DELETE"}
    <3>1. Kind(Head(mbox)) \in Loud
      BY <1>4, <2>2 DEF Loud, Calm, JobTypes
    <3> QED BY <1>2, <1>3, <1>4, <3>1, LoudKeeps DEF PortInv, DsKinds
  <2> QED BY <2>1, <2>2
<1> QED BY <1>5, <1>6, <1>7, <1>8 DEF PortInv

-----------------------------------------------------------------------------
(* The configuration manager. *)

(* What is taken while the port is configured. *)
LEMMA LoudHead ==
  ASSUME TypeInv, PortInv, mbox # <<>>, Kind(Head(mbox)) \in Loud
  PROVE  ~Waiting("SMI_CFG") /\ ~Waiting("SM_CFG")
<1>1. Among(Loud, mbox)
  BY SmFacts, AmongTail DEF MboxTyped
<1> QED BY <1>1 DEF PortInv, Configuring, Still

(* A configuration is passed on to the SM. *)
LEMMA ConfiguredKeeps ==
  ASSUME TypeInv, PortInv, mbox # <<>>, Kind(Head(mbox)) = "SMI_CFG",
         UNCHANGED <<sm, smCfg, smReal, smAux, dl, linked, svc>>,
         NEW t \in Seq(PortJob), \A i \in DOMAIN t : Kind(t[i]) \in {"DS_DELETE", "DS_INIT"},
         NEW c \in Cfg, TakeAndPost(t \o <<CfgJob("SM_CFG", c)>>),
         cm' \in {"SM_Startup", "Port_DIDO", "Port_Deactivated"},
         cm' = "SM_Startup" => cmCfg' = c
  PROVE  PortInv'
<1> DEFINE last == CfgJob("SM_CFG", c)
           u    == <<last>>
           s    == t \o u
           rest == Tail(mbox)
           K    == {"SMI_CFG", "SM_CFG"}
<1>1. MboxTyped
  BY SmFacts
<1>2. last \in PortJob /\ Kind(last) = "SM_CFG" /\ last.cfg = c
  BY CfgIsJob, CfgKind DEF JobTypes
<1> HIDE DEF last
<1>3. u \in Seq(PortJob) /\ DOMAIN u = 1 .. 1 /\ u[1] = last
  BY <1>2
<1>4. TakeAndPost(s)
  BY DEF last
<1>5. rest \in Seq(PortJob) /\ mbox' = rest \o s
  BY <1>1, <1>4, TailFacts DEF MboxTyped, TakeAndPost
<1> HIDE DEF u
<1>6. /\ s \in Seq(PortJob)
      /\ \A i \in DOMAIN s : Kind(s[i]) \in {"DS_DELETE", "DS_INIT", "SM_CFG"}
      /\ \E i \in DOMAIN s : Kind(s[i]) = "SM_CFG"
      /\ Single(K, s) /\ Told(c, s)
  <2>1. s \in Seq(PortJob) /\ \A i \in DOMAIN s : Kind(s[i]) \in {"DS_DELETE", "DS_INIT", "SM_CFG"}
    BY <1>2, <1>3, Joined
  <2>2. 1 + Len(t) \in DOMAIN s /\ s[1 + Len(t)] = u[1]
    BY <1>3, Joined
  <2>3. Single(K, s)
    <3>1. ~Among(K, t) /\ Single(K, u)
      BY <1>3 DEF Among, Single
    <3> QED BY <1>3, <3>1, SingleJoined
  <2>4. ASSUME NEW i \in DOMAIN s, Kind(s[i]) = "SM_CFG" PROVE s[i].cfg = c
    <3>1. IF i <= Len(t) THEN i \in DOMAIN t /\ s[i] = t[i]
                         ELSE i - Len(t) \in DOMAIN u /\ s[i] = u[i - Len(t)]
      BY <1>3, Joined
    <3>2. ~(i <= Len(t))
      BY <2>4, <3>1
    <3> HIDE DEF s
    <3>3. i - Len(t) = 1
      BY <1>3, <3>1, <3>2
    <3> QED BY <1>2, <1>3, <3>1, <3>2, <3>3
  <2>5. Told(c, s)
    BY <2>4 DEF Told
  <2> QED BY <1>2, <1>3, <2>1, <2>2, <2>3, <2>5
<1>7. Trades({"DS_DELETE", "DS_INIT", "SM_CFG"}, {"SM_CFG"})
  <2> HIDE DEF s
  <2>1. \A k \in {"SM_CFG"} : \E i \in DOMAIN s : Kind(s[i]) = k
    BY <1>6
  <2> QED BY <1>1, <1>4, <1>6, <2>1, Traded DEF MboxTyped
<1>8. Waiting("SMI_CFG")
  BY <1>1, AmongTail DEF Waiting, MboxTyped
<1>9. ~Among(K, rest)
  BY <1>1, SingleTail DEF PortInv, Configuring, MboxTyped
<1> HIDE DEF s, rest
<1>10. Single(K, mbox')
  BY <1>5, <1>6, <1>9, SingleJoined
<1>11. Told(c, mbox')
  <2>1. ASSUME NEW i \in DOMAIN (rest \o s), Kind((rest \o s)[i]) = "SM_CFG"
        PROVE  (rest \o s)[i].cfg = c
    <3>1. i - Len(rest) \in DOMAIN s /\ (rest \o s)[i] = s[i - Len(rest)]
      BY <1>5, <1>6, <1>9, <2>1, Joined DEF Among
    <3> QED BY <1>6, <2>1, <3>1 DEF Told
  <2> QED BY <1>5, <2>1 DEF Told
<1>12. SameModes
  BY DEF SameModes
<1>13. DlSound' /\ Woken' /\ Asking' /\ Moded'
  BY <1>7, <1>12, QuietKeeps DEF Asked, Upsets
<1>14. Serving'
  BY <1>7, ServedKeeps DEF PortInv
<1>15. Configuring'
  <2>1. ~Among(Loud, mbox')
    <3>1. {"DS_DELETE", "DS_INIT", "SM_CFG"} \cap Loud = {}
      BY DEF Loud, Calm
    <3> QED BY <1>7, <1>8, <3>1 DEF PortInv, Configuring, Still, Trades
  <2>2. Still'
    BY <1>8, <2>1 DEF PortInv, Configuring, Still, Engaged
  <2> QED BY <1>8, <1>10, <2>2 DEF PortInv, Configuring
<1>16. Followed'
  <2>1. Waiting("SM_CFG")'
    BY <1>7 DEF Waiting, Trades
  <2> QED BY <1>11, <2>1 DEF PortInv, Followed
<1> QED BY <1>13, <1>14, <1>15, <1>16 DEF PortInv

(* cm_smi_portconfiguration, in every state. *)
LEMMA CfgChangeInv ==
  ASSUME TypeInv, PortInv, NEW keep, CmCfgChange(keep),
         UNCHANGED <<sm, smCfg, smReal, smAux, dl, linked, svc>>
  PROVE  PortInv'
<1> DEFINE cfg == Head(mbox).cfg
           del == Signal("DS_DELETE")
           ini == CfgJob("DS_INIT", cfg)
<1>1. MboxTyped /\ mbox # <<>> /\ Head(mbox).type = "SMI_CFG"
  BY SmFacts DEF CmCfgChange, Take
<1>2. cfg \in Cfg /\ cmCfg \in Cfg
  BY <1>1, HeadFacts DEF TypeInv, CmTyped
<1>3. Kind(Head(mbox)) = "SMI_CFG"
  BY <1>1, HeadKind DEF Plain, JobTypes
<1>4. del \in PortJob /\ Kind(del) = "DS_DELETE" /\ ini \in PortJob /\ Kind(ini) = "DS_INIT"
  BY <1>2, SignalJob, SignalKind, CfgIsJob, CfgKind DEF JobTypes
<1>5. NoCfg \in Cfg /\ [NoCfg EXCEPT !.mode = cmCfg.mode] \in Cfg
  BY <1>2, WildFacts DEF Cfg
<1>6. StartPort(cfg, keep) \/ StartDiDo(cfg) \/ Deactivate(cfg) \/ RefuseCfg(cfg)
  BY DEF CmCfgChange
<1> HIDE DEF cfg
<1>7. CASE StartPort(cfg, keep)
  <2> DEFINE t == (IF cfg.mode = "IOL_MAN" /\ keep THEN <<>> ELSE <<del>>) \o <<ini>>
  <2>1. /\ TakeAndPost((IF cfg.mode = "IOL_MAN" /\ keep THEN <<>> ELSE <<del>>)
                       \o <<ini, CfgJob("SM_CFG", cfg)>>)
        /\ cm' = "SM_Startup" /\ cmCfg' = cfg
    BY <1>7 DEF StartPort, CmEnter
  <2> HIDE DEF del, ini
  <2>2. t \in Seq(PortJob) /\ \A i \in DOMAIN t : Kind(t[i]) \in {"DS_DELETE", "DS_INIT"}
    BY <1>4
  <2>3. CfgJob("SM_CFG", cfg) \in PortJob
    BY <1>2, CfgIsJob DEF JobTypes
  <2>4. (IF cfg.mode = "IOL_MAN" /\ keep THEN <<>> ELSE <<del>>) \o <<ini, CfgJob("SM_CFG", cfg)>>
        = t \o <<CfgJob("SM_CFG", cfg)>>
    BY <1>4, <2>3
  <2> HIDE DEF t
  <2> QED BY <1>1, <1>2, <1>3, <2>1, <2>2, <2>4, ConfiguredKeeps
<1>8. CASE StartDiDo(cfg)
  <2> DEFINE t == <<del, ini>>
  <2>1. TakeAndPost(<<del, ini, CfgJob("SM_CFG", cfg)>>) /\ cm' = "Port_DIDO"
    BY <1>8 DEF StartDiDo, CmEnter
  <2> HIDE DEF del, ini
  <2>2. t \in Seq(PortJob) /\ \A i \in DOMAIN t : Kind(t[i]) \in {"DS_DELETE", "DS_INIT"}
    BY <1>4
  <2>3. CfgJob("SM_CFG", cfg) \in PortJob
    BY <1>2, CfgIsJob DEF JobTypes
  <2>4. <<del, ini, CfgJob("SM_CFG", cfg)>> = t \o <<CfgJob("SM_CFG", cfg)>>
    BY <1>4, <2>3
  <2> HIDE DEF t
  <2> QED BY <1>1, <1>2, <1>3, <2>1, <2>2, <2>4, ConfiguredKeeps
<1>9. CASE Deactivate(cfg)
  <2> DEFINE t == <<>>
  <2>1. TakeAndPost(<<CfgJob("SM_CFG", NoCfg)>>) /\ cm' = "Port_Deactivated"
    BY <1>9 DEF Deactivate, CmEnter
  <2>2. t \in Seq(PortJob) /\ \A i \in DOMAIN t : Kind(t[i]) \in {"DS_DELETE", "DS_INIT"}
    BY EmptyPost
  <2>3. CfgJob("SM_CFG", NoCfg) \in PortJob
    BY <1>5, CfgIsJob DEF JobTypes
  <2>4. <<CfgJob("SM_CFG", NoCfg)>> = t \o <<CfgJob("SM_CFG", NoCfg)>>
    BY <2>3
  <2> HIDE DEF t
  <2> QED BY <1>1, <1>3, <1>5, <2>1, <2>2, <2>4, ConfiguredKeeps
<1>10. CASE RefuseCfg(cfg)
  <2> DEFINE t == <<del>>
             refused == [NoCfg EXCEPT !.mode = cmCfg.mode]
  <2>1. TakeAndPost(<<del, CfgJob("SM_CFG", refused)>>) /\ cm' = "Port_Deactivated"
    BY <1>10 DEF RefuseCfg, CmEnter
  <2> HIDE DEF del, refused
  <2>2. t \in Seq(PortJob) /\ \A i \in DOMAIN t : Kind(t[i]) \in {"DS_DELETE", "DS_INIT"}
    BY <1>4
  <2>3. refused \in Cfg /\ CfgJob("SM_CFG", refused) \in PortJob
    BY <1>5, CfgIsJob DEF JobTypes, refused
  <2>4. <<del, CfgJob("SM_CFG", refused)>> = t \o <<CfgJob("SM_CFG", refused)>>
    BY <1>4, <2>3
  <2> HIDE DEF t
  <2> QED BY <1>1, <1>3, <2>1, <2>2, <2>3, <2>4, ConfiguredKeeps
<1> QED BY <1>6, <1>7, <1>8, <1>9, <1>10

(* What the CM does not touch. *)
LEMMA CmQuiet ==
  ASSUME PortInv, UNCHANGED <<sm, smCfg, smReal, smAux, dl, linked, svc>>, NEW may, NEW must,
         Trades(may, must), may \subseteq {"DS_STARTUP", "SM_OPERATE"},
         \/ Kind(Head(mbox)) \in {"COMREADY", "FAULT", "OPERATE", "DS_READY", "DS_FAULT"}
         \/ Kind(Head(mbox)) \in {"SMI_CFG", "COMLOST"} /\ may = {},
         Followed'
  PROVE  PortInv'
<1>1. SameModes
  BY DEF SameModes
<1>2. DlSound' /\ Woken' /\ Asking' /\ Moded'
  BY <1>1, QuietKeeps DEF Asked, Upsets
<1>3. Serving'
  BY ServedKeeps DEF PortInv
<1>4. Configuring'
  <2>1. CASE Kind(Head(mbox)) \in {"SMI_CFG", "COMLOST"} /\ may = {}
    <3>1. Waiting("SMI_CFG")' \/ Waiting("SM_CFG")' => Waiting("SMI_CFG") \/ Waiting("SM_CFG")
      BY <2>1 DEF Waiting, Trades
    <3>2. Single({"SMI_CFG", "SM_CFG"}, mbox')
      BY <2>1 DEF PortInv, Configuring, Trades
    <3>3. Still => Still'
      BY <2>1 DEF Still, Engaged, Trades
    <3> QED BY <3>1, <3>2, <3>3 DEF PortInv, Configuring
  <2>2. CASE Kind(Head(mbox)) \in {"COMREADY", "FAULT", "OPERATE", "DS_READY", "DS_FAULT"}
    <3>1. Kind(Head(mbox)) \in Loud
      BY <2>2 DEF Loud, Calm, JobTypes
    <3> QED BY <1>1, <3>1, LoudKeeps DEF PortInv
  <2> QED BY <2>1, <2>2
<1> QED BY <1>2, <1>3, <1>4 DEF PortInv

(* The jobs of the CM. *)
LEMMA CmInv ==
  ASSUME TypeInv, PortInv, CmStep PROVE PortInv'
<1> DEFINE id == smReal.id
           keep == mbox # <<>> /\ DS_Chk_Cfg(Head(mbox).cfg)
<1>1. CmJob(id, keep) /\ UNCHANGED <<sm, smCfg, smReal, smAux, dl, linked, svc>>
  BY DEF CmStep, smVars, dlVars
<1> HIDE DEF id, keep
<1>2. MboxTyped
  BY SmFacts
<1>3. ASSUME mbox # <<>>, Kind(Head(mbox)) \in {"COMREADY", "FAULT", "OPERATE", "DS_READY", "DS_FAULT"}
      PROVE  ~Waiting("SMI_CFG") /\ ~Waiting("SM_CFG")
  BY <1>3, LoudHead DEF Loud, Calm, JobTypes
<1>4. CASE CmCfgIgnored
  <2>1. TakeAndPost(<<>>) /\ UNCHANGED <<cm, cmCfg>> /\ mbox # <<>> /\ Head(mbox).type = "SMI_CFG"
    BY <1>4 DEF CmCfgIgnored, cmVars, Take
  <2>2. Kind(Head(mbox)) = "SMI_CFG"
    BY <2>1, HeadKind DEF Plain, JobTypes
  <2>3. Trades({}, {})
    BY <1>2, <2>1, TradedNone DEF MboxTyped
  <2>4. Followed'
    BY <1>1, <2>1, <2>2, <2>3, GuideKeeps DEF PortInv, Guide
  <2> QED BY <1>1, <2>2, <2>3, <2>4, CmQuiet
<1>5. CASE CmCfgChange(keep)
  BY <1>1, <1>5, CfgChangeInv
<1>6. CASE CmComready(id)
  <2>1. mbox # <<>> /\ Head(mbox).type = "COMREADY" /\ cmCfg' = cmCfg
    BY <1>6 DEF CmComready, Take
  <2>2. Kind(Head(mbox)) = "COMREADY"
    BY <2>1, HeadKind DEF Plain, JobTypes
  <2>3. CASE cm = "SM_Startup"
    <3>1. TakeAndPost(<<Signal("DS_STARTUP")>>) /\ cm' = "DS_ParamManager"
      BY <1>6, <2>3 DEF CmComready, CmEnter
    <3>2. Signal("DS_STARTUP") \in PortJob /\ Kind(Signal("DS_STARTUP")) = "DS_STARTUP"
      BY SignalJob, SignalKind DEF JobTypes
    <3>3. Trades({"DS_STARTUP"}, {"DS_STARTUP"})
      BY <1>2, <2>1, <3>1, <3>2, TradedOne DEF MboxTyped, TradesOne
    <3>4. /\ Waiting("SM_CFG")' => Waiting("SM_CFG")
          /\ Waiting("SM_OPERATE")' => Waiting("SM_OPERATE")
          /\ Waiting("OPERATE")' => Waiting("OPERATE")
      BY <3>3 DEF Waiting, Trades
    <3>5. Followed'
      BY <1>1, <1>3, <2>1, <2>2, <2>3, <3>1, <3>4 DEF PortInv, Followed, Started
    <3> QED BY <1>1, <2>2, <3>3, <3>5, CmQuiet
  <2>4. CASE cm # "SM_Startup"
    <3>1. TakeAndPost(<<>>) /\ cm' = cm
      BY <1>6, <2>4 DEF CmComready
    <3>2. Trades({}, {})
      BY <1>2, <2>1, <3>1, TradedNone DEF MboxTyped
    <3>3. Followed'
      BY <1>1, <2>1, <2>2, <3>1, <3>2, GuideKeeps DEF PortInv, Guide
    <3> QED BY <1>1, <2>2, <3>2, <3>3, CmQuiet
  <2> QED BY <2>3, <2>4
<1>7. ASSUME mbox # <<>>, TakeAndPost(<<>>), cmCfg' = cmCfg,
             Kind(Head(mbox)) \in {"FAULT", "OPERATE", "DS_READY", "DS_FAULT", "COMLOST"},
             \/ cm' = cm /\ Kind(Head(mbox)) # "COMLOST"
             \/ cm' = "PortFault"
             \/ cm = "WaitingOnOperate" /\ cm' = "Port_Active" /\ Kind(Head(mbox)) = "OPERATE"
             \/ cm' = "CheckPortMode"
             \/ cm' = cm /\ cm \notin {"SM_Startup", "PortFault", "WaitingOnOperate", "Port_Active"}
      PROVE  PortInv'
  <2>1. Trades({}, {})
    BY <1>2, <1>7, TradedNone DEF MboxTyped
  <2>2. /\ Waiting("SM_CFG")' <=> Waiting("SM_CFG")
        /\ Waiting("SM_OPERATE")' => Waiting("SM_OPERATE")
        /\ Waiting("OPERATE")' => Waiting("OPERATE")
        /\ Kind(Head(mbox)) # "COMLOST" => (Waiting("COMLOST") => Waiting("COMLOST")')
        /\ Kind(Head(mbox)) = "OPERATE" => Waiting("OPERATE")
        /\ Told(cmCfg, mbox) => Told(cmCfg, mbox')
    BY <1>7, <2>1 DEF Waiting, Trades
  <2>3. Followed'
    BY <1>1, <1>7, <2>2 DEF PortInv, Followed, Started
  <2> QED BY <1>1, <1>7, <2>1, <2>3, CmQuiet
<1>8. CASE CmSmFault(id)
  <2>1. mbox # <<>> /\ Head(mbox).type = "FAULT" /\ TakeAndPost(<<>>) /\ cmCfg' = cmCfg
        /\ cm' \in {"PortFault", cm}
    BY <1>8 DEF CmSmFault, Take, CmEnter
  <2>2. Kind(Head(mbox)) = "FAULT"
    BY <2>1, HeadKind DEF Plain, JobTypes
  <2> QED BY <1>7, <2>1, <2>2
<1>9. CASE CmOperate(id)
  <2>1. mbox # <<>> /\ Head(mbox).type = "OPERATE" /\ TakeAndPost(<<>>) /\ cmCfg' = cmCfg
        /\ (cm' = cm \/ (cm = "WaitingOnOperate" /\ cm' = "Port_Active"))
    BY <1>9 DEF CmOperate, Take, CmEnter
  <2>2. Kind(Head(mbox)) = "OPERATE"
    BY <2>1, HeadKind DEF Plain, JobTypes
  <2> QED BY <1>7, <2>1, <2>2
<1>10. CASE CmComlost
  <2>1. mbox # <<>> /\ Head(mbox).type = "COMLOST" /\ TakeAndPost(<<>>) /\ cmCfg' = cmCfg
        /\ cm' = IF cm \in {"SM_Startup", "PortFault", "WaitingOnOperate", "Port_Active"}
                 THEN "CheckPortMode" ELSE cm
    BY <1>10 DEF CmComlost, Take, CmEnter
  <2>2. Kind(Head(mbox)) = "COMLOST"
    BY <2>1, HeadKind DEF Plain, JobTypes
  <2> QED BY <1>7, <2>1, <2>2
<1>11. CASE CmDsReady
  <2>1. mbox # <<>> /\ Head(mbox).type = "DS_READY" /\ cmCfg' = cmCfg
    BY <1>11 DEF CmDsReady, Take
  <2>2. Kind(Head(mbox)) = "DS_READY"
    BY <2>1, HeadKind DEF Plain, JobTypes
  <2>3. CASE cm = "DS_ParamManager"
    <3>1. TakeAndPost(<<Signal("SM_OPERATE")>>) /\ cm' = "WaitingOnOperate"
      BY <1>11, <2>3 DEF CmDsReady, CmEnter
    <3>2. Signal("SM_OPERATE") \in PortJob /\ Kind(Signal("SM_OPERATE")) = "SM_OPERATE"
      BY SignalJob, SignalKind DEF JobTypes
    <3>3. Trades({"SM_OPERATE"}, {"SM_OPERATE"})
      BY <1>2, <2>1, <3>1, <3>2, TradedOne DEF MboxTyped, TradesOne
    <3>4. /\ Waiting("SM_CFG")' => Waiting("SM_CFG")
          /\ Waiting("OPERATE")' => Waiting("OPERATE")
      BY <3>3 DEF Waiting, Trades
    <3>5. Followed'
      BY <1>1, <1>3, <2>1, <2>2, <2>3, <3>1, <3>4 DEF PortInv, Followed, Started
    <3> QED BY <1>1, <2>2, <3>3, <3>5, CmQuiet
  <2>4. CASE cm # "DS_ParamManager"
    <3>1. TakeAndPost(<<>>) /\ cm' = cm
      BY <1>11, <2>4 DEF CmDsReady
    <3> QED BY <1>7, <2>1, <2>2, <3>1
  <2> QED BY <2>3, <2>4
<1>12. CASE CmDsFault(id)
  <2>1. mbox # <<>> /\ Head(mbox).type = "DS_FAULT" /\ TakeAndPost(<<>>) /\ cmCfg' = cmCfg
        /\ cm' \in {"PortFault", cm}
    BY <1>12 DEF CmDsFault, Take, CmEnter
  <2>2. Kind(Head(mbox)) = "DS_FAULT"
    BY <2>1, HeadKind DEF Plain, JobTypes
  <2> QED BY <1>7, <2>1, <2>2
<1> QED BY <1>1, <1>4, <1>5, <1>6, <1>8, <1>9, <1>10, <1>11, <1>12 DEF CmJob

-----------------------------------------------------------------------------
(* The system management. *)

(* The states on the last part of the way to OPERATE. *)
Late == {"write_master_cycl", "wait_devmode_cnf", "SMOperate"}

(* Nothing of the start of the DL is left when the SM is under way. *)
LEMMA UnderWay ==
  ASSUME PortInv, sm # "PortInactive"
  PROVE  /\ dl.mdh # "ESTCOM" /\ ~Waiting("MODE_STARTUP")
         /\ ~(dl.mdh = "IDLE" /\ dl.mode = "STARTUP" /\ dl.event)
         /\ ~(dl.mode = "STARTUP" /\ dl.mdh \in {"PREOPERATE", "OPERATE"})
         /\ sm \notin SmRest => ~Waiting("SMI_CFG") /\ ~Waiting("SM_CFG")
<1>1. dl.mdh # "ESTCOM" /\ ~Waiting("MODE_STARTUP") /\ ~(dl.mdh = "IDLE" /\ dl.mode = "STARTUP" /\ dl.event)
  BY DEF PortInv, Woken
<1>2. /\ ~(dl.mode = "STARTUP" /\ dl.mdh \in {"PREOPERATE", "OPERATE"})
      /\ sm \notin SmRest => ~Waiting("SMI_CFG") /\ ~Waiting("SM_CFG")
  BY DEF PortInv, Configuring
<1> QED BY <1>1, <1>2

(* No block is under way behind the job that is taken. *)
LEMMA Unasked ==
  ASSUME TypeInv, PortInv, mbox # <<>>, NEW may, NEW must, Trades(may, must), may \cap Asked = {},
         \/ Kind(Head(mbox)) \in Asked
         \/ sm \notin Reading \cup Writing
         \/ Kind(Head(mbox)) \in Upsets /\ sm # "ReadComParameter"
  PROVE  ~BlockOut /\ ~Among(Asked, mbox')
<1>1. \A K : Kind(Head(mbox)) \in K => Among(K, mbox)
  BY DEF Trades
<1>2. ASSUME ~Among(Asked, mbox) PROVE ~Among(Asked, mbox')
  BY <1>2 DEF Trades
<1>3. CASE Kind(Head(mbox)) \in Asked
  <2>1. ~BlockOut
    BY <1>1, <1>3 DEF PortInv, Asking
  <2>2. ~Among(Asked, mbox')
    BY <1>3 DEF PortInv, Asking, Trades
  <2> QED BY <2>1, <2>2
<1>4. ASSUME ~Among(Granted, mbox), sm # "ReadComParameter" PROVE ~Among(Asked, mbox)
  <2>1. ~Among({"NOT_READ"}, mbox) /\ ~Among({"NOT_WRITTEN", "STRAY"}, mbox)
    BY <1>4 DEF PortInv, Asking, Waiting
  <2> QED BY <1>4, <2>1 DEF Among, Asked, Granted
<1>5. CASE sm \notin Reading \cup Writing
  <2>1. ~BlockOut
    BY <1>5 DEF PortInv, Asking, BlockOut
  <2>2. ~Among({"READ", "NOT_READ"}, mbox) /\ ~Among({"WRITTEN"}, mbox)
    BY <1>5 DEF PortInv, Asking
  <2>3. ~Among(Granted, mbox)
    BY <2>2 DEF Among, Granted
  <2> QED BY <1>2, <1>4, <1>5, <2>1, <2>3 DEF Reading
<1>6. CASE Kind(Head(mbox)) \in Upsets /\ sm # "ReadComParameter"
  <2>1. ~Ready
    BY <1>1, <1>6 DEF Ready
  <2>2. ~BlockOut /\ ~Among(Granted, mbox)
    BY <2>1 DEF PortInv, Asking
  <2> QED BY <1>2, <1>4, <1>6, <2>2
<1> QED BY <1>3, <1>5, <1>6

(* The SM has given the DL another mode. *)
LEMMA ModeKeeps ==
  ASSUME TypeInv, PortInv, mbox # <<>>, NEW may, NEW must, Trades(may, must),
         may \cap (Asked \cup {"MODE_STARTUP", "STRAY"}) = {},
         ~Among(Asked, mbox'), ~BlockOut, ~Waiting("MODE_STARTUP"), dl.mdh # "ESTCOM",
         dl'.mdh = dl.mdh, dl'.lost = dl.lost, dl'.mh = dl.mh, dl'.rw = dl.rw, dl'.wurq => dl.wurq,
         dl'.mode \in {"INACTIVE", "PREOPERATE", "OPERATE"}, dl'.event
  PROVE  DlSound' /\ Woken' /\ Asking' /\ Moded'
<1>1. DlSound'
  BY DEF PortInv, DlSound
<1>2. ~Waiting("MODE_STARTUP")'
  BY DEF Waiting, Trades
<1>3. NoneAfter("MODE_STARTUP", Upsets, mbox)'
  BY <1>2, NoneAfterNone DEF Waiting
<1>4. Woken'
  BY <1>2, <1>3 DEF Woken
<1>5. Asking'
  <2>1. \A K : K \subseteq Asked => ~Among(K, mbox')
    BY DEF Among
  <2>2. Single(Asked, mbox')
    BY DEF Single, Among
  <2>3. ~Among({"STRAY"}, mbox')
    <3>1. ~Among({"STRAY"}, mbox)
      BY DEF PortInv, Asking, Among
    <3> QED BY <3>1 DEF Trades
  <2>4. ~Among({"NOT_WRITTEN", "STRAY"}, mbox')
    BY <2>3 DEF Among, Asked
  <2>5. ~BlockOut'
    BY DEF BlockOut
  <2>6. /\ ~Among({"READ", "NOT_READ"}, mbox') /\ ~Among({"WRITTEN"}, mbox')
        /\ ~Among(Granted, mbox') /\ ~Among({"NOT_READ"}, mbox')
    BY <2>1 DEF Asked, Granted
  <2> QED BY <2>2, <2>4, <2>5, <2>6 DEF Asking, BlockOut, Waiting
<1>6. Moded'
  BY DEF Moded, Token, BlockOut
<1> QED BY <1>1, <1>4, <1>5, <1>6

(* The SM has moved on, and left the DL its mode. *)
LEMMA StateKeeps ==
  ASSUME TypeInv, PortInv, mbox # <<>>, NEW may, NEW must, Trades(may, must),
         may \cap (Asked \cup {"MODE_STARTUP", "STRAY"}) = {},
         ~Among(Asked, mbox'), ~BlockOut, SameModes,
         sm # "PortInactive", sm' # "PortInactive",
         sm' \in {"CheckComp", "waitForFallback"} \/ dl.mode # "STARTUP"
  PROVE  DlSound' /\ Woken' /\ Asking' /\ Moded'
<1>1. DlSound'
  BY DEF PortInv, DlSound, SameModes
<1>2. ~Waiting("MODE_STARTUP")'
  BY UnderWay DEF Waiting, Trades
<1>3. NoneAfter("MODE_STARTUP", Upsets, mbox)'
  BY <1>2, NoneAfterNone DEF Waiting
<1>4. Woken'
  BY <1>2, <1>3, UnderWay DEF Woken, SameModes
<1>5. Asking'
  <2>1. \A K : K \subseteq Asked => ~Among(K, mbox')
    BY DEF Among
  <2>2. Single(Asked, mbox')
    BY DEF Single, Among
  <2>3. ~Among({"STRAY"}, mbox')
    <3>1. ~Among({"STRAY"}, mbox)
      BY DEF PortInv, Asking, Among
    <3> QED BY <3>1 DEF Trades
  <2>4. ~Among({"NOT_WRITTEN", "STRAY"}, mbox')
    BY <2>3 DEF Among, Asked
  <2>5. ~BlockOut'
    BY DEF BlockOut, SameModes
  <2>6. /\ ~Among({"READ", "NOT_READ"}, mbox') /\ ~Among({"WRITTEN"}, mbox')
        /\ ~Among(Granted, mbox') /\ ~Among({"NOT_READ"}, mbox')
    BY <2>1 DEF Asked, Granted
  <2> QED BY <2>2, <2>4, <2>5, <2>6 DEF Asking, BlockOut, Waiting
<1>6. Moded'
  BY DEF Moded, Token, BlockOut, SameModes
<1> QED BY <1>1, <1>4, <1>5, <1>6

-----------------------------------------------------------------------------
(* The groups of the invariant, one at a time. *)
LEMMA ServingMoved ==
  ASSUME Serving, UNCHANGED svc, mbox # <<>>, NEW may, NEW must, Trades(may, must),
         may \cap {"SERNUM", "CYCL"} = {},
         sm = "checkSerNum" /\ sm' # sm => Kind(Head(mbox)) = "SERNUM",
         sm = "write_master_cycl" /\ sm' # sm => Kind(Head(mbox)) = "CYCL"
  PROVE  Serving'
<1>1. /\ Waiting("SERNUM")' => Waiting("SERNUM")
      /\ Waiting("CYCL")' => Waiting("CYCL")
      /\ Single({"SERNUM"}, mbox') /\ Single({"CYCL"}, mbox')
      /\ Kind(Head(mbox)) = "SERNUM" => Waiting("SERNUM") /\ ~Waiting("SERNUM")'
      /\ Kind(Head(mbox)) = "CYCL" => Waiting("CYCL") /\ ~Waiting("CYCL")'
  BY DEF Serving, Waiting, Trades
<1> QED BY <1>1 DEF Serving

(* The SM has a service of its own now. *)
LEMMA ServingAsked ==
  ASSUME Serving, UNCHANGED svc, mbox # <<>>, NEW k, TradesOne(k),
         sm \notin {"checkSerNum", "write_master_cycl"},
         (k = "SERNUM" /\ sm' = "checkSerNum") \/ (k = "CYCL" /\ sm' = "write_master_cycl")
  PROVE  Serving'
<1>1. /\ ~Waiting("SERNUM") /\ ~Waiting("CYCL")
      /\ ~(svc # NoSvc /\ svc.index = "SERNUM") /\ ~(svc # NoSvc /\ svc.index = "CYCL")
  BY DEF Serving
<1>2. /\ Waiting("SERNUM")' => k = "SERNUM"
      /\ Waiting("CYCL")' => k = "CYCL"
  BY <1>1 DEF Waiting, TradesOne, Trades
<1>3. Single({"SERNUM"}, mbox') /\ Single({"CYCL"}, mbox')
  BY <1>1 DEF Serving, Waiting, TradesOne
<1> QED BY <1>1, <1>2, <1>3 DEF Serving

LEMMA ConfiguringBusy ==
  ASSUME TypeInv, PortInv, mbox # <<>>, NEW may, NEW must, Trades(may, must),
         may \cap {"SMI_CFG", "SM_CFG"} = {}, dl'.mdh = dl.mdh,
         dl'.mode # "STARTUP" \/ dl'.mode = dl.mode,
         Kind(Head(mbox)) \in Loud \/ sm \notin SmRest
  PROVE  Configuring'
<1>1. ~Waiting("SMI_CFG") /\ ~Waiting("SM_CFG") /\ ~(dl.mode = "STARTUP" /\ dl.mdh \in {"PREOPERATE", "OPERATE"})
  <2>1. CASE Kind(Head(mbox)) \in Loud
    <3>1. ~Still
      BY <2>1 DEF Still, Trades
    <3> QED BY <2>1, <3>1, LoudHead DEF PortInv, Configuring
  <2>2. CASE sm \notin SmRest
    BY <2>2, UnderWay DEF SmRest
  <2> QED BY <2>1, <2>2
<1>2. ~Waiting("SMI_CFG")' /\ ~Waiting("SM_CFG")'
  BY <1>1 DEF Waiting, Trades
<1>3. Single({"SMI_CFG", "SM_CFG"}, mbox')
  BY DEF PortInv, Configuring, Trades
<1> QED BY <1>1, <1>2, <1>3 DEF Configuring

LEMMA ConfiguringCalm ==
  ASSUME TypeInv, PortInv, mbox # <<>>, NEW may, NEW must, Trades(may, must),
         may \cap (Loud \cup {"SMI_CFG", "SM_CFG"}) = {},
         \/ UNCHANGED <<sm, dl>>
         \/ sm' = "PortInactive" /\ dl' = DL_SetMode_req(dl, "INACTIVE")
  PROVE  Configuring'
<1>1. dl \in DlRecord
  BY SmFacts
<1>2. Waiting("SMI_CFG")' \/ Waiting("SM_CFG")' => Waiting("SMI_CFG") \/ Waiting("SM_CFG")
  BY DEF Waiting, Trades
<1>3. Single({"SMI_CFG", "SM_CFG"}, mbox')
  BY DEF PortInv, Configuring, Trades
<1>4. ~Among(Loud, mbox) => ~Among(Loud, mbox')
  BY DEF Trades
<1>5. CASE UNCHANGED <<sm, dl>>
  <2>1. Still => Still'
    BY <1>4, <1>5 DEF Still, Engaged
  <2> QED BY <1>2, <1>3, <1>5, <2>1 DEF PortInv, Configuring
<1>6. CASE sm' = "PortInactive" /\ dl' = DL_SetMode_req(dl, "INACTIVE")
  <2>1. /\ dl'.mdh = dl.mdh /\ dl'.mode = "INACTIVE" /\ dl'.rw = dl.rw /\ dl'.isdu = dl.isdu
        /\ dl'.mh = dl.mh /\ dl'.cmdh = dl.cmdh /\ dl'.odh = dl.odh /\ dl'.code = dl.code /\ dl'.cmd = dl.cmd
        /\ dl'.left = dl.left
    BY <1>1, <1>6, DlShape DEF DL_SetMode_req
  <2>2. Engaged' => Engaged
    BY <2>1 DEF Engaged, Busy, CommandSettled
  <2>3. Still => Still'
    BY <1>4, <2>1, <2>2 DEF Still
  <2> QED BY <1>2, <1>3, <1>6, <2>1, <2>3 DEF PortInv, Configuring, SmRest
<1> QED BY <1>5, <1>6

LEMMA FollowedMoved ==
  ASSUME Followed, UNCHANGED <<smCfg, cm, cmCfg>>, mbox # <<>>, NEW may, NEW must, Trades(may, must),
         may \cap {"SM_CFG", "SM_OPERATE"} = {}, Kind(Head(mbox)) \notin {"SM_CFG", "COMLOST"},
         sm' \in Passed => smCfg.backup = "CHECK_NO" \/ smReal'.id = smCfg.id,
         sm = "SMOperate" /\ sm' # sm => "COMLOST" \in must,
         sm' \in Late => sm \in Late \/ Kind(Head(mbox)) = "SM_OPERATE",
         "OPERATE" \in may => sm' = "SMOperate"
  PROVE  Followed'
<1>1. /\ Waiting("SM_CFG")' <=> Waiting("SM_CFG")
      /\ Waiting("SM_OPERATE")' => Waiting("SM_OPERATE")
      /\ Waiting("OPERATE")' => Waiting("OPERATE") \/ "OPERATE" \in may
      /\ Waiting("COMLOST") \/ "COMLOST" \in must => Waiting("COMLOST")'
      /\ Kind(Head(mbox)) = "SM_OPERATE" => Waiting("SM_OPERATE")
  BY DEF Waiting, Trades
<1>2. Told(cmCfg, mbox) => Told(cmCfg, mbox')
  BY DEF Trades
<1>3. sm = "SMOperate" \/ Waiting("COMLOST") => sm' = "SMOperate" \/ Waiting("COMLOST")'
  BY <1>1
<1>4. cm \in {"SM_Startup", "DS_ParamManager"} /\ ~Waiting("SM_CFG") =>
         sm' \notin Late /\ ~Waiting("OPERATE")' /\ ~Waiting("SM_OPERATE")'
  BY <1>1 DEF Followed, Late
<1> QED BY <1>1, <1>2, <1>3, <1>4 DEF Followed, Late

(* What the SM leaves alone. *)
SmUnchanged == UNCHANGED <<cm, cmCfg, svc, linked>>

(* The next block is asked for, by the message handler that waits for it. *)
LEMMA BlockAsked ==
  ASSUME TypeInv, PortInv, mbox # <<>>, SmUnchanged, UNCHANGED smCfg,
         NEW state \in Reading \cup Writing, NEW rw \in {"read", "write"}, NEW block \in Blocks \ {"WURQ"},
         NEW aux \in Aux, SmBlock(state, rw, block, aux),
         rw = "read" => state \in Reading, rw = "write" => state \in Writing,
         state = "InspectionFault" => aux.error,
         state \in Passed => smCfg.backup = "CHECK_NO" \/ smReal'.id = smCfg.id,
         Kind(Head(mbox)) \in Granted
  PROVE  PortInv'
<1> DEFINE none == DL_ReadWrite_req(dl, rw)
<1>1. MboxTyped /\ dl \in DlRecord
  BY SmFacts
<1>2. Among(Granted, mbox) /\ Kind(Head(mbox)) \in Asked
  BY <1>1, AmongTail DEF MboxTyped, Granted, Asked
<1>3. Ready /\ linked
  BY <1>2 DEF PortInv, Asking
<1>4. ~BlockOut
  BY <1>1, <1>2, AmongTail DEF PortInv, Asking, MboxTyped
<1>5. /\ dl'.mdh = "STARTUP" /\ dl'.mode = "STARTUP" /\ dl'.mh = "STARTUP" /\ ~dl'.event /\ ~dl'.lost
      /\ dl'.wurq = dl.wurq /\ dl'.rw = rw
      /\ TakeAndPost(<<>>) /\ sm' = state /\ smAux'.addr = block /\ smAux'.error = aux.error
  <2>1. BlockAccepted(dl)
    BY <1>3, <1>4 DEF BlockAccepted, Ready, BlockOut
  <2>2. dl' = [dl EXCEPT !.rw = rw] /\ TakeAndPost(<<>>) /\ sm' = state
    BY <2>1 DEF SmBlock, SmEnter, DL_ReadWrite_req
  <2>3. smAux'.addr = block /\ smAux'.error = aux.error
    BY DEF SmBlock, Aux
  <2> QED BY <1>1, <1>3, <2>2, <2>3, DlShape DEF Ready
<1>6. Trades({}, {})
  BY <1>1, <1>5, TradedNone DEF MboxTyped
<1>7. ~Among(Asked, mbox')
  BY <1>2, <1>6, Unasked
<1>8. ~Among(Upsets, mbox') /\ ~Waiting("MODE_STARTUP")'
  <2>1. ~Among(Upsets, mbox)
    BY <1>3 DEF Ready
  <2>2. ~Among(Upsets, mbox')
    BY <1>6, <2>1 DEF Trades
  <2> QED BY <2>2 DEF Among, Upsets, Waiting
<1>9. sm \in Reading \cup Writing
  <2>1. Among({"READ", "NOT_READ"}, mbox) \/ Among({"WRITTEN"}, mbox)
    BY <1>2 DEF Among, Granted
  <2> QED BY <2>1 DEF PortInv, Asking
<1>10. DlSound'
  BY <1>3, <1>5 DEF PortInv, DlSound, Ready
<1>11. Woken'
  <2>1. NoneAfter("MODE_STARTUP", Upsets, mbox)'
    BY <1>8, NoneAfterNone DEF Waiting
  <2> QED BY <1>5, <1>8, <2>1 DEF Woken, Reading, Writing
<1>12. Asking'
  <2>1. \A K : K \subseteq Asked => ~Among(K, mbox')
    BY <1>7 DEF Among
  <2>2. ~Among({"STRAY"}, mbox')
    <3>1. ~Among({"STRAY"}, mbox)
      BY DEF PortInv, Asking, Among
    <3> QED BY <1>6, <3>1 DEF Trades
  <2>3. Single(Asked, mbox') /\ ~Among({"NOT_WRITTEN", "STRAY"}, mbox')
    BY <1>7, <2>2 DEF Among, Asked, Single
  <2>4. Ready' /\ linked'
    BY <1>3, <1>5, <1>8 DEF Ready, SmUnchanged
  <2>5. /\ ~Among({"READ", "NOT_READ"}, mbox') /\ ~Among({"WRITTEN"}, mbox')
        /\ ~Among(Granted, mbox') /\ ~Among({"NOT_READ"}, mbox')
    BY <2>1 DEF Asked, Granted
  <2> QED BY <1>5, <1>7, <2>3, <2>4, <2>5 DEF Asking, BlockOut, Waiting
<1>13. Moded'
  BY <1>5 DEF Moded, Token, BlockOut, Reading, Writing
<1>14. Serving'
  BY <1>6, <1>9, ServingMoved DEF PortInv, SmUnchanged, Reading, Writing
<1>15. Configuring'
  BY <1>2, <1>3, <1>5, <1>6, ConfiguringBusy DEF Ready, Loud, Asked, Calm
<1>16. Followed'
  BY <1>2, <1>5, <1>6, <1>9, FollowedMoved DEF PortInv, SmUnchanged, Asked, Late, Reading, Writing
<1> QED BY <1>10, <1>11, <1>12, <1>13, <1>14, <1>15, <1>16 DEF PortInv

(* sm_comlost: whatever the SM was doing, the port is inactive. *)
LEMMA ComlostKeeps ==
  ASSUME TypeInv, PortInv, mbox # <<>>, SmUnchanged, UNCHANGED <<smCfg, smReal>>,
         SmComlost("PortInactive"), sm # "PortInactive",
         \/ Kind(Head(mbox)) = "NOT_READ"
         \/ sm \notin Reading \cup Writing
         \/ Kind(Head(mbox)) \in Upsets /\ sm # "ReadComParameter",
         sm = "checkSerNum" => Kind(Head(mbox)) = "SERNUM",
         sm = "write_master_cycl" => Kind(Head(mbox)) = "CYCL",
         Kind(Head(mbox)) \notin {"SM_CFG", "COMLOST"}
  PROVE  PortInv'
<1>1. MboxTyped /\ dl \in DlRecord
  BY SmFacts
<1>2. sm' = "PortInactive" /\ dl' = DL_SetMode_req(dl, "INACTIVE") /\ TakeAndPost(<<Signal("COMLOST")>>)
  BY DEF SmComlost, SmEnter
<1>3. /\ dl'.mdh = dl.mdh /\ dl'.mode = "INACTIVE" /\ dl'.rw = dl.rw /\ dl'.lost = dl.lost
      /\ dl'.mh = dl.mh /\ dl'.wurq = dl.wurq /\ dl'.event
  BY <1>1, <1>2, DlShape DEF DL_SetMode_req
<1>4. Signal("COMLOST") \in PortJob /\ Kind(Signal("COMLOST")) = "COMLOST"
  BY SignalJob, SignalKind DEF JobTypes
<1>5. Trades({"COMLOST"}, {"COMLOST"})
  BY <1>1, <1>2, <1>4, TradedOne DEF MboxTyped, TradesOne
<1>6. ~BlockOut /\ ~Among(Asked, mbox')
  BY <1>5, Unasked DEF Asked
<1>7. DlSound' /\ Woken' /\ Asking' /\ Moded'
  BY <1>3, <1>5, <1>6, ModeKeeps, UnderWay DEF Asked
<1>8. Serving'
  BY <1>5, ServingMoved DEF PortInv, SmUnchanged
<1>9. Configuring'
  BY <1>2, <1>5, ConfiguringCalm DEF Loud, Calm
<1>10. Followed'
  BY <1>2, <1>5, FollowedMoved DEF PortInv, SmUnchanged, Passed, Late
<1> QED BY <1>7, <1>8, <1>9, <1>10 DEF PortInv

(* No row for the job. *)
LEMMA IgnoredKeeps ==
  ASSUME TypeInv, PortInv, mbox # <<>>, SmUnchanged, SmIgnore,
         Kind(Head(mbox)) \notin Asked \cup {"MODE_STARTUP", "SM_CFG", "COMLOST"}
  PROVE  PortInv'
<1>1. TakeAndPost(<<>>) /\ UNCHANGED <<sm, smCfg, smReal, smAux, dl>>
  BY DEF SmIgnore, SmEnter
<1>2. Trades({}, {})
  BY <1>1, SmFacts, TradedNone DEF MboxTyped
<1>3. SameModes
  BY <1>1 DEF SameModes
<1>4. DlSound' /\ Woken' /\ Asking' /\ Moded'
  BY <1>1, <1>2, <1>3, QuietKeeps DEF SmUnchanged
<1>5. Serving'
  BY <1>1, <1>2, ServedKeeps DEF PortInv, SmUnchanged
<1>6. Configuring'
  BY <1>1, <1>2, ConfiguringCalm
<1>7. Followed'
  BY <1>1, <1>2, FollowedMoved DEF PortInv, SmUnchanged, Followed
<1> QED BY <1>4, <1>5, <1>6, <1>7 DEF PortInv

(* The mode of the DL is set, behind a job of another kind. *)
LEMMA SetKeeps ==
  ASSUME TypeInv, PortInv, mbox # <<>>, SmUnchanged, UNCHANGED smCfg, NEW may, NEW must, Trades(may, must),
         may \subseteq {"FAULT"}, NEW mode \in {"INACTIVE", "PREOPERATE", "OPERATE"},
         dl' = DL_SetMode_req(dl, mode), sm # "PortInactive",
         sm' \in Passed => smCfg.backup = "CHECK_NO" \/ smReal'.id = smCfg.id,
         \/ Kind(Head(mbox)) \in Granted /\ sm' \notin Late
         \/ Kind(Head(mbox)) = "DEVMODE_CNF" /\ sm = "wait_devmode_cnf" /\ sm' = "SMOperate"
         \/ Kind(Head(mbox)) = "DEVMODE_CNF" /\ sm = "waitForFallback" /\ sm' = "PortInactive"
  PROVE  PortInv'
<1>1. MboxTyped /\ dl \in DlRecord
  BY SmFacts
<1>2. /\ dl'.mdh = dl.mdh /\ dl'.mode = mode /\ dl'.rw = dl.rw /\ dl'.lost = dl.lost
      /\ dl'.mh = dl.mh /\ dl'.wurq = dl.wurq /\ dl'.event
  BY <1>1, DlShape DEF DL_SetMode_req
<1>3. \/ Kind(Head(mbox)) \in Asked
      \/ sm \notin Reading \cup Writing
  BY DEF Granted, Asked, Reading, Writing
<1>4. ~BlockOut /\ ~Among(Asked, mbox')
  BY <1>3, Unasked DEF Asked
<1>5. DlSound' /\ Woken' /\ Asking' /\ Moded'
  BY <1>2, <1>4, ModeKeeps, UnderWay DEF Asked
<1>6. Kind(Head(mbox)) \in Granted => sm \in Reading \cup Writing
  <2>1. ASSUME Kind(Head(mbox)) \in Granted PROVE Among({"READ", "NOT_READ"}, mbox) \/ Among({"WRITTEN"}, mbox)
    BY <1>1, <2>1, AmongTail DEF MboxTyped, Granted
  <2> QED BY <2>1 DEF PortInv, Asking
<1>7. Serving'
  BY <1>6, ServingMoved DEF PortInv, SmUnchanged, Reading, Writing
<1>8. Configuring'
  <2>1. Kind(Head(mbox)) \in Loud \/ sm \notin SmRest
    BY DEF Granted, Loud, Asked, Calm, SmRest
  <2> QED BY <1>2, <2>1, ConfiguringBusy
<1>9. Followed'
  BY <1>6, FollowedMoved DEF PortInv, SmUnchanged, Granted, Reading, Writing, Late
<1> QED BY <1>5, <1>7, <1>8, <1>9 DEF PortInv

(* The SM moves on, with a job of another kind, and leaves the DL its mode. *)
LEMMA MovedOn ==
  ASSUME TypeInv, PortInv, mbox # <<>>, SmUnchanged, UNCHANGED smCfg, UNCHANGED smReal,
         NEW may, NEW must, Trades(may, must),
         may \cap (Asked \cup {"MODE_STARTUP", "STRAY", "SMI_CFG", "SM_CFG", "SM_OPERATE"}) = {},
         SameModes, sm \notin {"PortInactive", "ReadComParameter", "SMOperate"}, sm' # "PortInactive",
         \/ Kind(Head(mbox)) \in Upsets /\ sm \notin SmRest
         \/ Kind(Head(mbox)) \in {"SERNUM", "CYCL", "SM_OPERATE"} /\ sm \notin Reading \cup Writing,
         \/ sm' \in {"CheckComp", "waitForFallback"}
         \/ sm \in {"waitonDLPreoperate", "waitonDLOperate", "checkSerNum", "wait", "write_master_cycl"},
         sm' \in Passed => sm \in Passed,
         sm' \in Late => sm \in Late \/ Kind(Head(mbox)) = "SM_OPERATE",
         "OPERATE" \in may => sm' = "SMOperate"
  PROVE  DlSound' /\ Woken' /\ Asking' /\ Moded' /\ Configuring' /\ Followed'
<1>1. ~BlockOut /\ ~Among(Asked, mbox')
  BY Unasked
<1>2. sm' \in {"CheckComp", "waitForFallback"} \/ dl.mode # "STARTUP"
  <2>1. CASE Kind(Head(mbox)) \in Upsets
    <3>1. Trades({}, {}) \/ ~Ready
      BY <2>1 DEF Ready, Trades
    <3>2. ~Among(Asked, mbox)
      <4>1. \A K : Kind(Head(mbox)) \in K => Among(K, mbox)
        BY DEF Trades
      <4>2. ~Ready
        BY <2>1, <4>1 DEF Ready
      <4>3. ~Among(Granted, mbox) /\ ~Among({"NOT_READ"}, mbox) /\ ~Among({"NOT_WRITTEN", "STRAY"}, mbox)
        BY <4>2 DEF PortInv, Asking, Waiting
      <4> QED BY <4>3 DEF Among, Granted, Asked
    <3>3. ~Token
      BY <1>1, <3>2 DEF Token
    <3> QED BY <3>3 DEF PortInv, Moded
  <2>2. CASE Kind(Head(mbox)) \in {"SERNUM", "CYCL", "SM_OPERATE"} /\ sm \notin Reading \cup Writing
    BY <2>2 DEF PortInv, Moded, Writing
  <2> QED BY <2>1, <2>2
<1>3. DlSound' /\ Woken' /\ Asking' /\ Moded'
  BY <1>1, <1>2, StateKeeps
<1>4. Configuring'
  <2>1. Kind(Head(mbox)) \in Loud \/ sm \notin SmRest
    BY DEF Loud, Calm, JobTypes
  <2> QED BY <2>1, ConfiguringBusy DEF SameModes
<1>5. Followed'
  BY FollowedMoved DEF PortInv, Followed, SmUnchanged, Upsets
<1> QED BY <1>3, <1>4, <1>5

-----------------------------------------------------------------------------
(* The confirmations of the wake-up and of the first block. *)

(* The job is taken and nothing, or one signal, is posted. *)
LEMMA TakenNone ==
  ASSUME TypeInv, mbox # <<>>, TakeAndPost(<<>>) PROVE Trades({}, {})
  BY SmFacts, TradedNone DEF MboxTyped

LEMMA TakenSignal ==
  ASSUME TypeInv, mbox # <<>>, NEW type \in {"COMREADY", "FAULT", "OPERATE", "COMLOST"},
         TakeAndPost(<<Signal(type)>>)
  PROVE  Trades({type}, {type})
<1>1. Signal(type) \in PortJob /\ Kind(Signal(type)) = type
  BY SignalJob, SignalKind DEF JobTypes
<1> QED BY <1>1, SmFacts, TradedOne DEF MboxTyped, TradesOne

(* The first block after the wake-up. *)
LEMMA BlockStarted ==
  ASSUME TypeInv, PortInv, mbox # <<>>, SmUnchanged, UNCHANGED <<smCfg, smReal>>,
         NEW aux \in Aux, SmBlock("ReadComParameter", "read", "COMM", aux),
         Kind(Head(mbox)) = "MODE_STARTUP"
  PROVE  PortInv'
<1>1. MboxTyped /\ dl \in DlRecord
  BY SmFacts
<1>2. Waiting("MODE_STARTUP") /\ Among(Upsets, mbox)
  BY <1>1, AmongTail DEF MboxTyped, Waiting, Upsets
<1>3. dl.mdh = "STARTUP" /\ dl.mode = "STARTUP" /\ ~dl.event /\ sm = "PortInactive"
  BY <1>2 DEF PortInv, Woken
<1>4. ~BlockOut /\ ~Among(Asked, mbox)
  <2>1. ~BlockOut /\ ~Among(Granted, mbox)
    BY <1>2 DEF PortInv, Asking, Ready
  <2>2. ~Among({"NOT_READ"}, mbox) /\ ~Among({"NOT_WRITTEN", "STRAY"}, mbox)
    BY <1>3 DEF PortInv, Asking, Waiting
  <2> QED BY <2>1, <2>2 DEF Among, Asked, Granted
<1>5. sm' = "ReadComParameter" /\ smAux'.addr = "COMM" /\ dl' = DL_ReadWrite_req(dl, "read")
      /\ TakeAndPost(IF BlockAccepted(dl) THEN <<>> ELSE <<BlockCnf("read", "COMM", "ERR", NoSnap)>>)
  BY DEF SmBlock, SmEnter, Aux
<1>6. /\ dl'.mdh = "STARTUP" /\ dl'.mode = "STARTUP" /\ ~dl'.event /\ dl'.lost = dl.lost
      /\ dl'.wurq = dl.wurq /\ dl'.mh = dl.mh
  BY <1>1, <1>3, <1>5, DlShape DEF DL_ReadWrite_req
<1>7. CASE BlockAccepted(dl)
  <2>1. dl.mh = "STARTUP" /\ dl'.rw = "read" /\ Trades({}, {})
    BY <1>1, <1>5, <1>7, TakenNone, DlShape DEF DL_ReadWrite_req, BlockAccepted
  <2>2. ~Among(Upsets, mbox') /\ ~Waiting("MODE_STARTUP")'
    <3>1. ~Among(Upsets, mbox')
      BY <2>1 DEF PortInv, Woken, Trades
    <3> QED BY <3>1 DEF Among, Upsets, Waiting
  <2>3. Ready'
    BY <1>6, <2>1, <2>2 DEF PortInv, DlSound, Ready
  <2>4. DlSound'
    BY <1>3, <1>6 DEF PortInv, DlSound
  <2>5. Woken'
    <3>1. NoneAfter("MODE_STARTUP", Upsets, mbox)'
      BY <2>2, NoneAfterNone DEF Waiting
    <3> QED BY <1>5, <1>6, <2>2, <3>1 DEF Woken
  <2>6. Asking'
    <3>1. ~Among(Asked, mbox')
      BY <1>4, <2>1 DEF Trades
    <3>2. ~Among({"STRAY"}, mbox')
      <4>1. ~Among({"STRAY"}, mbox)
        BY DEF PortInv, Asking, Among
      <4> QED BY <2>1, <4>1 DEF Trades
    <3>3. Single(Asked, mbox') /\ ~Among({"NOT_WRITTEN", "STRAY"}, mbox')
      BY <3>1, <3>2 DEF Among, Asked, Single
    <3>4. /\ ~Among({"READ", "NOT_READ"}, mbox') /\ ~Among({"WRITTEN"}, mbox')
          /\ ~Among(Granted, mbox') /\ ~Among({"NOT_READ"}, mbox')
      BY <3>1 DEF Among, Asked, Granted
    <3> QED BY <1>5, <2>1, <2>3, <3>1, <3>3, <3>4 DEF Asking, BlockOut, Waiting, Reading
  <2>7. Moded'
    BY <1>5 DEF Moded
  <2>8. Serving'
    BY <1>3, <2>1, ServingMoved DEF PortInv, SmUnchanged
  <2>9. Configuring'
    BY <1>3, <1>6, <2>1, ConfiguringBusy DEF Loud, Calm, JobTypes
  <2>10. Followed'
    BY <1>3, <1>5, <2>1, FollowedMoved DEF PortInv, SmUnchanged, Passed, Late
  <2> QED BY <2>4, <2>5, <2>6, <2>7, <2>8, <2>9, <2>10 DEF PortInv
<1>8. CASE ~BlockAccepted(dl)
  <2> DEFINE cnf == BlockCnf("read", "COMM", "ERR", NoSnap)
  <2>1. cnf \in PortJob /\ Kind(cnf) = "NOT_READ"
    <3>1. "COMM" \in Blocks
      BY DEF Blocks
    <3>2. cnf \in PortJob
      BY <3>1, CnfIsJob, ResultNames, WildFacts DEF BlockCnf, Answers
    <3> QED BY <3>2, CnfKind
  <2>2. TakeAndPost(<<cnf>>) /\ dl' = dl
    BY <1>5, <1>8 DEF DL_ReadWrite_req
  <2> HIDE DEF cnf
  <2>3. TradesOne("NOT_READ")
    BY <1>1, <2>1, <2>2, TradedOne DEF MboxTyped
  <2>4. Trades({"NOT_READ"}, {"NOT_READ"})
    BY <2>3 DEF TradesOne
  <2>5. ~Waiting("MODE_STARTUP")'
    <3>1. {"NOT_READ"} \cap Upsets = {} /\ "MODE_STARTUP" \in Upsets
      BY DEF Upsets
    <3>2. ~Among(Upsets, mbox')
      BY <2>4, <3>1 DEF PortInv, Woken, Trades
    <3> QED BY <3>1, <3>2 DEF Among, Waiting
  <2>6. DlSound'
    BY <2>2 DEF PortInv, DlSound
  <2>7. Woken'
    <3>1. NoneAfter("MODE_STARTUP", Upsets, mbox)'
      BY <2>5, NoneAfterNone DEF Waiting
    <3> QED BY <1>5, <1>6, <2>5, <3>1 DEF Woken
  <2>8. Asking'
    <3>1. Single(Asked, mbox')
      BY <1>4, <2>3 DEF PortInv, Asking, TradesOne
    <3>2. ~Among({"NOT_WRITTEN", "STRAY"}, mbox') /\ ~Among(Granted, mbox') /\ ~Among({"WRITTEN"}, mbox')
      <4>1. ~Among({"STRAY"}, mbox)
        BY DEF PortInv, Asking, Among
      <4>2. ~Among({"NOT_WRITTEN", "STRAY"}, mbox) /\ ~Among(Granted, mbox) /\ ~Among({"WRITTEN"}, mbox)
        BY <1>4, <4>1 DEF Among, Asked, Granted
      <4> QED BY <2>4, <4>2 DEF Trades, Granted
    <3> QED BY <1>4, <1>5, <2>2, <3>1, <3>2 DEF Asking, BlockOut, Waiting, Reading
  <2>9. Moded'
    BY <1>5 DEF Moded
  <2>10. Serving'
    BY <1>3, <2>4, ServingMoved DEF PortInv, SmUnchanged
  <2>11. Configuring'
    BY <1>3, <1>6, <2>4, ConfiguringBusy DEF Loud, Calm, JobTypes
  <2>12. Followed'
    BY <1>3, <1>5, <2>4, FollowedMoved DEF PortInv, SmUnchanged, Passed, Late
  <2> QED BY <2>6, <2>7, <2>8, <2>9, <2>10, <2>11, <2>12 DEF PortInv
<1> QED BY <1>7, <1>8

(* The first block was not answered, or communication was lost. *)
LEMMA EventModeInv ==
  ASSUME TypeInv, PortInv, mbox # <<>>, SmUnchanged, EventModeComlost,
         \/ Kind(Head(mbox)) \in Upsets \ {"MODE_STARTUP"}
         \/ Kind(Head(mbox)) = "SERNUM" /\ sm = "checkSerNum"
  PROVE  PortInv'
<1>1. CASE /\ sm \in {"wait", "SMOperate", "InspectionFault", "waitonDLOperate", "waitForFallback"}
           /\ SmComlost("PortInactive")
           /\ UNCHANGED <<smCfg, smReal>>
  BY <1>1, ComlostKeeps DEF Upsets
<1>2. CASE /\ sm = "RestartDevice"
           /\ SmEnter("CheckComp", dl, <<>>)
           /\ UNCHANGED <<smCfg, smReal, smAux>>
  <2>1. TakeAndPost(<<>>) /\ sm' = "CheckComp" /\ dl' = dl
    BY <1>2 DEF SmEnter
  <2>2. Trades({}, {})
    BY <2>1, TakenNone
  <2>3. DlSound' /\ Woken' /\ Asking' /\ Moded' /\ Configuring' /\ Followed'
    BY <1>2, <2>1, <2>2, MovedOn DEF SameModes, SmRest, Passed, Late
  <2>4. Serving'
    BY <1>2, <2>2, ServingMoved DEF PortInv, SmUnchanged
  <2> QED BY <2>3, <2>4 DEF PortInv
<1>3. CASE SmIgnore
  BY <1>3, IgnoredKeeps DEF Upsets, Asked
<1> QED BY <1>1, <1>2, <1>3 DEF EventModeComlost

LEMMA EventCnfInv ==
  ASSUME TypeInv, PortInv, mbox # <<>>, SmUnchanged, EventCnfComlost,
         \/ Kind(Head(mbox)) \in {"NOT_READ", "SERNUM", "CYCL"}
         \/ Kind(Head(mbox)) = "DEVMODE_CNF" /\ sm = "wait_devmode_cnf"
  PROVE  PortInv'
<1>1. ASSUME Kind(Head(mbox)) \in {"NOT_READ", "SERNUM", "CYCL"} PROVE Waiting(Kind(Head(mbox)))
  BY <1>1, SmFacts, AmongTail DEF Waiting, MboxTyped
<1>2. /\ Kind(Head(mbox)) = "NOT_READ" => sm = "ReadComParameter"
      /\ Kind(Head(mbox)) = "SERNUM" => sm = "checkSerNum"
      /\ Kind(Head(mbox)) = "CYCL" => sm = "write_master_cycl"
  BY <1>1 DEF PortInv, Asking, Serving
<1>3. sm \in {"ReadComParameter", "checkSerNum", "write_master_cycl", "wait_devmode_cnf"}
  BY <1>2
<1>4. SmComlost("PortInactive") /\ UNCHANGED <<smCfg, smReal>>
  BY <1>3 DEF EventCnfComlost, CompatStates
<1> QED BY <1>2, <1>3, <1>4, ComlostKeeps DEF Reading, Writing

-----------------------------------------------------------------------------
(* The indications of the mode handler. *)

(* A mode is indicated. *)
LEMMA ModeHead ==
  ASSUME mbox # <<>>, Head(mbox).type \in ModeJobs \cup {"MODE_COMLOST", "DEVMODE_CNF"}
  PROVE  Kind(Head(mbox)) = Head(mbox).type /\ Kind(Head(mbox)) \in Upsets
  BY HeadKind DEF Plain, JobTypes, ModeJobs, Upsets

LEMMA WhenInactiveInv ==
  ASSUME TypeInv, PortInv, mbox # <<>>, SmUnchanged, Head(mbox).type \in ModeJobs, ModeWhenInactive
  PROVE  PortInv'
<1>1. Kind(Head(mbox)) = Head(mbox).type
  BY ModeHead
<1>2. sm = "PortInactive" /\ UNCHANGED <<smCfg, smReal>>
  BY DEF ModeWhenInactive
<1>3. CASE Take("MODE_STARTUP") /\ SmBlock("ReadComParameter", "read", "COMM", [smAux EXCEPT !.retry = FALSE])
  <2>1. [smAux EXCEPT !.retry = FALSE] \in Aux
    BY SmFacts, AuxFields
  <2> QED BY <1>1, <1>2, <1>3, <2>1, BlockStarted DEF Take
<1>4. CASE /\ Take("MODE_INACTIVE")
           /\ SmEnter(sm, dl, IF smCfg.mode = "DEACTIVE" THEN <<>> ELSE <<Signal("COMLOST")>>)
           /\ UNCHANGED smAux
  <2>1. UNCHANGED <<sm, dl, smAux>> /\ (TakeAndPost(<<>>) \/ TakeAndPost(<<Signal("COMLOST")>>))
    BY <1>4 DEF SmEnter
  <2>2. PICK may \in {{}, {"COMLOST"}} : Trades(may, may)
    BY <2>1, TakenNone, TakenSignal
  <2>3. Kind(Head(mbox)) = "MODE_INACTIVE"
    BY <1>1, <1>4 DEF Take
  <2>4. DlSound' /\ Woken' /\ Asking' /\ Moded'
    BY <2>1, <2>2, <2>3, QuietKeeps DEF SmUnchanged, SameModes, Asked, Upsets
  <2>5. Serving'
    BY <2>1, <2>2, ServedKeeps DEF PortInv, SmUnchanged
  <2>6. Configuring'
    BY <2>1, <2>2, ConfiguringCalm DEF Loud, Calm
  <2>7. Followed'
    BY <1>2, <2>1, <2>2, <2>3, FollowedMoved DEF PortInv, SmUnchanged, Passed, Late
  <2> QED BY <2>4, <2>5, <2>6, <2>7 DEF PortInv
<1>5. CASE /\ Head(mbox).type \in {"MODE_PREOPERATE", "MODE_OPERATE"}
           /\ SmEnter(sm, dl, <<>>)
           /\ UNCHANGED smAux
  <2>1. SmIgnore
    BY <1>2, <1>5 DEF SmIgnore
  <2> QED BY <1>1, <1>5, <2>1, IgnoredKeeps DEF Asked
<1> QED BY <1>3, <1>4, <1>5 DEF ModeWhenInactive

LEMMA AwaitedInv ==
  ASSUME TypeInv, PortInv, mbox # <<>>, SmUnchanged, Head(mbox).type \in ModeJobs, ModeAwaited
  PROVE  PortInv'
<1>1. Kind(Head(mbox)) = Head(mbox).type /\ Kind(Head(mbox)) \in Upsets
  BY ModeHead
<1>2. UNCHANGED <<smCfg, smReal, smAux>>
  BY DEF ModeAwaited
<1>3. CASE sm \in {"waitonDLPreoperate", "waitonDLOperate"} /\ SmEnter("checkSerNum", dl, <<ReadReq("SERNUM")>>)
  <2>1. sm' = "checkSerNum" /\ dl' = dl /\ TakeAndPost(<<ReadReq("SERNUM")>>)
    BY <1>3 DEF SmEnter
  <2>2. ReadReq("SERNUM") \in PortJob /\ Kind(ReadReq("SERNUM")) = "SERNUM"
    BY ReadIsJob, RequestKind DEF Indexes
  <2>3. TradesOne("SERNUM")
    BY <2>1, <2>2, SmFacts, TradedOne DEF MboxTyped
  <2>4. Trades({"SERNUM"}, {"SERNUM"})
    BY <2>3 DEF TradesOne
  <2>5. DlSound' /\ Woken' /\ Asking' /\ Moded' /\ Configuring' /\ Followed'
    BY <1>1, <1>2, <1>3, <2>1, <2>4, MovedOn DEF SameModes, SmRest, Passed, Late, Asked
  <2>6. Serving'
    BY <1>3, <2>1, <2>3, ServingAsked DEF PortInv, SmUnchanged
  <2> QED BY <2>5, <2>6 DEF PortInv
<1>4. CASE sm = "SMOperate" /\ Take("MODE_OPERATE") /\ SmEnter(sm, dl, <<Signal("OPERATE")>>)
  <2>1. UNCHANGED <<sm, dl>> /\ TakeAndPost(<<Signal("OPERATE")>>)
    BY <1>4 DEF SmEnter
  <2>2. Trades({"OPERATE"}, {"OPERATE"})
    BY <2>1, TakenSignal
  <2>3. Kind(Head(mbox)) = "MODE_OPERATE"
    BY <1>1, <1>4 DEF Take
  <2>4. DlSound' /\ Woken' /\ Asking' /\ Moded'
    BY <1>2, <2>1, <2>2, <2>3, QuietKeeps DEF SmUnchanged, SameModes, Asked, Upsets
  <2>5. Serving'
    BY <2>1, <2>2, ServedKeeps DEF PortInv, SmUnchanged
  <2>6. Configuring'
    BY <2>1, <2>2, <2>3, ConfiguringBusy DEF Loud, Calm, JobTypes
  <2>7. Followed'
    BY <1>2, <1>4, <2>1, <2>2, <2>3, FollowedMoved DEF PortInv, Followed, SmUnchanged, Passed, Late
  <2> QED BY <2>4, <2>5, <2>6, <2>7 DEF PortInv
<1> QED BY <1>3, <1>4 DEF ModeAwaited

LEMMA ModeIndInv ==
  ASSUME TypeInv, PortInv, SmUnchanged, SmModeInd PROVE PortInv'
<1>1. mbox # <<>>
  BY DEF SmModeInd
<1>2. ASSUME Head(mbox).type \in ModeJobs \cup {"MODE_COMLOST"}, sm # "PortInactive" \/ Take("MODE_COMLOST")
      PROVE  Kind(Head(mbox)) \in Upsets \ {"MODE_STARTUP"}
  <2>1. Kind(Head(mbox)) = Head(mbox).type /\ Kind(Head(mbox)) \in Upsets
    BY <1>1, <1>2, ModeHead
  <2>2. Kind(Head(mbox)) = "MODE_STARTUP" => Waiting("MODE_STARTUP")
    BY <1>1, SmFacts, AmongTail DEF Waiting, MboxTyped
  <2> QED BY <1>2, <2>1, <2>2, UnderWay DEF Take
<1>3. CASE Head(mbox).type \in ModeJobs /\ ModeWhenInactive
  BY <1>1, <1>3, WhenInactiveInv
<1>4. CASE Head(mbox).type \in ModeJobs /\ ModeAwaited
  BY <1>1, <1>4, AwaitedInv
<1>5. CASE Head(mbox).type \in ModeJobs /\ ModeUnexpected
  <2>1. sm # "PortInactive" /\ (SmIgnore \/ EventModeComlost)
    BY <1>5 DEF ModeUnexpected
  <2>2. Kind(Head(mbox)) \in Upsets \ {"MODE_STARTUP"}
    BY <1>2, <1>5, <2>1
  <2> QED BY <1>1, <2>1, <2>2, IgnoredKeeps, EventModeInv DEF Upsets, Asked
<1>6. CASE Take("MODE_COMLOST") /\ (SmIgnore \/ EventModeComlost)
  <2>1. Kind(Head(mbox)) \in Upsets \ {"MODE_STARTUP"}
    BY <1>2, <1>6 DEF Take
  <2> QED BY <1>1, <1>6, <2>1, IgnoredKeeps, EventModeInv DEF Upsets, Asked
<1> QED BY <1>3, <1>4, <1>5, <1>6 DEF SmModeInd

-----------------------------------------------------------------------------
(* The answers to blocks. *)
LEMMA AnswerHead ==
  ASSUME TypeInv, PortInv, mbox # <<>>, Head(mbox).type \in {"DL_READ_CNF", "DL_WRITE_CNF"}
  PROVE  /\ Head(mbox).type = "DL_READ_CNF" =>
               \/ Kind(Head(mbox)) = "WURQ" /\ Head(mbox).res = "OK" /\ Head(mbox).index = "WURQ"
               \/ Kind(Head(mbox)) = "READ" /\ Head(mbox).res = "OK" /\ sm \in Reading
               \/ Kind(Head(mbox)) = "NOT_READ" /\ Head(mbox).res # "OK"
         /\ Head(mbox).type = "DL_WRITE_CNF" =>
               Kind(Head(mbox)) = "WRITTEN" /\ Head(mbox).res = "OK" /\ sm \in Writing
<1>1. \A K : Kind(Head(mbox)) \in K => Among(K, mbox)
  BY SmFacts, AmongTail DEF MboxTyped
<1>2. Kind(Head(mbox)) \notin {"NOT_WRITTEN", "STRAY"}
  BY <1>1 DEF PortInv, Asking
<1>3. Kind(Head(mbox)) = "READ" => sm \in Reading
  BY <1>1 DEF PortInv, Asking
<1>4. Kind(Head(mbox)) = "WRITTEN" => sm \in Writing
  BY <1>1 DEF PortInv, Asking
<1> QED BY <1>2, <1>3, <1>4, HeadKind

LEMMA FaultEffects ==
  ASSUME TypeInv, PortInv, mbox # <<>>, SmUnchanged, UNCHANGED smCfg,
         NEW mode \in {"INACTIVE", "PREOPERATE", "OPERATE"}, dl' = DL_SetMode_req(dl, mode),
         TakeAndPost(<<>>) \/ TakeAndPost(<<Signal("FAULT")>>),
         Kind(Head(mbox)) \in Granted, sm # "PortInactive", sm' \notin Late,
         sm' \in Passed => smCfg.backup = "CHECK_NO" \/ smReal'.id = smCfg.id
  PROVE  PortInv'
<1>1. PICK may \in {{}, {"FAULT"}} : Trades(may, may)
  BY TakenNone, TakenSignal
<1> QED BY <1>1, SetKeeps

(* The device is compared with the configuration. *)
LEMMA IdentInv ==
  ASSUME TypeInv, PortInv, mbox # <<>>, SmUnchanged, UNCHANGED smCfg, Kind(Head(mbox)) = "READ",
         IdentRead
  PROVE  PortInv'
<1>1. smAux \in Aux /\ Kind(Head(mbox)) \in Granted
  BY SmFacts DEF Granted
<1>2. {"IDENT", "PREOP", "OPERATE", "RESTART"} \subseteq Blocks \ {"WURQ"}
  BY DEF Blocks
<1>3. CASE sm \in {"CheckComp", "CheckCompV10"} /\ ReadBlock(sm, "IDENT")
  BY <1>1, <1>2, <1>3, BlockAsked DEF ReadBlock, Reading, Writing, Passed
<1>4. CASE sm = "CheckComp" /\ CheckCompDone
  <2>1. CASE Same /\ WriteBlock("waitonDLPreoperate", "PREOP")
    BY <1>1, <1>2, <2>1, BlockAsked DEF WriteBlock, Same, Reading, Writing
  <2>2. CASE SmBlock("RestartDevice", "write", "RESTART", [smAux EXCEPT !.retry = TRUE])
    BY <1>1, <1>2, <2>2, AuxFields, BlockAsked DEF Reading, Writing, Passed
  <2>3. CASE SmBlock("InspectionFault", "write", "PREOP", [smAux EXCEPT !.error = TRUE])
    <3>1. [smAux EXCEPT !.error = TRUE] \in Aux /\ [smAux EXCEPT !.error = TRUE].error
      BY <1>1, AuxFields DEF Aux
    <3> QED BY <1>1, <1>2, <2>3, <3>1, BlockAsked DEF Reading, Writing, Passed
  <2> QED BY <1>4, <2>1, <2>2, <2>3 DEF CheckCompDone
<1>5. CASE sm = "CheckCompV10" /\ CheckCompV10Done
  <2>1. CASE Same /\ WriteBlock("waitonDLOperate", "OPERATE")
    BY <1>1, <1>2, <2>1, BlockAsked DEF WriteBlock, Same, Reading, Writing
  <2>2. CASE SmEnter("InspectionFault", DL_SetMode_req(dl, "INACTIVE"), <<Signal("FAULT")>>)
    BY <1>1, <1>5, <2>2, FaultEffects DEF SmEnter, Passed, Late
  <2>3. CASE SmSetOperate("InspectionFault", smReal'.id, <<Signal("FAULT")>>)
    BY <1>1, <1>5, <2>3, FaultEffects DEF SmSetOperate, Passed, Late
  <2> QED BY <1>5, <2>1, <2>2, <2>3 DEF CheckCompV10Done
<1> QED BY <1>3, <1>4, <1>5 DEF IdentRead

LEMMA ReadCnfInv ==
  ASSUME TypeInv, PortInv, SmUnchanged, SmReadCnf PROVE PortInv'
<1>1. mbox # <<>> /\ Head(mbox).type = "DL_READ_CNF"
  BY DEF SmReadCnf, Take
<1>2. CASE Head(mbox).res # "OK" /\ EventCnfComlost
  <2>1. Kind(Head(mbox)) = "NOT_READ"
    BY <1>1, <1>2, AnswerHead
  <2> QED BY <1>1, <1>2, <2>1, EventCnfInv
<1>3. CASE Head(mbox).res = "OK" /\ ReadIgnored
  <2>1. Head(mbox).index = "WURQ" /\ SmIgnore
    BY <1>3 DEF ReadIgnored
  <2>2. Kind(Head(mbox)) = "WURQ"
    BY <1>1, <1>3, <2>1, HeadKind
  <2> QED BY <1>1, <2>1, <2>2, IgnoredKeeps DEF Asked
<1>4. CASE /\ Head(mbox).res = "OK" /\ Head(mbox).index # "WURQ"
           /\ ComParameterRead \/ IdentRead \/ Restarted
           /\ UNCHANGED smCfg
  <2>1. Kind(Head(mbox)) = "READ"
    BY <1>1, <1>4, AnswerHead
  <2>2. smAux \in Aux /\ Kind(Head(mbox)) \in Granted
    BY <2>1, SmFacts DEF Granted
  <2>3. {"IDENT", "MASTER_IDENT", "COMM"} \subseteq Blocks \ {"WURQ"}
    BY DEF Blocks
  <2>4. CASE ComParameterRead
    <3>1. ReadBlock("CheckCompV10", "IDENT") \/ WriteBlock("CheckVxy", "MASTER_IDENT")
      BY <2>4 DEF ComParameterRead
    <3> QED BY <1>1, <1>4, <2>2, <2>3, <3>1, BlockAsked DEF ReadBlock, WriteBlock, Reading, Writing, Passed
  <2>5. CASE IdentRead
    BY <1>1, <1>4, <2>1, <2>5, IdentInv
  <2>6. CASE Restarted
    BY <1>1, <1>4, <2>2, <2>3, <2>6, BlockAsked DEF Restarted, ReadBlock, Reading, Writing, Passed
  <2> QED BY <1>4, <2>4, <2>5, <2>6
<1> QED BY <1>2, <1>3, <1>4 DEF SmReadCnf

LEMMA WriteCnfInv ==
  ASSUME TypeInv, PortInv, SmUnchanged, SmWriteCnf PROVE PortInv'
<1>1. mbox # <<>> /\ Head(mbox).type = "DL_WRITE_CNF"
  BY DEF SmWriteCnf, Take
<1>2. Kind(Head(mbox)) = "WRITTEN" /\ Head(mbox).res = "OK" /\ sm \in Writing
  BY <1>1, AnswerHead
<1>3. smAux \in Aux /\ Kind(Head(mbox)) \in Granted /\ UNCHANGED <<smCfg, smReal>>
  BY <1>2, SmFacts DEF Granted, SmWriteCnf
<1>4. {"IDENT", "PREOP", "RESTART", "MIN"} \subseteq Blocks \ {"WURQ"}
  BY DEF Blocks
<1>5. CASE VxyWritten
  <2>1. CASE ReadBlock("CheckComp", "IDENT")
    BY <1>1, <1>3, <1>4, <2>1, BlockAsked DEF ReadBlock, Reading, Writing, Passed
  <2>2. CASE SmBlock("RestartDevice", "write", "RESTART", [smAux EXCEPT !.retry = TRUE])
    BY <1>1, <1>3, <1>4, <2>2, AuxFields, BlockAsked DEF Reading, Writing, Passed
  <2>3. CASE SmBlock("InspectionFault", "write", "PREOP", [smAux EXCEPT !.error = TRUE])
    <3>1. [smAux EXCEPT !.error = TRUE] \in Aux /\ [smAux EXCEPT !.error = TRUE].error
      BY <1>3, AuxFields DEF Aux
    <3> QED BY <1>1, <1>3, <1>4, <2>3, <3>1, BlockAsked DEF Reading, Writing, Passed
  <2> QED BY <1>5, <2>1, <2>2, <2>3 DEF VxyWritten
<1>6. CASE RestartWritten
  BY <1>1, <1>3, <1>4, <1>6, BlockAsked DEF RestartWritten, ReadBlock, Reading, Writing, Passed
<1>7. CASE FaultWritten
  <2>1. smAux.error
    <3>1. Among(Asked, mbox)
      BY <1>1, <1>2, SmFacts, AmongTail DEF MboxTyped, Asked
    <3> QED BY <1>7, <3>1 DEF PortInv, Moded, Token, FaultWritten
  <2>2. sm = "InspectionFault" /\ SmEnter(sm, DL_SetMode_req(dl, "PREOPERATE"), <<Signal("FAULT")>>)
    BY <1>7, <2>1 DEF FaultWritten
  <2> QED BY <1>1, <1>3, <2>2, FaultEffects DEF SmEnter, Passed, Late
<1>8. CASE PreopWritten
  <2>1. sm = "waitonDLPreoperate" /\ SmEnter(sm, DL_SetMode_req(dl, "PREOPERATE"), <<>>)
    BY <1>8 DEF PreopWritten
  <2>2. smCfg.backup = "CHECK_NO" \/ smReal'.id = smCfg.id
    BY <1>3, <2>1 DEF PortInv, Followed, Passed
  <2> QED BY <1>1, <1>3, <2>1, <2>2, FaultEffects DEF SmEnter, Late
<1>9. CASE OperateWritten
  <2>1. sm = "waitonDLOperate" /\ SmSetOperate(sm, smReal.id, <<>>)
    BY <1>9 DEF OperateWritten
  <2>2. smCfg.backup = "CHECK_NO" \/ smReal'.id = smCfg.id
    BY <1>3, <2>1 DEF PortInv, Followed, Passed
  <2> QED BY <1>1, <1>3, <2>1, <2>2, FaultEffects DEF SmSetOperate, Late
<1> QED BY <1>2, <1>5, <1>6, <1>7, <1>8, <1>9 DEF SmWriteCnf

-----------------------------------------------------------------------------
(* The services of the AL and the mode of the device. *)

(* The serial number, the cycle time and the device mode. *)
LEMMA SernumInv ==
  ASSUME TypeInv, PortInv, SmUnchanged, SmSernumCnf PROVE PortInv'
<1>1. mbox # <<>> /\ Head(mbox).type = "SERNUM_CNF"
  BY DEF SmSernumCnf, Take
<1>2. Kind(Head(mbox)) = "SERNUM"
  BY <1>1, HeadKind
<1>3. sm = "checkSerNum"
  BY <1>1, <1>2, SmFacts, AmongTail DEF MboxTyped, PortInv, Serving, Waiting
<1>4. CASE Head(mbox).res # "OK"
  BY <1>1, <1>2, <1>3, <1>4, EventModeInv, EventCnfInv DEF SmSernumCnf
<1>5. CASE /\ SmEnter("InspectionFault", dl, <<Signal("FAULT")>>) \/ SmEnter("wait", dl, <<Signal("COMREADY")>>)
           /\ UNCHANGED <<smCfg, smReal, smAux>>
  <2>1. /\ sm' \in {"InspectionFault", "wait"} /\ dl' = dl
        /\ TakeAndPost(<<Signal("FAULT")>>) \/ TakeAndPost(<<Signal("COMREADY")>>)
    BY <1>5 DEF SmEnter
  <2>2. PICK may \in {{"FAULT"}, {"COMREADY"}} : Trades(may, may)
    BY <1>1, <2>1, TakenSignal
  <2>3. DlSound' /\ Woken' /\ Asking' /\ Moded' /\ Configuring' /\ Followed'
    BY <1>1, <1>2, <1>3, <1>5, <2>1, <2>2, MovedOn DEF SameModes, Passed, Late, Asked, Reading, Writing
  <2>4. Serving'
    BY <1>1, <1>2, <1>3, <2>2, ServingMoved DEF PortInv, SmUnchanged
  <2> QED BY <2>3, <2>4 DEF PortInv
<1> QED BY <1>3, <1>4, <1>5 DEF SmSernumCnf

LEMMA OperateInv ==
  ASSUME TypeInv, PortInv, SmUnchanged, SmOperate PROVE PortInv'
<1>1. mbox # <<>> /\ Head(mbox).type = "SM_OPERATE"
  BY DEF SmOperate, Take
<1>2. Kind(Head(mbox)) = "SM_OPERATE"
  BY <1>1, HeadKind DEF Plain, JobTypes
<1>3. CASE SmIgnore
  BY <1>1, <1>2, <1>3, IgnoredKeeps DEF Asked
<1>4. CASE /\ sm = "wait" /\ SmEnter("SMOperate", dl, <<Signal("OPERATE")>>)
           /\ UNCHANGED <<smCfg, smReal, smAux>>
  <2>1. sm' = "SMOperate" /\ dl' = dl /\ TakeAndPost(<<Signal("OPERATE")>>)
    BY <1>4 DEF SmEnter
  <2>2. Trades({"OPERATE"}, {"OPERATE"})
    BY <1>1, <2>1, TakenSignal
  <2>3. DlSound' /\ Woken' /\ Asking' /\ Moded' /\ Configuring' /\ Followed'
    BY <1>1, <1>2, <1>4, <2>1, <2>2, MovedOn DEF SameModes, Passed, Late, Asked, Reading, Writing
  <2>4. Serving'
    BY <1>1, <1>4, <2>2, ServingMoved DEF PortInv, SmUnchanged
  <2> QED BY <2>3, <2>4 DEF PortInv
<1>5. CASE /\ sm = "wait" /\ SmEnter("write_master_cycl", dl, <<WriteReq("CYCL", 0)>>)
           /\ UNCHANGED <<smCfg, smReal, smAux>>
  <2>1. sm' = "write_master_cycl" /\ dl' = dl /\ TakeAndPost(<<WriteReq("CYCL", 0)>>)
    BY <1>5 DEF SmEnter
  <2>2. WriteReq("CYCL", 0) \in PortJob /\ Kind(WriteReq("CYCL", 0)) = "CYCL"
    <3>1. "CYCL" \in Indexes \cup {"CMD"} /\ 0 \in 0 .. N
      BY ListFacts DEF Indexes
    <3> QED BY <3>1, WriteIsJob, RequestKind
  <2>3. TradesOne("CYCL")
    BY <1>1, <2>1, <2>2, SmFacts, TradedOne DEF MboxTyped
  <2>4. Trades({"CYCL"}, {"CYCL"})
    BY <2>3 DEF TradesOne
  <2>5. DlSound' /\ Woken' /\ Asking' /\ Moded' /\ Configuring' /\ Followed'
    BY <1>1, <1>2, <1>5, <2>1, <2>4, MovedOn DEF SameModes, Passed, Late, Asked, Reading, Writing
  <2>6. Serving'
    BY <1>1, <1>5, <2>1, <2>3, ServingAsked DEF PortInv, SmUnchanged
  <2> QED BY <2>5, <2>6 DEF PortInv
<1> QED BY <1>3, <1>4, <1>5 DEF SmOperate

(* DL_Write_Devicemode_req does not change the modes, and answers at most once. *)
LEMMA DevmodeAsked ==
  ASSUME TypeInv, PortInv, mbox # <<>>, NEW cmd \in {"OPERATE", "FALLBACK"},
         dl' = DL_Write_Devicemode_req(dl, cmd), TakeAndPost(DevmodeAnswer(dl, cmd))
  PROVE  SameModes /\ dl'.rw = dl.rw /\ \E must : Trades({"DEVMODE_CNF"}, must)
<1> DEFINE d == [dl EXCEPT !.cmd = cmd, !.code = TRUE]
<1>1. dl \in DlRecord
  BY SmFacts
<1>2. cmd \in Cmds
  BY DEF Cmds
<1>3. d \in DlRecord
  BY <1>1, <1>2, DlFields, DlNames
<1>4. /\ d.mdh = dl.mdh /\ d.mode = dl.mode /\ d.lost = dl.lost /\ d.event = dl.event
      /\ d.wurq = dl.wurq /\ d.mh = dl.mh /\ d.rw = dl.rw
  BY <1>1, DlShape
<1>5. dl' = dl \/ dl' = CmdHandler(d)
  BY DEF DL_Write_Devicemode_req
<1> HIDE DEF d
<1>6. SameModes /\ dl'.rw = dl.rw
  BY <1>3, <1>4, <1>5, CmdHandlerFields DEF SameModes
<1>7. PICK res \in {"OK", "ERR"} : TakeAndPost(<<>>) \/ TakeAndPost(<<DevmodeCnf(res)>>)
  BY DEF DevmodeAnswer
<1>8. DevmodeCnf(res) \in PortJob /\ Kind(DevmodeCnf(res)) = "DEVMODE_CNF"
  BY ModeKinds, ResultNames
<1>9. \E must : Trades({"DEVMODE_CNF"}, must)
  BY <1>7, <1>8, SmFacts, TakenMay DEF MboxTyped
<1> QED BY <1>6, <1>9

LEMMA CyclInv ==
  ASSUME TypeInv, PortInv, SmUnchanged, SmCyclCnf PROVE PortInv'
<1>1. mbox # <<>> /\ Head(mbox).type = "CYCL_CNF"
  BY DEF SmCyclCnf, Take
<1>2. Kind(Head(mbox)) = "CYCL"
  BY <1>1, HeadKind
<1>3. sm = "write_master_cycl"
  BY <1>1, <1>2, SmFacts, AmongTail DEF MboxTyped, PortInv, Serving, Waiting
<1>4. CASE Head(mbox).res # "OK" /\ EventCnfComlost
  BY <1>1, <1>2, <1>4, EventCnfInv
<1>5. CASE /\ SmEnter("wait_devmode_cnf", DL_Write_Devicemode_req(dl, "OPERATE"), DevmodeAnswer(dl, "OPERATE"))
           /\ UNCHANGED <<smCfg, smReal, smAux>>
  <2>1. /\ sm' = "wait_devmode_cnf" /\ dl' = DL_Write_Devicemode_req(dl, "OPERATE")
        /\ TakeAndPost(DevmodeAnswer(dl, "OPERATE"))
    BY <1>5 DEF SmEnter
  <2>2. PICK must : SameModes /\ Trades({"DEVMODE_CNF"}, must)
    BY <1>1, <2>1, DevmodeAsked
  <2>3. DlSound' /\ Woken' /\ Asking' /\ Moded' /\ Configuring' /\ Followed'
    BY <1>1, <1>2, <1>3, <1>5, <2>1, <2>2, MovedOn DEF Passed, Late, Asked, Reading, Writing
  <2>4. Serving'
    BY <1>1, <1>2, <1>3, <2>2, ServingMoved DEF PortInv, SmUnchanged
  <2> QED BY <2>3, <2>4 DEF PortInv
<1> QED BY <1>3, <1>4, <1>5 DEF SmCyclCnf

LEMMA DevmodeInv ==
  ASSUME TypeInv, PortInv, SmUnchanged, SmDevmodeCnf PROVE PortInv'
<1>1. mbox # <<>> /\ Head(mbox).type = "DEVMODE_CNF"
  BY DEF SmDevmodeCnf, Take
<1>2. Kind(Head(mbox)) = "DEVMODE_CNF" /\ Kind(Head(mbox)) \in Upsets \ {"MODE_STARTUP"}
  BY <1>1, ModeHead
<1>3. CASE sm = "wait_devmode_cnf" /\ SmSetOperate("SMOperate", smReal.id, <<>>) /\ UNCHANGED <<smCfg, smReal, smAux>>
  <2>1. sm' = "SMOperate" /\ dl' = DL_SetMode_req(dl, "OPERATE") /\ TakeAndPost(<<>>)
    BY <1>3 DEF SmSetOperate
  <2>2. Trades({}, {})
    BY <1>1, <2>1, TakenNone
  <2>3. smCfg.backup = "CHECK_NO" \/ smReal'.id = smCfg.id
    BY <1>3 DEF PortInv, Followed, Passed
  <2> QED BY <1>1, <1>2, <1>3, <2>1, <2>2, <2>3, SetKeeps
<1>4. CASE sm = "waitForFallback" /\ ToInactive(DL_SetMode_req(dl, "INACTIVE")) /\ UNCHANGED <<smCfg, smReal>>
  <2>1. sm' = "PortInactive" /\ dl' = DL_SetMode_req(dl, "INACTIVE") /\ TakeAndPost(<<>>)
    BY <1>4 DEF ToInactive, SmEnter
  <2>2. Trades({}, {})
    BY <1>1, <2>1, TakenNone
  <2> QED BY <1>1, <1>2, <1>4, <2>1, <2>2, SetKeeps DEF Passed
<1>5. CASE sm = "wait_devmode_cnf" /\ EventCnfComlost
  BY <1>1, <1>2, <1>5, EventCnfInv
<1>6. CASE EventModeComlost
  BY <1>1, <1>2, <1>6, EventModeInv
<1> QED BY <1>3, <1>4, <1>5, <1>6 DEF SmDevmodeCnf

-----------------------------------------------------------------------------
(* The configuration reaches the SM. *)
LEMMA CfgHead ==
  ASSUME TypeInv, PortInv, Take("SM_CFG")
  PROVE  /\ Kind(Head(mbox)) = "SM_CFG" /\ Waiting("SM_CFG") /\ Configurable
         /\ sm \in SmRest /\ ~BlockOut /\ ~Among(Loud, mbox)
         /\ dl.mdh \notin {"ESTCOM", "STARTUP"} /\ ~dl.wurq
         /\ dl.mode = "STARTUP" => dl.mdh = "IDLE" /\ ~dl.event
         /\ cm = "SM_Startup" => Head(mbox).cfg = cmCfg
<1>1. mbox # <<>> /\ Head(mbox).type = "SM_CFG"
  BY DEF Take
<1>2. Kind(Head(mbox)) = "SM_CFG"
  BY <1>1, HeadKind DEF Plain, JobTypes
<1>3. Waiting("SM_CFG")
  BY <1>1, <1>2, SmFacts, AmongTail DEF Waiting, MboxTyped
<1>4. /\ Still /\ sm \in SmRest /\ dl.mdh \notin {"ESTCOM", "STARTUP"}
      /\ dl.mode = "STARTUP" => dl.mdh = "IDLE" /\ ~dl.event
  BY <1>3 DEF PortInv, Configuring
<1>5. ~dl.wurq
  BY <1>4 DEF PortInv, DlSound
<1>6. cm = "SM_Startup" => Head(mbox).cfg = cmCfg
  <2>1. 1 \in DOMAIN mbox /\ Head(mbox) = mbox[1]
    BY <1>1, SmFacts, TailFacts DEF MboxTyped
  <2>2. cm = "SM_Startup" => Told(cmCfg, mbox)
    BY DEF PortInv, Followed
  <2> QED BY <1>2, <2>1, <2>2 DEF Told
<1>7. Configurable
  BY <1>4 DEF SmRest, Configurable
<1> QED BY <1>2, <1>3, <1>4, <1>5, <1>6, <1>7 DEF Still, BlockOut

LEMMA SetPortConfigInv ==
  ASSUME TypeInv, PortInv, SmUnchanged, SmSetPortConfig PROVE PortInv'
<1> DEFINE cfg == Head(mbox).cfg
           quiet == [dl EXCEPT !.wurq = FALSE]
<1>1. mbox # <<>> /\ Take("SM_CFG") /\ smCfg' = cfg /\ smReal' = smReal
      /\ (SmCfgCom(cfg) \/ SmCfgDiDo(cfg) \/ SmCfgInactive(cfg))
  BY DEF SmSetPortConfig, Take
<1>2. /\ Kind(Head(mbox)) = "SM_CFG" /\ Waiting("SM_CFG") /\ Configurable
      /\ sm \in SmRest /\ ~BlockOut /\ ~Among(Loud, mbox)
      /\ dl.mdh \notin {"ESTCOM", "STARTUP"} /\ ~dl.wurq
      /\ dl.mode = "STARTUP" => dl.mdh = "IDLE" /\ ~dl.event
      /\ cm = "SM_Startup" => cfg = cmCfg
  BY <1>1, CfgHead
<1>3. dl \in DlRecord
  BY SmFacts
<1>4. quiet \in DlRecord /\ quiet = [dl EXCEPT !.wurq = FALSE]
  BY <1>3, DlMoreFields
<1> HIDE DEF cfg, quiet
<1>5. /\ sm' \in {"PortInactive", "DIDO", "waitForFallback"}
      /\ \E may, must : may \subseteq {"DEVMODE_CNF"} /\ Trades(may, must)
      /\ \/ /\ dl'.event /\ dl'.mode = "STARTUP" /\ sm' = "PortInactive" /\ smAux'.addr = "WURQ"
            /\ dl'.isdu = dl.isdu /\ (Engaged' => Engaged)
         \/ dl'.event /\ dl'.mode = "INACTIVE"
         \/ dl'.event = dl.event /\ dl'.mode = dl.mode /\ sm' = "waitForFallback"
            /\ sm # "PortInactive"
      /\ dl'.mdh = dl.mdh /\ dl'.lost = dl.lost /\ dl'.mh = dl.mh /\ dl'.rw = dl.rw /\ ~dl'.wurq
  <2>1. CASE SmCfgCom(cfg)
    <3>1. /\ sm' = "PortInactive" /\ dl' = DL_SetMode_req(quiet, "STARTUP") /\ TakeAndPost(<<>>)
          /\ smAux'.addr = "WURQ"
      BY <1>4, <2>1, SmFacts DEF SmCfgCom, ToInactive, SmEnter, Aux
    <3>2. Trades({}, {})
      BY <1>1, <3>1, TakenNone
    <3>3. /\ dl'.event /\ dl'.mode = "STARTUP" /\ dl'.mdh = dl.mdh /\ dl'.lost = dl.lost /\ dl'.mh = dl.mh
          /\ dl'.rw = dl.rw /\ ~dl'.wurq /\ dl'.isdu = dl.isdu /\ dl'.odh = dl.odh /\ dl'.cmdh = dl.cmdh
          /\ dl'.code = dl.code /\ dl'.cmd = dl.cmd /\ dl'.left = dl.left
      <4>1. dl' = [quiet EXCEPT !.mode = "STARTUP", !.event = TRUE]
        BY <3>1 DEF DL_SetMode_req
      <4> QED BY <1>3, <1>4, <4>1, DlShape
    <3>4. Engaged' => Engaged
      BY <3>3 DEF Engaged, Busy, CommandSettled
    <3> QED BY <3>1, <3>2, <3>3, <3>4
  <2>2. CASE SmCfgDiDo(cfg)
    <3>1. sm' = "DIDO" /\ dl' = DL_SetMode_req(quiet, "INACTIVE") /\ TakeAndPost(<<>>)
      BY <1>2, <1>4, <2>2 DEF SmCfgDiDo, SmEnter, SmRest
    <3>2. Trades({}, {})
      BY <1>1, <3>1, TakenNone
    <3>3. /\ dl'.event /\ dl'.mode = "INACTIVE" /\ dl'.mdh = dl.mdh /\ dl'.lost = dl.lost /\ dl'.mh = dl.mh
          /\ dl'.rw = dl.rw /\ ~dl'.wurq
      <4>1. dl' = [quiet EXCEPT !.mode = "INACTIVE", !.event = TRUE]
        BY <3>1 DEF DL_SetMode_req
      <4> QED BY <1>3, <1>4, <4>1, DlShape
    <3> QED BY <3>1, <3>2, <3>3
  <2>3. CASE SmCfgInactive(cfg) /\ sm \in {"PortInactive", "DIDO"}
    <3>1. sm' = "PortInactive" /\ dl' = DL_SetMode_req(dl, "INACTIVE") /\ TakeAndPost(<<>>)
      BY <2>3 DEF SmCfgInactive, ToInactive, SmEnter
    <3>2. Trades({}, {})
      BY <1>1, <3>1, TakenNone
    <3>3. /\ dl'.event /\ dl'.mode = "INACTIVE" /\ dl'.mdh = dl.mdh /\ dl'.lost = dl.lost /\ dl'.mh = dl.mh
          /\ dl'.rw = dl.rw /\ ~dl'.wurq
      BY <1>2, <1>3, <3>1, DlShape DEF DL_SetMode_req
    <3> QED BY <3>1, <3>2, <3>3
  <2>4. CASE SmCfgInactive(cfg) /\ sm \notin {"PortInactive", "DIDO"}
    <3>1. /\ sm' = "waitForFallback" /\ dl' = DL_Write_Devicemode_req(dl, "FALLBACK")
          /\ TakeAndPost(DevmodeAnswer(dl, "FALLBACK"))
      BY <2>4 DEF SmCfgInactive, SmEnter
    <3>2. PICK must : SameModes /\ Trades({"DEVMODE_CNF"}, must)
      BY <1>1, <3>1, DevmodeAsked
    <3>3. dl'.rw = dl.rw
      BY <1>1, <3>1, DevmodeAsked
    <3>4. \E may, more : may \subseteq {"DEVMODE_CNF"} /\ Trades(may, more)
      BY <3>2
    <3>5. /\ dl'.mdh = dl.mdh /\ dl'.lost = dl.lost /\ dl'.mh = dl.mh /\ ~dl'.wurq
          /\ dl'.event = dl.event /\ dl'.mode = dl.mode /\ sm # "PortInactive"
      BY <1>2, <2>4, <3>2 DEF SameModes
    <3> QED BY <3>1, <3>3, <3>4, <3>5
  <2> QED BY <1>1, <2>1, <2>2, <2>3, <2>4
<1>6. PICK may, must : may \subseteq {"DEVMODE_CNF"} /\ Trades(may, must)
  BY <1>5
<1>7. ~Among(Loud, mbox')
  <2>1. may \cap Loud = {}
    BY <1>6 DEF Loud, Calm
  <2> QED BY <1>2, <1>6, <2>1 DEF Trades
<1>8. ~Waiting("SMI_CFG")' /\ ~Waiting("SM_CFG")' /\ Single({"SMI_CFG", "SM_CFG"}, mbox')
  <2>1. ~Among({"SMI_CFG", "SM_CFG"}, mbox') /\ Single({"SMI_CFG", "SM_CFG"}, mbox')
    BY <1>2, <1>6 DEF PortInv, Configuring, Trades
  <2> QED BY <2>1 DEF Among, Waiting
<1>9. \A k \in Loud : ~Waiting(k)'
  BY <1>7 DEF Among, Waiting
<1>10. DlSound'
  BY <1>2, <1>5 DEF PortInv, DlSound
<1>11. Woken'
  <2>1. ~Waiting("MODE_STARTUP")'
    BY <1>9 DEF Loud, JobTypes, Calm
  <2>2. NoneAfter("MODE_STARTUP", Upsets, mbox)'
    BY <2>1, NoneAfterNone DEF Waiting
  <2> QED BY <1>2, <1>5, <2>1, <2>2 DEF Woken
<1>12. Asking'
  <2>1. \A K : K \subseteq Loud => ~Among(K, mbox')
    BY <1>7 DEF Among
  <2>2. /\ ~Among(Asked, mbox') /\ ~Among({"READ", "NOT_READ"}, mbox') /\ ~Among({"WRITTEN"}, mbox')
        /\ ~Among(Granted, mbox') /\ ~Among({"NOT_READ"}, mbox') /\ ~Among({"NOT_WRITTEN", "STRAY"}, mbox')
    BY <2>1 DEF Asked, Granted, Loud, Calm
  <2>3. Single(Asked, mbox')
    BY <2>2 DEF Single, Among
  <2> QED BY <1>2, <1>5, <2>2, <2>3 DEF Asking, BlockOut, Waiting
<1>13. Moded'
  BY <1>5 DEF Moded
<1>14. Serving'
  <2>1. ~Waiting("SERNUM")' /\ ~Waiting("CYCL")'
    BY <1>9 DEF Loud, Calm
  <2>2. Single({"SERNUM"}, mbox') /\ Single({"CYCL"}, mbox')
    BY <1>6 DEF PortInv, Serving, Trades
  <2>3. ~(svc # NoSvc /\ svc.index = "SERNUM") /\ ~(svc # NoSvc /\ svc.index = "CYCL")
    BY <1>2 DEF PortInv, Serving, SmRest
  <2> QED BY <2>1, <2>2, <2>3 DEF Serving, SmUnchanged
<1>15. Configuring'
  <2>1. dl'.mode = "STARTUP" /\ dl'.mdh \in {"PREOPERATE", "OPERATE"} => sm' = "PortInactive" /\ Still'
    BY <1>2, <1>5, <1>7 DEF PortInv, Configuring, Still
  <2> QED BY <1>8, <2>1 DEF Configuring
<1>16. Followed'
  <2>1. cm \notin {"DS_ParamManager", "WaitingOnOperate", "Port_Active"}
    BY <1>2 DEF PortInv, Followed
  <2>2. ~Waiting("SM_OPERATE")' /\ ~Waiting("OPERATE")'
    BY <1>9 DEF Loud, JobTypes, Calm
  <2>3. cm = "SM_Startup" => Told(cmCfg', mbox')
    BY <1>6 DEF PortInv, Followed, Trades, SmUnchanged
  <2>4. sm' \notin Passed /\ sm' \notin Late
    BY <1>5 DEF Passed, Late
  <2> QED BY <1>1, <1>2, <1>8, <2>1, <2>2, <2>3, <2>4 DEF Followed, SmUnchanged, Late, Started
<1> QED BY <1>10, <1>11, <1>12, <1>13, <1>14, <1>15, <1>16 DEF PortInv

LEMMA SmInv ==
  ASSUME TypeInv, PortInv, SmStep PROVE PortInv'
<1>1. SmJob /\ SmUnchanged
  BY DEF SmStep, SmUnchanged, cmVars
<1>2. ~SmConfigDropped
  BY CfgHead DEF SmConfigDropped
<1> QED BY <1>1, <1>2, SetPortConfigInv, ModeIndInv, ReadCnfInv, WriteCnfInv, SernumInv, OperateInv,
           CyclInv, DevmodeInv DEF SmJob

-----------------------------------------------------------------------------
(* The environment, the start, and the theorems. *)

(* A job of another kind is appended. *)
LEMMA AppendKeeps ==
  ASSUME PortInv, UNCHANGED <<sm, smAux, dl, linked>>, NEW may, NEW must, Gains(may, must),
         may \cap (Asked \cup Upsets \cup {"STRAY"}) = {}
  PROVE  DlSound' /\ Woken' /\ Asking' /\ Moded'
<1>1. DlSound'
  BY DEF PortInv, DlSound
<1>2. Waiting("MODE_STARTUP")' <=> Waiting("MODE_STARTUP")
  BY DEF Waiting, Gains, Upsets
<1>3. NoneAfter("MODE_STARTUP", Upsets, mbox)'
  <2>1. NoneAfter("MODE_STARTUP", Upsets, mbox) /\ may \cap Upsets = {} /\ "MODE_STARTUP" \in Upsets
    BY DEF PortInv, Woken, Upsets
  <2> QED BY <2>1 DEF Gains
<1>4. Woken'
  BY <1>2, <1>3 DEF PortInv, Woken
<1>5. BlockOut' <=> BlockOut
  BY DEF BlockOut
<1>6. \A K : K \subseteq Asked \cup {"STRAY"} /\ Among(K, mbox') => Among(K, mbox)
  BY DEF Gains
<1>7. Among(Asked, mbox) => Among(Asked, mbox')
  BY DEF Gains
<1>8. Single(Asked, mbox')
  BY DEF PortInv, Asking, Gains
<1>9. Ready => Ready'
  <2>1. Among(Upsets, mbox') => Among(Upsets, mbox)
    BY DEF Gains
  <2> QED BY <2>1 DEF Ready
<1>10. Asking'
  <2>1. {"READ", "NOT_READ"} \subseteq Asked /\ {"WRITTEN"} \subseteq Asked /\ Granted \subseteq Asked
        /\ {"NOT_READ"} \subseteq Asked /\ {"NOT_WRITTEN", "STRAY"} \subseteq Asked \cup {"STRAY"}
    BY DEF Asked, Granted
  <2> QED BY <1>5, <1>6, <1>8, <1>9, <2>1 DEF PortInv, Asking, Waiting
<1>11. Moded'
  BY <1>5, <1>6, <1>7 DEF PortInv, Moded, Token
<1> QED BY <1>1, <1>4, <1>10, <1>11

(* Nothing happens. *)
LEMMA UnchangedInv ==
  ASSUME PortInv, UNCHANGED <<mbox, sm, smCfg, smReal, smAux, cm, cmCfg, svc, dl, linked>>
  PROVE  PortInv'
<1>1. DlSound' /\ Moded'
  BY DEF PortInv, DlSound, Moded, Token, BlockOut
<1>2. Woken' /\ Asking'
  BY DEF PortInv, Woken, Asking, Waiting, BlockOut, Ready
<1>3. Serving' /\ Configuring'
  BY DEF PortInv, Serving, Configuring, Still, Engaged, Waiting
<1>4. Followed'
  BY DEF PortInv, Followed, Waiting
<1> QED BY <1>1, <1>2, <1>3, <1>4 DEF PortInv

(* A job that waits is of a type. *)
LEMMA WaitingJob ==
  ASSUME NEW k \in {"SMI_CFG", "SM_CFG", "COMLOST"}, Waiting(k), mbox \in Seq(PortJob)
  PROVE  \E j \in Jobs : j.type = k
<1>1. PICK i \in DOMAIN mbox : Kind(mbox[i]) = k
  BY DEF Waiting, Among
<1>2. mbox[i] \in Jobs
  BY DEF Jobs, Range
<1>3. mbox[i].type = k
  BY <1>1 DEF Kind, Requests
<1> QED BY <1>2, <1>3

-----------------------------------------------------------------------------
(* The environment. *)
LEMMA LocalChangeInv ==
  ASSUME Orderly, TypeInv, PortInv, LocalChange PROVE PortInv'
<1>1. /\ UNCHANGED <<sm, smCfg, smReal, smAux, cm, cmCfg, svc, dl, linked>> /\ ~Reconfiguring
      /\ Post(Signal("DS_UPLOAD")) \/ UNCHANGED mbox
  BY DEF LocalChange, cmVars, smVars, dlVars
<1>2. CASE UNCHANGED mbox
  BY <1>1, <1>2, UnchangedInv
<1>3. CASE Post(Signal("DS_UPLOAD"))
  <2>1. MboxTyped
    BY SmFacts
  <2>2. Signal("DS_UPLOAD") \in PortJob /\ Kind(Signal("DS_UPLOAD")) = "DS_UPLOAD"
    BY SignalJob, SignalKind DEF JobTypes
  <2>3. mbox' = mbox \o <<Signal("DS_UPLOAD")>>
    BY <1>3, <2>1, <2>2, Appended DEF Post, MboxTyped
  <2>4. Gains({"DS_UPLOAD"}, {"DS_UPLOAD"})
    BY <2>1, <2>2, <2>3, GainedOne DEF MboxTyped, GainsOne
  <2>5. DlSound' /\ Woken' /\ Asking' /\ Moded'
    BY <1>1, <2>4, AppendKeeps DEF Asked, Upsets
  <2>6. Serving' /\ Followed' /\ (\A k \in Foreign : Waiting(k)' <=> Waiting(k))
        /\ Single({"SMI_CFG", "SM_CFG"}, mbox')
    BY <1>1, <2>4, ForeignKept DEF PortInv, Configuring, SmFixed, Foreign
  <2>7. Configuring'
    <3>1. ~Waiting("SMI_CFG") /\ ~Waiting("SM_CFG")
      BY <1>1, <2>1, WaitingJob DEF Reconfiguring, MboxTyped
    <3>2. ~(dl.mode = "STARTUP" /\ dl.mdh \in {"PREOPERATE", "OPERATE"})
      BY <1>1 DEF PortInv, DlSound, Configuring, Reconfiguring
    <3> QED BY <1>1, <2>6, <3>1, <3>2 DEF Configuring, Foreign
  <2> QED BY <2>5, <2>6, <2>7 DEF PortInv
<1> QED BY <1>1, <1>2, <1>3

(* An empty mailbox. *)
LEMMA EmptyFacts ==
  ASSUME mbox = <<>> PROVE \A K : ~Among(K, mbox)
  BY DEF Among

(* The line is cut while the port is at rest: no block is being asked for. *)
LEMMA CutInv ==
  ASSUME Orderly, TypeInv, PortInv, LinkLost \/ NewDevice PROVE PortInv'
<1>1. /\ UNCHANGED <<mbox, sm, smCfg, smReal, smAux, cm, cmCfg, svc, dl>> /\ ~linked'
      /\ mbox = <<>> /\ ~BlockOut
  BY DEF LinkLost, NewDevice, Admitted, AtRest, cmVars, smVars, BlockOut
<1>2. \A K : ~Among(K, mbox)
  BY <1>1, EmptyFacts
<1>3. DlSound' /\ Moded' /\ Woken'
  BY <1>1 DEF PortInv, DlSound, Moded, Token, BlockOut, Woken, Waiting
<1>4. Asking'
  BY <1>1, <1>2 DEF PortInv, Asking, Waiting, BlockOut, Ready
<1>5. Serving' /\ Configuring'
  BY <1>1 DEF PortInv, Serving, Configuring, Still, Engaged, Waiting
<1>6. Followed'
  BY <1>1 DEF PortInv, Followed, Waiting
<1> QED BY <1>3, <1>4, <1>5, <1>6 DEF PortInv

(* The application configures the port, at rest. *)
LEMMA ConfigurationInv ==
  ASSUME Orderly, TypeInv, PortInv, SMI_PortConfiguration_req PROVE PortInv'
<1>1. UNCHANGED <<sm, smCfg, smReal, smAux, cm, cmCfg, svc, dl, linked>> /\ AtRest
  BY DEF SMI_PortConfiguration_req, Admitted, cmVars, smVars, dlVars
<1>2. PICK cfg \in Cfgs : Post(CfgJob("SMI_CFG", cfg))
  BY DEF SMI_PortConfiguration_req
<1>3. mbox = <<>> /\ MboxTyped /\ \A K : ~Among(K, mbox)
  BY <1>1, EmptyFacts, SmFacts DEF AtRest
<1>4. CfgJob("SMI_CFG", cfg) \in PortJob /\ Kind(CfgJob("SMI_CFG", cfg)) = "SMI_CFG"
  BY DsPortAssumption, CfgIsJob, CfgKind DEF JobTypes
<1>5. mbox' = mbox \o <<CfgJob("SMI_CFG", cfg)>>
  BY <1>2, <1>3, <1>4, Appended DEF Post, MboxTyped
<1>6. GainsOne("SMI_CFG")
  BY <1>3, <1>4, <1>5, GainedOne DEF MboxTyped
<1>7. Gains({"SMI_CFG"}, {"SMI_CFG"})
  BY <1>6 DEF GainsOne
<1>8. DlSound' /\ Woken' /\ Asking' /\ Moded'
  BY <1>1, <1>7, AppendKeeps DEF Asked, Upsets
<1>9. \A k : k # "SMI_CFG" => ~Waiting(k)'
  BY <1>3, <1>7 DEF Gains, Waiting
<1>10. Serving'
  <2>1. Single({"SERNUM"}, mbox') /\ Single({"CYCL"}, mbox')
    BY <1>3, <1>6 DEF GainsOne
  <2> QED BY <1>1, <1>9, <2>1 DEF PortInv, Serving
<1>11. Configuring'
  <2>1. Still'
    <3>1. ~Among(Loud, mbox')
      BY <1>3, <1>7 DEF Gains, Loud, Calm
    <3> QED BY <1>1, <3>1 DEF AtRest, Still, Engaged
  <2>2. ~Token
    BY <1>1, <1>3 DEF AtRest, Token, BlockOut
  <2>3. dl.mdh \notin {"ESTCOM", "STARTUP"}
    <3>1. dl.mdh = "STARTUP" => dl.mode = "STARTUP"
      BY <1>1 DEF PortInv, DlSound, AtRest
    <3>2. dl.mdh = "STARTUP" => sm # "PortInactive"
      BY <1>1, <1>3 DEF PortInv, Woken, AtRest, Waiting
    <3>3. dl.mode = "STARTUP" => sm = "PortInactive"
      BY <1>1, <2>2 DEF PortInv, Moded, AtRest, SmRest
    <3> QED BY <1>1, <3>1, <3>2, <3>3 DEF AtRest
  <2>4. /\ dl.mode = "STARTUP" => dl.mdh = "IDLE" /\ ~dl.event
        /\ dl.mode = "OPERATE" => dl.mdh # "PREOPERATE"
    <3>1. dl.mdh \in Mdhs
      BY SmFacts, DlFacts
    <3> QED BY <1>1, <2>3, <3>1 DEF PortInv, DlSound, AtRest, Mdhs
  <2>5. Single({"SMI_CFG", "SM_CFG"}, mbox')
    BY <1>3, <1>6 DEF GainsOne
  <2> QED BY <1>1, <2>1, <2>3, <2>4, <2>5 DEF Configuring, AtRest
<1>12. Followed'
  <2>1. Told(cmCfg, mbox') \/ cm # "SM_Startup"
    BY <1>7 DEF PortInv, Followed, Gains
  <2>2. ~Waiting("SM_CFG") /\ ~Waiting("COMLOST")
    BY <1>3 DEF Waiting
  <2> QED BY <1>1, <1>9, <2>1, <2>2 DEF PortInv, Followed
<1> QED BY <1>8, <1>10, <1>11, <1>12 DEF PortInv

LEMMA EnvironmentInv ==
  ASSUME Orderly, ~Parallel, TypeInv, PortInv, Environment PROVE PortInv'
<1>1. CASE SMI_ParServToDS_req
  <2>1. UNCHANGED <<mbox, sm, smCfg, smReal, smAux, cm, cmCfg, svc, dl, linked>>
    BY <1>1 DEF SMI_ParServToDS_req, ParServToDS, cmVars, smVars, dlVars
  <2> QED BY <2>1, UnchangedInv
<1> QED BY <1>1, DlInv, LocalChangeInv, CutInv, ConfigurationInv DEF Environment

(* The proof that PortInv is an invariant. *)
LEMMA PortStart == Init => PortInv
<1> SUFFICES ASSUME Init PROVE PortInv
  OBVIOUS
<1>1. /\ mbox = <<>> /\ cm = "Port_Deactivated" /\ sm = "PortInactive" /\ svc = NoSvc
      /\ dl.mdh = "IDLE" /\ dl.mode = "INACTIVE" /\ ~dl.lost /\ ~dl.event /\ ~dl.wurq
      /\ dl.mh = "INACTIVE" /\ dl.rw = "none" /\ ~dl.isdu
  BY DEF Init, JobsInit, CmInit, SmInit, DlInit
<1>2. \A K : ~Among(K, mbox)
  BY <1>1, EmptyFacts
<1>3. /\ \A K : Single(K, mbox)
      /\ \A k, K : NoneAfter(k, K, mbox)
      /\ \A c : Told(c, mbox)
  BY <1>1 DEF Single, NoneAfter, Told
<1>4. \A k : ~Waiting(k)
  BY <1>2 DEF Waiting
<1>5. DlSound /\ Woken /\ Moded
  BY <1>1, <1>3, <1>4 DEF DlSound, Woken, Moded
<1>6. Asking
  BY <1>1, <1>2, <1>3, <1>4 DEF Asking, BlockOut
<1>7. Serving /\ Configuring
  BY <1>1, <1>3, <1>4 DEF Serving, Configuring
<1>8. Followed
  BY <1>1, <1>3, <1>4 DEF Followed, Started, Passed
<1> QED BY <1>5, <1>6, <1>7, <1>8 DEF PortInv

LEMMA PortStep ==
  ASSUME Orderly, ~Parallel PROVE TypeInv /\ PortInv /\ [Next]_vars => PortInv'
<1> SUFFICES ASSUME TypeInv, PortInv, [Next]_vars PROVE PortInv'
  OBVIOUS
<1>1. CASE MainThread
  BY <1>1, CmInv, DsInv, SmInv, AlBusyInv, AlServiceInv, AlConfirmInv DEF MainThread
<1>2. CASE DlThread
  BY <1>2, DlInv DEF DlThread
<1>3. CASE DevAnswers
  BY <1>3, DlInv
<1>4. CASE Environment
  BY <1>4, EnvironmentInv
<1>5. CASE UNCHANGED vars
  <2>1. UNCHANGED <<mbox, sm, smCfg, smReal, smAux, cm, cmCfg, svc, dl, linked>>
    BY <1>5 DEF vars, cmVars, smVars, dlVars
  <2> QED BY <2>1, UnchangedInv
<1> QED BY <1>1, <1>2, <1>3, <1>4, <1>5 DEF Next

LEMMA PortAlways ==
  ASSUME Orderly, ~Parallel PROVE Spec => [](TypeInv /\ PortInv)
<1>1. Init => TypeInv /\ PortInv
  BY TypeStart, PortStart
<1>2. TypeInv /\ PortInv /\ [Next]_vars => (TypeInv /\ PortInv)'
  BY TypeStep, PortStep
<1> QED BY <1>1, <1>2, PTL DEF Spec

(* On a port that is configured at rest, whatever the devices, the index   *)
(* list, the configurations and the disturbances, on one core with the DL  *)
(* thread at the higher priority (~Parallel): no block is confirmed        *)
(* to the SM in a state that has no row for it. The two CC_ASSERT(0) of    *)
(* sm_DL_Read_cnf_cb and sm_DL_Write_cnf are never reached, although an    *)
(* answer can come after the event that ended what it was asked for.       *)
THEOREM NoStrayAnswer == ASSUME Orderly, ~Parallel PROVE Spec => []NoAssertion
<1>1. TypeInv /\ PortInv => NoAssertion
  <2> SUFFICES ASSUME TypeInv, PortInv, SmAsserts PROVE FALSE
    BY DEF NoAssertion
  <2>1. CASE /\ Take("DL_READ_CNF") /\ Head(mbox).res = "OK" /\ Head(mbox).index # "WURQ"
             /\ sm \notin {"ReadComParameter", "CheckComp", "CheckCompV10", "RestartDevice"}
    BY <2>1, AnswerHead DEF Take, Reading
  <2>2. CASE /\ Take("DL_WRITE_CNF") /\ Head(mbox).res = "OK"
             /\ sm \notin {"waitonDLPreoperate", "InspectionFault", "CheckVxy", "RestartDevice",
                           "waitonDLOperate"}
    BY <2>2, AnswerHead DEF Take, Writing
  <2> QED BY <2>1, <2>2 DEF SmAsserts
<1> QED BY <1>1, PortAlways, PTL

(* On such a port, and on such a core, the CM says Port_Active only when   *)
(* the SM has compared the identity of the device that is on the line with *)
(* the configuration the CM has, the last one it was given                 *)
(* (sm_checkcompatibility, cm_sm_startup), or was told not to compare; or  *)
(* when the loss of that device has been reported and waits in the mailbox.*)
THEOREM ActiveIsChecked == ASSUME Orderly, ~Parallel PROVE Spec => []ActiveMeansChecked
<1>1. TypeInv /\ PortInv => ActiveMeansChecked
  <2> SUFFICES ASSUME TypeInv, PortInv, cm = "Port_Active", ~\E j \in Jobs : j.type = "COMLOST"
               PROVE  sm = "SMOperate" /\ (cmCfg.backup = "CHECK_NO" \/ smReal.id = cmCfg.id)
    BY DEF ActiveMeansChecked
  <2>1. ~Waiting("COMLOST")
    BY SmFacts, WaitingJob DEF MboxTyped
  <2>2. sm = "SMOperate" /\ ~Waiting("SM_CFG")
    BY <2>1 DEF PortInv, Followed
  <2>3. smCfg = cmCfg
    BY <2>2 DEF PortInv, Followed, Started
  <2>4. smCfg.backup = "CHECK_NO" \/ smReal.id = smCfg.id
    BY <2>2 DEF PortInv, Followed, Passed
  <2> QED BY <2>2, <2>3, <2>4
<1> QED BY <1>1, PortAlways, PTL
=============================================================================

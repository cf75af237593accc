--------------------------- MODULE OnRequestProofs ---------------------------
(***************************************************************************)
(* Type correctness and the safety of the on-request services, for every   *)
(* set of requests, every number of retries and segments and every bound:  *)
(* nobody waits for nothing, no request is answered twice, and on a port   *)
(* with one client answers are its own and no service is lost.             *)
(***************************************************************************)
EXTENDS OnRequest, SequenceTheorems, TLAPS

(* What the DL thread may put in the mailbox. *)
DlTypes == {"READPARAM_CNF", "WRITEPARAM_CNF", "ISDU_CNF", "DL_READ_CNF",
            "MODE_STARTUP", "MODE_OPERATE", "MODE_COMLOST", "MODE_INACTIVE"}

DlJob == {j \in Job : j.type \in DlTypes /\ j.val \in Tags}

DlPosts == \E s \in Seq(DlJob) : mbox' = mbox \o s

-----------------------------------------------------------------------------
(* The mailbox. *)

LEMMA DlJobIsJob == Seq(DlJob) \subseteq Seq(Job)
  BY DEF DlJob

LEMMA SeqOne == ASSUME NEW S, NEW j \in S
                PROVE  <<j>> \in Seq(S) /\ Range(<<j>>) = {j}
  BY DEF Range

(* Appending to the mailbox adds to its jobs. *)
LEMMA PostJobs ==
  ASSUME mbox \in Seq(Job), NEW s \in Seq(Job), mbox' = mbox \o s
  PROVE  mbox' \in Seq(Job) /\ Jobs' = Jobs \cup Range(s)
  BY ConcatProperties, RangeConcatenation DEF Jobs

LEMMA PostOne ==
  ASSUME mbox \in Seq(Job), NEW j \in Job, Post(j)
  PROVE  /\ mbox' = mbox \o <<j>>
         /\ mbox' \in Seq(Job)
         /\ Jobs' = Jobs \cup {j}
  BY AppendIsConcat, SeqOne, PostJobs DEF Post

(* Taking the head and appending the jobs s. *)
LEMMA TakeJobs ==
  ASSUME mbox \in Seq(Job), mbox # <<>>, NEW s \in Seq(Job), TakeAndPost(s)
  PROVE  /\ mbox' \in Seq(Job)
         /\ Head(mbox) \in Jobs
         /\ Jobs = {Head(mbox)} \cup Range(Tail(mbox))
         /\ Jobs' = Range(Tail(mbox)) \cup Range(s)
<1>1. Tail(mbox) \in Seq(Job) /\ Head(mbox) = mbox[1]
  BY HeadTailProperties
<1>2. mbox' \in Seq(Job) /\ Jobs' = Range(Tail(mbox)) \cup Range(s)
  <2>1. mbox' = Tail(mbox) \o s
    BY DEF TakeAndPost
  <2>2. Tail(mbox) \o s \in Seq(Job)
    BY <1>1, ConcatProperties
  <2>3. Range(Tail(mbox) \o s) = Range(Tail(mbox)) \cup Range(s)
    BY <1>1, RangeConcatenation
  <2> QED BY <2>1, <2>2, <2>3 DEF Jobs
<1>3. Jobs = {mbox[i] : i \in 1 .. Len(mbox)}
  BY RangeEquality DEF Jobs
<1>4. Range(Tail(mbox)) = {mbox[i] : i \in 2 .. Len(mbox)}
  <2>1. Range(Tail(mbox)) = {Tail(mbox)[i] : i \in 1 .. Len(Tail(mbox))}
    BY <1>1, RangeEquality
  <2>2. Len(Tail(mbox)) = Len(mbox) - 1 /\ \A i \in 1 .. Len(Tail(mbox)) : Tail(mbox)[i] = mbox[i + 1]
    BY HeadTailProperties
  <2>3. Len(mbox) \in Nat /\ Len(mbox) > 0
    BY EmptySeq, LenProperties
  <2>4. ASSUME NEW i \in 2 .. Len(mbox) PROVE mbox[i] \in Range(Tail(mbox))
    <3>1. i - 1 \in 1 .. Len(Tail(mbox)) /\ (i - 1) + 1 = i
      BY <2>2, <2>3, <2>4
    <3> QED BY <2>1, <2>2, <3>1
  <2>5. ASSUME NEW i \in 1 .. Len(Tail(mbox)) PROVE Tail(mbox)[i] \in {mbox[k] : k \in 2 .. Len(mbox)}
    BY <2>2, <2>3, <2>5
  <2> QED BY <2>1, <2>4, <2>5
<1>5. Len(mbox) \in Nat /\ Len(mbox) > 0
  BY EmptySeq, LenProperties
<1> QED BY <1>1, <1>2, <1>3, <1>4, <1>5

-----------------------------------------------------------------------------
(* The inductive invariant behind TypeOK. *)

(* What TypeOK does not say of the jobs and of the request being served. *)
WellFormed(j) ==
    /\ j.type = "SMI_RW" => j.req \in Reqs
    /\ j.type = "READPARAM_CNF" => j.val \in Tags

JobsWellFormed ==
    /\ \A j \in Jobs : WellFormed(j)
    /\ ode = "ODblocked" => odeReq \in Reqs

(* While the message handler runs a cycle, it has a retry left; a handler  *)
(* that is half done is the one of the OPERATE cycle, or has a command to  *)
(* clear, which only a main thread that runs beside it can notice.         *)
RetryBounded ==
    /\ \/ mh \notin {"INACTIVE_0", "STARTUP_2", "OPERATE_12"}
       \/ dlPc \in Clears \ {"clearLost"}
       => retry <= MaxRetry
    /\ dlPc \in {"master", "comlost"} => mh = "AW_REPLY_16"
    /\ dlPc = "clearMessage" => mh \in {"GETOD_7", "OPERATE_12", "AW_REPLY_16"}
    /\ dlPc \in Clears => mh \notin {"INACTIVE_0", "STARTUP_2"}
    /\ dlPc \in Clears \cup Leaves => Parallel

TypeInv == TypeOK /\ JobsWellFormed /\ RetryBounded

IsduTyped ==
    /\ isdu \in IsduStates
    /\ isduReq \in Ids \cup {NoReq}
    /\ totSeg \in 0 .. Segs
    /\ curSeg \in Nat
    /\ elapsed \in BOOLEAN
    /\ msg \in Messages
    /\ rwcmd \in RwCmds
    /\ served \subseteq Ids
    /\ alData \in Tags /\ alLen \in Lengths

LEMMA TypeFacts ==
  ASSUME TypeInv
  PROVE  /\ mbox \in Seq(Job) /\ IsduTyped
         /\ alState \in AlStates /\ alSvc \in Service
  BY DEF TypeInv, TypeOK, JobsTypeOK, DlTypeOK, IsduTyped

LEMMA NoPosts == ASSUME mbox \in Seq(Job), UNCHANGED mbox PROVE DlPosts
<1>1. <<>> \in Seq(DlJob) /\ mbox \o <<>> = mbox
  BY EmptySeq, ConcatEmptySeq
<1> QED BY <1>1 DEF DlPosts

LEMMA OnePost == ASSUME mbox \in Seq(Job), NEW j \in DlJob, Post(j) PROVE DlPosts
  BY PostOne, SeqOne DEF DlPosts, DlJob

LEMMA DlCnfIsDlJob ==
  ASSUME NEW type \in {"READPARAM_CNF", "WRITEPARAM_CNF", "ISDU_CNF", "DL_READ_CNF"},
         NEW res \in Results, NEW val \in Tags
  PROVE  DlCnf(type, res, val) \in DlJob
  BY DEF DlCnf, MkJob, DlJob, Job, JobTypes, DlTypes, Clients, AllKinds, ReadKinds, WriteKinds

LEMMA SignalIsDlJob ==
  ASSUME NEW type \in {"MODE_STARTUP", "MODE_OPERATE", "MODE_COMLOST", "MODE_INACTIVE"}
  PROVE  Signal(type) \in DlJob
  BY DEF Signal, MkJob, DlJob, Job, JobTypes, DlTypes, Clients, AllKinds, Results, Tags

LEMMA TransportCnf ==
  ASSUME TypeInv, NEW outcome \in {"POS", "NEG", "ERROR"}, DL_ISDUTransport_cnf(outcome)
  PROVE  DlPosts /\ alData' \in Tags /\ alLen' \in Lengths
<1>1. DlPosts
  <2>1. DlCnf("ISDU_CNF", IF outcome = "POS" THEN "OK" ELSE "ERR", "none") \in DlJob
    BY DlCnfIsDlJob DEF Results, Tags
  <2> QED BY <2>1, OnePost, TypeFacts DEF DL_ISDUTransport_cnf
<1>2. alData' \in Tags /\ alLen' \in Lengths
  BY TypeFacts DEF DL_ISDUTransport_cnf, IsduTyped, Tags, Lengths
<1> QED BY <1>1, <1>2

LEMMA IsduError4Type ==
  ASSUME TypeInv, IsduError4
  PROVE  DlPosts /\ IsduTyped'
  BY TransportCnf, TypeFacts, DlAssumption
     DEF IsduError4, After, IsduTyped, Messages, RwCmds, IsduStates

LEMMA ReceptionCompleteType ==
  ASSUME TypeInv, ReceptionComplete
  PROVE  DlPosts /\ IsduTyped'
<1>1. PICK outcome \in {"POS", "NEG", "ERROR"} :
        /\ DL_ISDUTransport_cnf(outcome)
        /\ served' = IF outcome = "POS" THEN served \cup ({isduReq} \ {NoReq}) ELSE served
  BY DEF ReceptionComplete
<1>2. DlPosts /\ alData' \in Tags /\ alLen' \in Lengths
  BY <1>1, TransportCnf
<1>3. served' \subseteq Ids
  BY <1>1, TypeFacts DEF IsduTyped
<1>4. totSeg' \in 0 .. Segs /\ curSeg' \in Nat
  BY TypeFacts, DlAssumption DEF ReceptionComplete, After, IsduTyped
<1>5. /\ isdu' \in IsduStates /\ isduReq' \in Ids \cup {NoReq} /\ elapsed' \in BOOLEAN
      /\ msg' \in Messages /\ rwcmd' \in RwCmds
  BY TypeFacts DEF ReceptionComplete, After, IsduTyped, RwCmds, IsduStates
<1> QED
  BY <1>2, <1>3, <1>4, <1>5 DEF IsduTyped

LEMMA QuietType ==
  ASSUME TypeInv, IsduQuiet
  PROVE  DlPosts /\ IsduTyped'
  BY NoPosts, TypeFacts DEF IsduQuiet, IsduTyped

LEMMA EnterIsduError4Type ==
  ASSUME TypeInv, EnterIsduError4
  PROVE  DlPosts /\ IsduTyped'
  BY NoPosts, TypeFacts DEF EnterIsduError4, IsduTyped, IsduStates

LEMMA NextMessageType ==
  ASSUME TypeInv, NEW m \in Messages, NextMessage(m)
  PROVE  DlPosts /\ IsduTyped'
  BY NoPosts, TypeFacts DEF NextMessage, IsduTyped

LEMMA IsduMasterType ==
  ASSUME TypeInv, IsduMaster
  PROVE  DlPosts /\ IsduTyped'
<1>1. CASE IsduMasterIdle
  <2>1. IdleMsg \in Messages /\ [what |-> "readparam", of |-> dataAddr] \in Messages
          /\ [what |-> "writeparam", of |-> dataAddr] \in Messages
    BY DEF TypeInv, TypeOK, DlTypeOK, Messages, IdleMsg
  <2>2. CASE rwcmd = "ISDUTRANSPORT"
    BY <1>1, <2>2, NoPosts, TypeFacts DEF IsduMasterIdle, IsduTyped, Messages, IsduStates
  <2>3. CASE rwcmd # "ISDUTRANSPORT"
    BY <1>1, <2>1, <2>3, NextMessageType DEF IsduMasterIdle
  <2> QED BY <2>2, <2>3
<1>2. CASE isdu = "ISDUREQUEST_2" /\ mhinfo # "COMLOST"
  BY <1>2, NoPosts, TypeFacts DEF IsduMaster, IsduMasterIdle, IsduTyped, Messages
<1>3. CASE IsduError4
  BY <1>3, IsduError4Type
<1>4. CASE \E m \in Messages : NextMessage(m)
  BY <1>4, NextMessageType
<1>5. [what |-> "isdu", of |-> isduReq] \in Messages /\ msg \in Messages
  BY TypeFacts DEF IsduTyped, Messages
<1> QED BY <1>1, <1>2, <1>3, <1>4, <1>5 DEF IsduMaster

LEMMA IsduDeviceType ==
  ASSUME TypeInv, IsduDevice
  PROVE  DlPosts /\ IsduTyped'
<1>1. CASE IsduDeviceIdle
  <2>1. RxOctet \in Tags /\ Written \subseteq Ids
    BY TypeFacts DEF RxOctet, Written, IsduTyped, Messages, Tags
  <2>2. CASE rwcmd = "READPARAM"
    <3>1. DlCnf("READPARAM_CNF", "OK", RxOctet) \in DlJob
      BY <2>1, DlCnfIsDlJob DEF Results
    <3> QED BY <1>1, <2>2, <3>1, OnePost, TypeFacts DEF IsduDeviceIdle, After, IsduTyped, RwCmds
  <2>3. CASE rwcmd = "WRITEPARAM"
    <3>1. DlCnf("WRITEPARAM_CNF", "OK", "none") \in DlJob
      BY DlCnfIsDlJob DEF Results, Tags
    <3> QED BY <1>1, <2>1, <2>3, <3>1, OnePost, TypeFacts DEF IsduDeviceIdle, After, IsduTyped, RwCmds
  <2>4. CASE rwcmd \in {"NONE", "READ", "ISDUTRANSPORT"}
    BY <1>1, <2>1, <2>4, NoPosts, TypeFacts DEF IsduDeviceIdle, IsduTyped
  <2> QED BY <1>1, <2>2, <2>3, <2>4 DEF IsduDeviceIdle
<1>2. CASE IsduDeviceRequest
  <2>1. CASE curSeg >= totSeg
    <3>1. /\ isdu' = "ISDUWAIT_3" /\ curSeg' = 0 /\ elapsed' = FALSE
          /\ UNCHANGED <<mbox, alData, alLen, isduReq, totSeg, msg, rwcmd, served>>
      BY <1>2, <2>1 DEF IsduDeviceRequest
    <3> QED BY <3>1, NoPosts, TypeFacts DEF IsduTyped, IsduStates
  <2>2. CASE ~(curSeg >= totSeg)
    BY <1>2, <2>2, QuietType DEF IsduDeviceRequest
  <2> QED BY <2>1, <2>2
<1>3. CASE IsduDeviceWait
  <2>1. CASE \E n \in 2 .. Segs :
               /\ totSeg' = n /\ curSeg' = 1 /\ elapsed' = FALSE
               /\ isdu' = "ISDURESPONSE_5"
               /\ UNCHANGED <<mbox, alData, alLen, isduReq, msg, rwcmd, served>>
    <3>1. totSeg' \in 0 .. Segs /\ curSeg' \in Nat
      BY <2>1, DlAssumption
    <3>2. UNCHANGED mbox
      BY <2>1
    <3> QED BY <2>1, <3>1, <3>2, NoPosts, TypeFacts DEF IsduTyped, IsduStates
  <2> QED BY <1>3, <2>1, QuietType, EnterIsduError4Type, ReceptionCompleteType DEF IsduDeviceWait
<1>4. CASE IsduDeviceResponse
  BY <1>4, NoPosts, ReceptionCompleteType, TypeFacts DEF IsduDeviceResponse, IsduTyped
<1> QED
  BY <1>1, <1>2, <1>3, <1>4, IsduError4Type, EnterIsduError4Type, QuietType DEF IsduDevice

LEMMA OdMasterType ==
  ASSUME TypeInv, OdMaster
  PROVE  DlPosts /\ IsduTyped' /\ od' \in OdStates
<1>1. [what |-> "event", of |-> NoReq] \in Messages /\ msg \in Messages
  BY TypeFacts DEF IsduTyped, Messages
<1> QED
  BY <1>1, IsduMasterType, NextMessageType DEF OdMaster, OdStates

LEMMA OdDeviceType ==
  ASSUME TypeInv, NEW flag \in BOOLEAN, OdDevice(flag)
  PROVE  DlPosts /\ IsduTyped' /\ od' \in OdStates
  BY IsduDeviceType, QuietType DEF OdDevice, OdStates

-----------------------------------------------------------------------------
(* The actions of the DL thread keep the types.                            *)

DlTyped == DlTypeOK /\ RetryBounded /\ alData \in Tags /\ alLen \in Lengths

LEMMA DlTypedFacts == ASSUME TypeInv PROVE DlTyped /\ mbox \in Seq(Job)
  BY DEF TypeInv, TypeOK, JobsTypeOK, DlTyped

(* Actions in which the OD handler runs. *)
LEMMA OdActionsType ==
  ASSUME TypeInv,
         DlReply \/ DlNextMessage \/ DlSendWriteParam \/ DlReply9 \/ DlGetOd7 \/ DlFirstMessage
  PROVE  DlPosts /\ DlTyped'
<1> USE DlAssumption, DlTypedFacts
<1>1. ASSUME DlReply \/ DlReply9
      PROVE  DlPosts /\ IsduTyped' /\ od' \in OdStates /\ evs' \in 0 .. MaxEvents
               /\ evFlag' \in BOOLEAN
  <2>1. PICK flag \in BOOLEAN : EventFlag(flag) /\ OdDevice(flag)
    BY <1>1 DEF DlReply, DlReply9
  <2>2. evs' \in 0 .. MaxEvents /\ evFlag' \in BOOLEAN
    BY <2>1 DEF EventFlag, DlTyped, DlTypeOK
  <2> QED BY <2>1, <2>2, OdDeviceType
<1>2. ASSUME DlNextMessage \/ DlSendWriteParam \/ DlGetOd7 \/ DlFirstMessage
      PROVE  DlPosts /\ IsduTyped' /\ od' \in OdStates /\ evs' \in 0 .. MaxEvents
               /\ evFlag' \in BOOLEAN
  <2>1. OdMaster /\ UNCHANGED <<evs, evFlag>>
    BY <1>2 DEF DlNextMessage, DlSendWriteParam, DlGetOd7, DlFirstMessage, boundVars
  <2> QED BY <2>1, OdMasterType DEF DlTyped, DlTypeOK
<1>3. /\ UNCHANGED <<mdh, dlMode, mhinfo, mdhEv, dataAddr, errs>>
      /\ retry' \in 0 .. MaxRetry + 1
      /\ mh' \in MhStates
      /\ dlPc' \in {"wait", "master"} \cup Clears
  BY DEF DlReply, DlNextMessage, DlSendWriteParam, DlReply9, DlGetOd7, DlFirstMessage,
         ClearFirst, Clears, modeVars, boundVars, DlTyped, DlTypeOK, MhStates
<1>4. RetryBounded'
  BY DEF DlReply, DlNextMessage, DlSendWriteParam, DlReply9, DlGetOd7, DlFirstMessage, InCycle,
         ClearFirst, Clears, Leaves, DlTyped, DlTypeOK, RetryBounded
<1>5. DlPosts /\ IsduTyped' /\ od' \in OdStates /\ evs' \in 0 .. MaxEvents
        /\ evFlag' \in BOOLEAN
  BY <1>1, <1>2
<1> QED BY <1>3, <1>4, <1>5 DEF IsduTyped, DlTyped, DlTypeOK

(* Receive errors, and what follows from them. *)
LEMMA ErrorActionsType ==
  ASSUME TypeInv,
         DlRxError16 \/ DlRxError9 \/ DlComLost \/ DlErrorHandling10 \/ DlClear \/ IsduTimer
  PROVE  DlPosts /\ DlTyped'
<1> USE DlAssumption, DlTypedFacts
<1>1. DlPosts
  <2>1. CASE DlErrorHandling10
    <3>1. DlCnf("READPARAM_CNF", "ERR", "none") \in DlJob
            /\ DlCnf("WRITEPARAM_CNF", "ERR", "none") \in DlJob
      BY DlCnfIsDlJob DEF Results, Tags
    <3>2. \/ UNCHANGED mbox
          \/ Post(DlCnf("READPARAM_CNF", "ERR", "none"))
          \/ Post(DlCnf("WRITEPARAM_CNF", "ERR", "none"))
      BY <2>1 DEF DlErrorHandling10
    <3> QED BY <3>1, <3>2, NoPosts, OnePost
  <2>2. CASE ~DlErrorHandling10
    BY <2>2, NoPosts DEF DlRxError16, DlRxError9, DlComLost, DlClear, IsduTimer
  <2> QED BY <2>1, <2>2
<1>2. /\ UNCHANGED <<mdh, dlMode, dataAddr, evFlag, od, isduReq, msg, served, evs, alData,
                     alLen>>
      /\ elapsed' \in BOOLEAN
      /\ rwcmd' \in RwCmds
      /\ mhinfo' \in {"NONE", "COMLOST"} /\ mdhEv' \in BOOLEAN
  BY DEF DlRxError16, DlRxError9, DlComLost, DlErrorHandling10, DlClear, IsduTimer,
         HandleComLost, modeVars, isduVars, boundVars, DlTyped, DlTypeOK, RwCmds
<1>3. errs' \in 0 .. MaxErrors
  BY DEF DlRxError16, DlRxError9, DlComLost, DlErrorHandling10, DlClear, IsduTimer, RxError,
         boundVars, DlTyped, DlTypeOK
<1>4. isdu' \in IsduStates /\ totSeg' \in 0 .. Segs /\ curSeg' \in Nat
  BY DEF DlRxError16, DlRxError9, DlComLost, DlErrorHandling10, DlClear, IsduTimer,
         isduVars, DlTyped, DlTypeOK, IsduStates
<1>5. /\ mh' \in MhStates
      /\ retry' \in 0 .. MaxRetry + 1
      /\ dlPc' \in {"wait", "master", "comlost"} \cup Clears \cup Leaves
      /\ RetryBounded'
  <2>1. CASE DlErrorHandling10
    BY <2>1 DEF DlErrorHandling10, HandleComLost, modeVars, DlTyped, DlTypeOK, MhStates,
                RetryBounded, Clears, Leaves
  <2>2. CASE DlClear
    BY <2>2 DEF DlClear, DlTyped, DlTypeOK, MhStates, RetryBounded, Clears, Leaves
  <2>3. CASE DlRxError16 \/ DlRxError9
    BY <2>3 DEF DlRxError16, DlRxError9, InCycle, DlTyped, DlTypeOK, MhStates, RetryBounded,
                Clears, Leaves
  <2>4. CASE DlComLost
    BY <2>4 DEF DlComLost, HandleComLost, DlTyped, DlTypeOK, MhStates, RetryBounded, Clears, Leaves
  <2>5. CASE IsduTimer
    BY <2>5 DEF IsduTimer, DlTyped, DlTypeOK, MhStates, RetryBounded, Clears, Leaves
  <2> QED BY <2>1, <2>2, <2>3, <2>4, <2>5
<1> QED BY <1>1, <1>2, <1>3, <1>4, <1>5 DEF DlTyped, DlTypeOK

LEMMA IhInactiveType ==
  ASSUME TypeInv, IhInactive
  PROVE  /\ isdu' \in IsduStates /\ totSeg' \in 0 .. Segs
         /\ isduReq' \in Ids \cup {NoReq} /\ curSeg' \in Nat /\ elapsed' \in BOOLEAN
<1>1. isdu' \in IsduStates
  BY TypeFacts DEF IhInactive, IsduTyped, IsduStates
<1>2. totSeg' \in 0 .. Segs
  BY TypeFacts, DlAssumption DEF IhInactive, IsduTyped
<1> QED BY <1>1, <1>2, TypeFacts DEF IhInactive, IsduTyped

LEMMA IhActiveType ==
  ASSUME TypeInv, IhActive
  PROVE  /\ isdu' \in IsduStates /\ totSeg' \in 0 .. Segs
         /\ isduReq' \in Ids \cup {NoReq} /\ curSeg' \in Nat /\ elapsed' \in BOOLEAN
<1>1. isdu' \in IsduStates
  BY TypeFacts DEF IhActive, IsduTyped, IsduStates
<1>2. totSeg' \in 0 .. Segs /\ curSeg' \in Nat
  BY TypeFacts, DlAssumption DEF IhActive, IsduTyped
<1> QED BY <1>1, <1>2, TypeFacts DEF IhActive, IsduTyped

(* A mode indication, after the confirmation of an interrupted transfer. *)
LEMMA ModeIndication ==
  ASSUME mbox \in Seq(Job),
         NEW type \in {"MODE_STARTUP", "MODE_OPERATE", "MODE_COMLOST", "MODE_INACTIVE"},
         NEW cnf \in {<<>>, IhInactiveCnf}, mbox' = mbox \o cnf \o <<Signal(type)>>
  PROVE  DlPosts
<1>1. Signal(type) \in DlJob /\ DlCnf("ISDU_CNF", "ERR", "none") \in DlJob
  BY SignalIsDlJob, DlCnfIsDlJob DEF Results, Tags
<1>2. cnf \in Seq(DlJob) /\ <<Signal(type)>> \in Seq(DlJob)
  <2>1. cnf \in {<<>>, <<DlCnf("ISDU_CNF", "ERR", "none")>>}
    BY DEF IhInactiveCnf
  <2>2. /\ <<DlCnf("ISDU_CNF", "ERR", "none")>> \in Seq(DlJob)
        /\ <<Signal(type)>> \in Seq(DlJob)
    BY <1>1, SeqOne
  <2> QED BY <2>1, <2>2, EmptySeq
<1>3. cnf \o <<Signal(type)>> \in Seq(DlJob)
  BY <1>2, ConcatProperties
<1>4. cnf \in Seq(Job) /\ <<Signal(type)>> \in Seq(Job)
  BY <1>2, DlJobIsJob
<1>5. mbox' = mbox \o (cnf \o <<Signal(type)>>)
  BY <1>4, ConcatAssociative
<1> QED BY <1>3, <1>5 DEF DlPosts

LEMMA GotoIdleType ==
  ASSUME TypeInv, NEW mode, NEW cnf \in {<<>>, IhInactiveCnf}, NEW pending \in BOOLEAN,
         GotoIdle(mode, cnf, pending)
  PROVE  /\ DlPosts
         /\ mdh' \in ModeStates /\ mhinfo' \in {"NONE", "COMLOST"} /\ mdhEv' \in BOOLEAN
         /\ mh' \in MhStates /\ mh' \in {mh, "INACTIVE_0"}
         /\ od' \in OdStates
         /\ IhInactive /\ UNCHANGED dlMode
<1>1. DlPosts
  <2>1. \E type \in {"MODE_COMLOST", "MODE_INACTIVE"} : mbox' = mbox \o cnf \o <<Signal(type)>>
    BY DEF GotoIdle
  <2> QED BY <2>1, ModeIndication, DlTypedFacts
<1> QED BY <1>1, DlTypedFacts
        DEF GotoIdle, DlTyped, DlTypeOK, ModeStates, MhStates, OdStates

LEMMA GotoStartupType ==
  ASSUME TypeInv, NEW cnf \in {<<>>, IhInactiveCnf}, NEW pending \in BOOLEAN,
         GotoStartup(cnf, pending)
  PROVE  /\ DlPosts
         /\ mdh' \in ModeStates /\ mdhEv' \in BOOLEAN
         /\ mh' \in MhStates /\ mh' \in {mh, "STARTUP_2"}
         /\ od' \in OdStates
         /\ IhInactive /\ UNCHANGED <<dlMode, mhinfo>>
<1>1. DlPosts
  <2>1. mbox' = mbox \o cnf \o <<Signal("MODE_STARTUP")>>
    BY DEF GotoStartup
  <2> QED BY <2>1, ModeIndication, DlTypedFacts
<1> QED BY <1>1, DlTypedFacts
        DEF GotoStartup, DlTyped, DlTypeOK, ModeStates, MhStates, OdStates

LEMMA ModeHandlerType ==
  ASSUME TypeInv, DlModeHandler
  PROVE  DlPosts /\ DlTyped'
<1> USE DlAssumption, DlTypedFacts
<1> DEFINE Goal == /\ DlPosts
                   /\ mdh' \in ModeStates /\ mhinfo' \in {"NONE", "COMLOST"} /\ mdhEv' \in BOOLEAN
                   /\ mh' \in MhStates /\ mh' \in {mh, "INACTIVE_0", "STARTUP_2", "OPERATE_12"}
                   /\ od' \in OdStates
                   /\ UNCHANGED dlMode
                   /\ isdu' \in IsduStates /\ totSeg' \in 0 .. Segs
                   /\ isduReq' \in Ids \cup {NoReq} /\ curSeg' \in Nat /\ elapsed' \in BOOLEAN
<1>1. /\ dlPc \in {"wait"} \cup Leaves
      /\ dlPc' \in {"wait"} \cup Leaves /\ (dlPc' \in Leaves => Parallel)
      /\ UNCHANGED <<retry, rwcmd, dataAddr, evFlag, msg, served, errs, evs, alData, alLen>>
  BY DEF DlModeHandler, ModeIdle, ModeEstCom, ModeStartup, ModeOperate, ModeStep, ModeConfirm,
         ModeLeave, ConfirmsFirst, Leave, Leaves, NotOfMode, boundVars, DlTyped, DlTypeOK, DlModes
<1>2. ASSUME NEW mode, NEW cnf \in {<<>>, IhInactiveCnf}, NEW pending \in BOOLEAN,
             GotoIdle(mode, cnf, pending) \/ GotoStartup(cnf, pending)
      PROVE  Goal
  BY <1>2, GotoIdleType, GotoStartupType, IhInactiveType DEF DlTyped, DlTypeOK
<1>3. ASSUME UNCHANGED <<dlMode, mhinfo, mh, od, isduVars, mbox>>,
             mdh' \in ModeStates, mdhEv' \in BOOLEAN
      PROVE  Goal
  BY <1>3, NoPosts DEF DlTyped, DlTypeOK, isduVars
<1>4. ASSUME ModeIdle \/ ModeEstCom PROVE Goal
  <2>1. /\ UNCHANGED <<dlMode, mhinfo, mh, od, isduVars, mbox>>
        /\ mdh' \in ModeStates /\ mdhEv' \in BOOLEAN
    BY <1>4 DEF ModeIdle, ModeEstCom, DlTyped, DlTypeOK, ModeStates
  <2> QED BY <1>3, <2>1
<1>5. ASSUME ModeStartup PROVE Goal
  <2>1. CASE dlMode = "OPERATE"
    <3>1. DlPosts
      <4>1. Post(Signal("MODE_OPERATE"))
        BY <1>5, <2>1 DEF ModeStartup
      <4> QED BY <4>1, SignalIsDlJob, OnePost
    <3>2. IhActive /\ od' = "ISDU_1" /\ mdh' = "OPERATE_4" /\ mdhEv' = FALSE
            /\ UNCHANGED <<dlMode, mhinfo>> /\ mh' \in {mh, "OPERATE_12"}
      BY <1>5, <2>1 DEF ModeStartup
    <3> QED BY <3>1, <3>2, IhActiveType DEF DlTyped, DlTypeOK, ModeStates, MhStates, OdStates
  <2>2. CASE \E mode : GotoIdle(mode, IhInactiveCnf, FALSE)
    BY <2>2, <1>2
  <2>3. CASE mdhEv' = FALSE /\ UNCHANGED <<mdh, dlMode, mhinfo, mh, od, isduVars, mbox>>
    <3>1. mdh' \in ModeStates
      BY <2>3 DEF DlTyped, DlTypeOK
    <3> QED BY <1>3, <2>3, <3>1
  <2> QED BY <1>5, <2>1, <2>2, <2>3 DEF ModeStartup
<1>6. ASSUME ModeOperate PROVE Goal
  <2>1. CASE GotoStartup(IhInactiveCnf, FALSE)
    BY <2>1, <1>2
  <2>2. CASE \E mode : GotoIdle(mode, IhInactiveCnf, FALSE)
    BY <2>2, <1>2
  <2>3. CASE mdhEv' = FALSE /\ UNCHANGED <<mdh, dlMode, mhinfo, mh, od, isduVars, mbox>>
    <3>1. mdh' \in ModeStates
      BY <2>3 DEF DlTyped, DlTypeOK
    <3> QED BY <1>3, <2>3, <3>1
  <2> QED BY <1>6, <2>1, <2>2, <2>3 DEF ModeOperate
<1>7. ASSUME ModeConfirm PROVE Goal
  <2>1. DlCnf("ISDU_CNF", "ERR", "none") \in DlJob
    BY DlCnfIsDlJob DEF Results, Tags
  <2>2. DlPosts
    BY <1>7, <2>1, OnePost DEF ModeConfirm
  <2> QED BY <1>7, <2>2 DEF ModeConfirm, DlTyped, DlTypeOK, isduVars
<1>8. ASSUME ModeLeave PROVE Goal
  <2>1. mdhEv \in BOOLEAN
    BY DEF DlTyped, DlTypeOK
  <2> QED BY <1>2, <1>8, <2>1 DEF ModeLeave
<1>9. Goal
  BY <1>4, <1>5, <1>6, <1>7, <1>8 DEF DlModeHandler
<1>10. RetryBounded'
  BY <1>1, <1>9 DEF DlTyped, RetryBounded, Clears, Leaves
<1> QED BY <1>1, <1>9, <1>10 DEF DlTyped, DlTypeOK

(* The wake-up and the exchange of the start-up. *)
LEMMA StartupType ==
  ASSUME TypeInv, DlWurq \/ DlStartupReply
  PROVE  DlPosts /\ DlTyped'
<1> USE DlAssumption, DlTypedFacts
<1>1. DlPosts
  <2>1. /\ Signal("MODE_STARTUP") \in DlJob /\ Signal("MODE_INACTIVE") \in DlJob
        /\ DlCnf("DL_READ_CNF", "OK", "none") \in DlJob
        /\ DlCnf("DL_READ_CNF", "ERR", "none") \in DlJob
    BY SignalIsDlJob, DlCnfIsDlJob DEF Results, Tags
  <2> QED BY <2>1, OnePost DEF DlWurq, DlStartupReply
<1>2. /\ dlPc = "wait"
      /\ UNCHANGED <<dlMode, retry, dataAddr, evFlag, od, isdu, isduReq, totSeg, curSeg,
                     elapsed, msg, dlPc, served, evs, alData, alLen>>
      /\ mdh' \in ModeStates /\ mhinfo' \in {"NONE", "COMLOST"} /\ mdhEv' \in BOOLEAN
      /\ rwcmd' \in RwCmds
      /\ mh' \in MhStates /\ mh' \in {mh, "INACTIVE_0", "STARTUP_2"}
  BY DEF DlWurq, DlStartupReply, isduVars, DlTyped, DlTypeOK, ModeStates, MhStates, RwCmds
<1>3. errs' \in 0 .. MaxErrors
  BY DEF DlWurq, DlStartupReply, RxError, DlTyped, DlTypeOK
<1>4. RetryBounded'
  BY <1>2 DEF DlTyped, RetryBounded, Clears, Leaves
<1> QED BY <1>1, <1>2, <1>3, <1>4 DEF DlTyped, DlTypeOK

-----------------------------------------------------------------------------
(* The steps of the DL thread, the main thread and the application keep    *)
(* TypeInv.                                                                *)

LEMMA DlPostsJobs ==
  ASSUME TypeInv, DlPosts
  PROVE  /\ mbox' \in Seq(Job)
         /\ Jobs \subseteq Jobs'
         /\ \A j \in Jobs' : WellFormed(j) /\ (j \in Jobs \/ j.type \in DlTypes)
<1>1. PICK s \in Seq(DlJob) : mbox' = mbox \o s
  BY DEF DlPosts
<1>2. mbox' \in Seq(Job) /\ Jobs' = Jobs \cup Range(s)
  BY <1>1, PostJobs, DlJobIsJob, TypeFacts
<1>3. Range(s) \subseteq DlJob
  BY RangeOfSeq
<1>4. \A j \in DlJob : j.type \in DlTypes /\ j.type # "SMI_RW" /\ j.val \in Tags
  BY DEF DlJob, DlTypes
<1> QED BY <1>2, <1>3, <1>4 DEF TypeInv, JobsWellFormed, WellFormed

LEMMA DlStepType ==
  ASSUME TypeInv, DlStep
  PROVE  TypeInv' /\ DlPosts /\ UNCHANGED <<alState, alSvc>>
<1>1. DlPosts /\ DlTyped'
  BY OdActionsType, ErrorActionsType, ModeHandlerType, StartupType
     DEF DlStep, DlThread, DlCycle, DlModeHandler
<1>2. UNCHANGED <<alState, alSvc>>
  BY DEF DlStep, DlThread, DlCycle, DlModeHandler, DlReply, DlNextMessage, DlSendWriteParam,
         DlComLost, DlReply9, DlGetOd7, DlErrorHandling10, DlFirstMessage, DlRxError16,
         DlRxError9, DlClear, ModeIdle, ModeEstCom, ModeStartup, ModeOperate, ModeStep,
         ModeConfirm, ModeLeave, NotOfMode, DlWurq, DlStartupReply, IsduTimer
<1>3. UNCHANGED <<dlCall, odeVars, portVars, ds, appVars>>
  BY DEF DlStep
<1>4. JobsTypeOK'
  BY <1>1, <1>2, DlPostsJobs DEF TypeInv, TypeOK, JobsTypeOK, DlTyped
<1>5. OdTypeOK'
  BY <1>3 DEF TypeInv, TypeOK, OdTypeOK, odeVars, portVars, appVars
<1>6. JobsWellFormed'
  BY <1>1, <1>3, DlPostsJobs DEF TypeInv, JobsWellFormed, odeVars
<1> QED BY <1>1, <1>2, <1>4, <1>5, <1>6 DEF TypeInv, TypeOK, DlTyped

LEMMA DlUnchanged == ASSUME TypeInv, UNCHANGED dlVars PROVE DlTypeOK' /\ RetryBounded'
  BY DEF TypeInv, TypeOK, DlTypeOK, RetryBounded, dlVars

(* The main thread takes the oldest job and posts at most two others. *)
LEMMA TakeType ==
  ASSUME TypeInv, NEW type, Take(type), NEW s \in Seq(Job), TakeAndPost(s),
         \A j \in Range(s) : WellFormed(j)
  PROVE  /\ mbox' \in Seq(Job)
         /\ \A j \in Jobs' : WellFormed(j)
<1>1. Jobs = {Head(mbox)} \cup Range(Tail(mbox)) /\ Jobs' = Range(Tail(mbox)) \cup Range(s)
        /\ mbox' \in Seq(Job)
  BY TakeJobs, TypeFacts DEF Take
<1> QED BY <1>1 DEF TypeInv, JobsWellFormed

LEMMA HeadJob ==
  ASSUME TypeInv, NEW type, Take(type)
  PROVE  Head(mbox) \in Job /\ Head(mbox) \in Jobs /\ WellFormed(Head(mbox)) /\ Head(mbox).type = type
<1>1. Head(mbox) \in Job /\ Head(mbox) = mbox[1] /\ 1 \in DOMAIN mbox
  BY TypeFacts, HeadTailProperties, EmptySeq, LenProperties DEF Take
<1>2. Head(mbox) \in Jobs
  BY <1>1 DEF Jobs, Range
<1> QED BY <1>1, <1>2 DEF TypeInv, JobsWellFormed, Take

LEMMA NoJobs == <<>> \in Seq(Job) /\ Range(<<>>) = {}
  BY DEF Range

LEMMA OneJob ==
  ASSUME NEW j \in Job PROVE <<j>> \in Seq(Job) /\ Range(<<j>>) = {j}
  BY SeqOne

(* Jobs whose parts are typed are typed. *)
LEMMA MkJobType ==
  ASSUME NEW type \in JobTypes, NEW client \in Clients, NEW req \in Ids \cup {NoReq},
         NEW kind \in AllKinds, NEW res \in Results, NEW val \in Tags \cup Pointers
  PROVE  MkJob(type, client, req, kind, res, val) \in Job
  BY DEF MkJob, Job

LEMMA PlainSignal ==
  ASSUME NEW type \in {"OD_START", "OD_STOP", "SM_CFG", "PORTMODE_OPERATE", "PORTMODE_COMLOST",
                      "SMI_CFG", "AL_ABORT"}
  PROVE  Signal(type) \in Job /\ WellFormed(Signal(type)) /\ Signal(type).type = type
<1>1. Signal(type) \in Job
  BY MkJobType DEF Signal, JobTypes, Clients, AllKinds, Results, Tags
<1> QED BY <1>1 DEF Signal, MkJob, WellFormed

LEMMA AlCnfJob ==
  ASSUME NEW svc \in Service, NEW res \in Results, NEW val \in Tags \cup Pointers
  PROVE  /\ AlCnf(svc, res, val) \in Job /\ WellFormed(AlCnf(svc, res, val))
         /\ AlCnf(svc, res, val).type = "AL_CNF" /\ AlCnf(svc, res, val).client = svc.client
<1>1. AlCnf(svc, res, val) \in Job
  BY MkJobType DEF AlCnf, Service, JobTypes
<1> QED BY <1>1 DEF AlCnf, MkJob, WellFormed

LEMMA HeadService ==
  ASSUME TypeInv, NEW type, Take(type)
  PROVE  /\ ServiceOf(Head(mbox)) \in Service
         /\ ServiceOf(Head(mbox)).client = Head(mbox).client
         /\ ServiceOf(Head(mbox)).req = Head(mbox).req
         /\ ServiceOf(Head(mbox)).kind = Head(mbox).kind
  BY HeadJob DEF ServiceOf, Service, Job

(* An answer is typed. *)
LEMMA AnswerType ==
  ASSUME TypeInv, NEW r \in Reqs, NEW res \in Results, NEW val \in Tags,
         NEW longer \in BOOLEAN, AnswerWith(r, res, val, longer)
  PROVE  nAns' \in [Reqs -> Nat] /\ ans' \in [Reqs -> Answers]
<1>1. nAns \in [Reqs -> Nat] /\ ans \in [Reqs -> Answers]
  BY DEF TypeInv, TypeOK, OdTypeOK
<1>2. [res |-> res, val |-> val, longer |-> longer] \in Answers
  BY DEF Answers
<1> QED BY <1>1, <1>2 DEF AnswerWith

LEMMA OdeType ==
  ASSUME TypeInv,
         OdeReject \/ OdeAccept \/ OdeConfirm \/ OdeStart \/ OdeStop \/ DsConfirm
  PROVE  TypeInv'
<1>1. UNCHANGED <<alVars, dlVars, dlCall, portVars, appVars>> /\ ds' \in {ds, NoReq}
  BY DEF OdeReject, OdeAccept, OdeConfirm, OdeStart, OdeStop, DsConfirm
<1>2. nAns \in [Reqs -> Nat] /\ ans \in [Reqs -> Answers] /\ ode \in OdeStates
        /\ odeReq \in Reqs \cup {NoReq} /\ alData \in Tags
        /\ (ode = "ODblocked" => odeReq \in Reqs)
  BY DEF TypeInv, TypeOK, OdTypeOK, JobsTypeOK, JobsWellFormed
<1> DEFINE OdeOK == /\ ode' \in OdeStates /\ odeReq' \in Reqs \cup {NoReq}
                    /\ ode' = "ODblocked" => odeReq' \in Reqs
                    /\ nAns' \in [Reqs -> Nat] /\ ans' \in [Reqs -> Answers]
           MboxOK == mbox' \in Seq(Job) /\ \A j \in Jobs' : WellFormed(j)
<1>3. ASSUME NEW type, Take(type), TakeAndPost(<<>>)
      PROVE  MboxOK
  BY <1>3, TakeType, NoJobs
<1>4. ASSUME OdeReject PROVE OdeOK /\ MboxOK
  <2>1. Head(mbox).req \in Reqs
    BY <1>4, HeadJob DEF OdeReject, WellFormed
  <2>2. nAns' \in [Reqs -> Nat] /\ ans' \in [Reqs -> Answers]
    BY <1>4, <2>1, AnswerType DEF OdeReject, AnswerReq, Results, Tags
  <2> QED BY <1>2, <1>3, <1>4, <2>2 DEF OdeReject
<1>5. ASSUME OdeAccept PROVE OdeOK /\ MboxOK
  <2>1. Head(mbox).req \in Reqs /\ Head(mbox).kind \in AllKinds
    BY <1>5, HeadJob DEF OdeAccept, WellFormed, Job
  <2>2. CASE Head(mbox).kind = "Batch"
    <3>1. nAns' \in [Reqs -> Nat] /\ ans' \in [Reqs -> Answers]
      BY <1>5, <2>1, <2>2, AnswerType DEF OdeAccept, AnswerReq, Results, Tags
    <3> QED BY <1>2, <1>3, <1>5, <2>1, <2>2, <3>1 DEF OdeAccept
  <2>3. CASE Head(mbox).kind # "Batch"
    <3>1. MkJob("AL_REQ", "ODE", Head(mbox).req, Head(mbox).kind, "OK", "none") \in Job
      BY <2>1, MkJobType DEF JobTypes, Clients, Results, Tags, Ids
    <3>2. WellFormed(MkJob("AL_REQ", "ODE", Head(mbox).req, Head(mbox).kind, "OK", "none"))
      BY DEF WellFormed, MkJob
    <3>3. MboxOK
      BY <1>5, <2>3, <3>1, <3>2, OneJob, TakeType DEF OdeAccept
    <3> QED BY <1>2, <1>5, <2>1, <2>3, <3>3 DEF OdeAccept, OdeStates
  <2> QED BY <2>2, <2>3
<1>6. ASSUME OdeConfirm PROVE OdeOK /\ MboxOK
  <2>1. CASE ode = "ODblocked"
    <3>1. Head(mbox).res \in Results /\ CopiedData \in Tags
      BY <1>2, <1>6, HeadJob DEF OdeConfirm, CopiedData, Job
    <3>2. nAns' \in [Reqs -> Nat] /\ ans' \in [Reqs -> Answers]
      <4>1. PICK res \in Results, val \in Tags, longer \in BOOLEAN :
                AnswerWith(odeReq, res, val, longer)
        BY <1>6, <2>1, <3>1 DEF OdeConfirm, AnswerReq, Results, Tags
      <4> QED BY <1>2, <2>1, <3>1, <4>1, AnswerType
    <3> QED BY <1>2, <1>3, <1>6, <2>1, <3>2 DEF OdeConfirm, OdeStates
  <2>2. CASE ode # "ODblocked"
    BY <1>2, <1>3, <1>6, <2>2 DEF OdeConfirm
  <2> QED BY <2>1, <2>2
<1>7. ASSUME OdeStart \/ OdeStop PROVE OdeOK /\ MboxOK
  BY <1>2, <1>3, <1>7 DEF OdeStart, OdeStop, OdeStates
<1>8. ASSUME DsConfirm PROVE OdeOK /\ MboxOK
  BY <1>2, <1>3, <1>8 DEF DsConfirm, odeVars
<1>9. OdeOK /\ MboxOK
  BY <1>4, <1>5, <1>6, <1>7, <1>8
<1>10. OdTypeOK'
  BY <1>1, <1>9 DEF TypeInv, TypeOK, OdTypeOK, portVars, appVars
<1>11. JobsTypeOK'
  BY <1>1, <1>9 DEF TypeInv, TypeOK, JobsTypeOK, alVars
<1>12. DlTypeOK' /\ RetryBounded'
  BY <1>1, DlUnchanged
<1> QED BY <1>9, <1>10, <1>11, <1>12 DEF TypeInv, TypeOK, JobsWellFormed

(* What the AL and the port control leave of TypeInv to prove: the mailbox *)
(* and what they may write.                                                *)
MailboxOK == mbox' \in Seq(Job) /\ \A j \in Jobs' : WellFormed(j)

LEMMA TakeNone ==
  ASSUME TypeInv, NEW type, Take(type), TakeAndPost(<<>>)
  PROVE  MailboxOK
  BY TakeType, NoJobs DEF MailboxOK

LEMMA TakeOne ==
  ASSUME TypeInv, NEW type, Take(type), NEW j \in Job, WellFormed(j), TakeAndPost(<<j>>)
  PROVE  MailboxOK
  BY TakeType, OneJob DEF MailboxOK

LEMMA PostMailbox ==
  ASSUME TypeInv, NEW j \in Job, WellFormed(j), Post(j)
  PROVE  MailboxOK
  BY PostOne, TypeFacts DEF MailboxOK, TypeInv, JobsWellFormed

LEMMA ConfirmType ==
  ASSUME TypeInv, NEW type, Take(type), NEW res \in Results, NEW val \in Tags \cup Pointers,
         Confirm(res, val)
  PROVE  MailboxOK /\ alState' \in AlStates /\ alSvc' \in Service
<1>1. AlCnf(alSvc, res, val) \in Job /\ WellFormed(AlCnf(alSvc, res, val))
  BY AlCnfJob, TypeFacts
<1> QED BY <1>1, TakeOne, TypeFacts DEF Confirm, AlStates

LEMMA DlCnfWellFormed ==
  ASSUME NEW type \in DlCnfTypes \cup {"DL_READ_CNF"}, NEW res \in Results
  PROVE  DlCnf(type, res, "none") \in Job /\ WellFormed(DlCnf(type, res, "none"))
<1>1. DlCnf(type, res, "none") \in DlJob
  BY DlCnfIsDlJob DEF DlCnfTypes, Tags
<1>2. DlCnf(type, res, "none") \in Job
  BY <1>1 DEF DlJob
<1> QED BY <1>2 DEF DlCnf, MkJob, WellFormed, DlCnfTypes, Tags

LEMMA AlRequestType ==
  ASSUME TypeInv, AlBusy \/ AlArgErr \/ AlParam \/ AlIsdu
  PROVE  MailboxOK /\ alState' \in AlStates /\ alSvc' \in Service /\ alData' \in Tags
           /\ alLen' \in Lengths /\ dlCall' \in {NoCall, "param", "isdu"} /\ rwcmd' \in RwCmds
<1>1. Take("AL_REQ")
  BY DEF AlBusy, AlArgErr, AlParam, AlIsdu
<1>2. ServiceOf(Head(mbox)) \in Service
  BY <1>1, HeadService
<1>3. dlCall \in {NoCall, "param", "isdu"} /\ rwcmd \in RwCmds /\ alData \in Tags
        /\ alLen \in Lengths
  BY DEF TypeInv, TypeOK, OdTypeOK, DlTypeOK, JobsTypeOK
<1>4. \A res \in {"BUSY", "ERR"} : /\ AlCnf(ServiceOf(Head(mbox)), res, "none") \in Job
                                  /\ WellFormed(AlCnf(ServiceOf(Head(mbox)), res, "none"))
  BY <1>2, AlCnfJob DEF Results, Tags
<1>5. CASE AlBusy \/ AlArgErr
  <2>1. PICK res \in {"BUSY", "ERR"} : TakeAndPost(<<AlCnf(ServiceOf(Head(mbox)), res, "none")>>)
    BY <1>5 DEF AlBusy, AlArgErr
  <2>2. MailboxOK
    BY <1>1, <1>4, <2>1, TakeOne
  <2> QED BY <1>2, <1>3, <1>5, <2>2, TypeFacts DEF AlBusy, AlArgErr, AlBuild, Lengths, alVars, dlVars
<1>6. CASE AlParam
  BY <1>1, <1>2, <1>3, <1>6, TakeNone DEF AlParam, AlBuild, Lengths, AlStates, RwCmds
<1>7. CASE AlIsdu
  <2>1. DlCnf("ISDU_CNF", "ERR", "none") \in Job /\ WellFormed(DlCnf("ISDU_CNF", "ERR", "none"))
    BY DlCnfWellFormed DEF DlCnfTypes, Results
  <2>2. MailboxOK
    BY <1>1, <1>7, <2>1, TakeNone, TakeOne DEF AlIsdu
  <2> QED BY <1>2, <1>3, <1>7, <2>2 DEF AlIsdu, AlBuild, Lengths, AlStates, dlVars
<1> QED BY <1>5, <1>6, <1>7

LEMMA AlConfirmType ==
  ASSUME TypeInv, AlReadParamCnf \/ AlWriteParamCnf \/ AlIsduCnf \/ AlAbort
  PROVE  MailboxOK /\ alState' \in AlStates /\ alSvc' \in Service /\ alData' \in Tags
           /\ alLen' \in Lengths
<1> USE TypeFacts
<1>1. alData \in Tags /\ alLen \in Lengths /\ \A len \in Lengths : ReadData(len) \in Tags \cup Pointers
  BY DEF IsduTyped, Lengths, ReadData, Tags, Pointers
<1>2. CASE AlReadParamCnf
  <2>1. Take("READPARAM_CNF") /\ Head(mbox).res \in Results /\ Head(mbox).val \in Tags
    BY <1>2, HeadJob DEF AlReadParamCnf, Job, WellFormed
  <2>3. alData' \in Tags /\ alLen' \in Lengths
    BY <1>1, <1>2, <2>1 DEF AlReadParamCnf, Lengths
  <2>2. CASE alState = "Await_DL_param_cnf"
    <3>1. \E res \in Results, val \in Tags \cup Pointers : Confirm(res, val)
      BY <1>1, <1>2, <2>1, <2>2, <2>3 DEF AlReadParamCnf, Results, Tags
    <3> QED BY <2>1, <2>3, <3>1, ConfirmType
  <2> QED BY <1>2, <2>1, <2>2, <2>3, TakeNone DEF AlReadParamCnf
<1>3. CASE AlWriteParamCnf
  <2>1. Take("WRITEPARAM_CNF") /\ Head(mbox).res \in Results
    BY <1>3, HeadJob DEF AlWriteParamCnf, Job
  <2>2. CASE alState = "Await_DL_param_cnf"
    <3>1. \E res \in Results, val \in Tags \cup Pointers : Confirm(res, val)
      BY <1>3, <2>1, <2>2 DEF AlWriteParamCnf, Results, Tags
    <3> QED BY <1>1, <1>3, <2>1, <3>1, ConfirmType DEF AlWriteParamCnf
  <2> QED BY <1>1, <1>3, <2>1, <2>2, TakeNone DEF AlWriteParamCnf
<1>4. CASE AlIsduCnf
  <2>1. Take("ISDU_CNF") /\ Head(mbox).res \in Results
    BY <1>4, HeadJob DEF AlIsduCnf, Job
  <2>2. CASE alState = "Await_DL_ISDU_cnf"
    <3>1. \E res \in Results, val \in Tags \cup Pointers : Confirm(res, val)
      BY <1>1, <1>4, <2>1, <2>2 DEF AlIsduCnf, Tags
    <3> QED BY <1>1, <1>4, <2>1, <3>1, ConfirmType DEF AlIsduCnf
  <2> QED BY <1>1, <1>4, <2>1, <2>2, TakeNone DEF AlIsduCnf
<1>5. CASE AlAbort
  <2>1. Take("AL_ABORT") /\ "ERR" \in Results /\ "none" \in Tags /\ alLen' \in Lengths
    BY <1>5 DEF AlAbort, Results, Tags, Lengths
  <2> QED BY <1>1, <1>5, <2>1, TakeNone, ConfirmType DEF AlAbort
<1> QED BY <1>2, <1>3, <1>4, <1>5

LEMMA DlRequestType ==
  ASSUME TypeInv, DlParamReq \/ DlIsduReq
  PROVE  MailboxOK /\ dataAddr' \in Ids \cup {NoReq} /\ isduReq' \in Ids \cup {NoReq}
           /\ totSeg' \in 0 .. Segs /\ curSeg' \in Nat /\ rwcmd' \in RwCmds
<1>1. alSvc.req \in Ids \cup {NoReq} /\ dataAddr \in Ids \cup {NoReq}
  BY TypeFacts DEF Service, TypeInv, TypeOK, DlTypeOK
<1>2. UNCHANGED mbox => MailboxOK
  BY TypeFacts DEF MailboxOK, Jobs, TypeInv, JobsWellFormed
<1>3. CASE DlParamReq
  <2>1. \A type \in DlCnfTypes : /\ DlCnf(type, "ERR", "none") \in Job
                                /\ WellFormed(DlCnf(type, "ERR", "none"))
    BY DlCnfWellFormed DEF Results
  <2>2. UNCHANGED mbox \/ \E type \in DlCnfTypes : Post(DlCnf(type, "ERR", "none"))
    BY <1>3 DEF DlParamReq, DlCnfTypes
  <2>3. MailboxOK
    BY <1>2, <2>1, <2>2, PostMailbox
  <2> QED BY <1>1, <1>3, <2>3, TypeFacts DEF DlParamReq, isduVars, IsduTyped
<1>4. CASE DlIsduReq
  <2>1. totSeg' \in 0 .. Segs
    BY <1>4, DlAssumption DEF DlIsduReq
  <2> QED BY <1>1, <1>2, <1>4, <2>1 DEF DlIsduReq, RwCmds
<1> QED BY <1>3, <1>4

LEMMA AlType ==
  ASSUME TypeInv,
         \/ AlBusy \/ AlArgErr \/ AlParam \/ AlIsdu \/ DlParamReq \/ DlIsduReq
         \/ AlReadParamCnf \/ AlWriteParamCnf \/ AlIsduCnf \/ AlAbort
  PROVE  TypeInv'
<1>1. UNCHANGED <<odeVars, portVars, ds, appVars>>
  BY DEF AlBusy, AlArgErr, AlParam, AlIsdu, DlParamReq, DlIsduReq,
         AlReadParamCnf, AlWriteParamCnf, AlIsduCnf, AlAbort
<1>2. /\ UNCHANGED <<modeVars, mh, retry, evFlag, od, elapsed, msg, dlPc, served, boundVars>>
      /\ UNCHANGED isdu
  BY DEF AlBusy, AlArgErr, AlParam, AlIsdu, DlParamReq, DlIsduReq,
         AlReadParamCnf, AlWriteParamCnf, AlIsduCnf, AlAbort, dlVars, isduVars, modeVars, boundVars
<1>3. MailboxOK
  BY AlRequestType, AlConfirmType, DlRequestType
<1>4. alState' \in AlStates /\ alSvc' \in Service /\ alData' \in Tags /\ alLen' \in Lengths
  <2>1. CASE DlParamReq \/ DlIsduReq
    BY <2>1 DEF DlParamReq, DlIsduReq, alVars, TypeInv, TypeOK, JobsTypeOK
  <2> QED BY <2>1, AlRequestType, AlConfirmType
<1>5. dlCall' \in {NoCall, "param", "isdu"}
  <2>1. dlCall \in {NoCall, "param", "isdu"}
    BY DEF TypeInv, TypeOK, OdTypeOK
  <2> QED BY <2>1, AlRequestType
          DEF DlParamReq, DlIsduReq, AlReadParamCnf, AlWriteParamCnf, AlIsduCnf, AlAbort
<1>6. /\ dataAddr' \in Ids \cup {NoReq} /\ isduReq' \in Ids \cup {NoReq}
      /\ totSeg' \in 0 .. Segs /\ curSeg' \in Nat
  <2>1. CASE DlParamReq \/ DlIsduReq
    BY <2>1, DlRequestType
  <2>2. CASE UNCHANGED <<dataAddr, isduReq, totSeg, curSeg>>
    BY <2>2 DEF TypeInv, TypeOK, DlTypeOK
  <2> QED BY <2>1, <2>2 DEF AlBusy, AlArgErr, AlParam, AlIsdu, AlReadParamCnf, AlWriteParamCnf,
                           AlIsduCnf, AlAbort, dlVars, isduVars
<1>7. rwcmd' \in RwCmds
  <2>1. CASE UNCHANGED rwcmd
    BY <2>1 DEF TypeInv, TypeOK, DlTypeOK
  <2> QED BY <2>1, AlRequestType, DlRequestType
          DEF AlReadParamCnf, AlWriteParamCnf, AlIsduCnf, AlAbort, dlVars
<1>8. DlTypeOK' /\ RetryBounded'
  <2>1. RetryBounded'
    BY <1>2 DEF TypeInv, RetryBounded
  <2> QED BY <1>2, <1>6, <1>7, <2>1 DEF TypeInv, TypeOK, DlTypeOK, modeVars, boundVars
<1>9. JobsTypeOK'
  BY <1>3, <1>4 DEF MailboxOK, JobsTypeOK
<1>10. OdTypeOK' /\ JobsWellFormed'
  BY <1>1, <1>3, <1>5 DEF MailboxOK, TypeInv, TypeOK, OdTypeOK, JobsWellFormed, odeVars,
                          portVars, appVars
<1> QED BY <1>8, <1>9, <1>10 DEF TypeInv, TypeOK

LEMMA PortType ==
  ASSUME TypeInv,
         \/ CmCfgChange \/ SmSetPortConfig \/ SmModeStartup \/ SmReadCnf
         \/ SmModeOperate \/ SmModeComlost \/ SmModeInactive \/ CmOperate \/ CmComlost
  PROVE  TypeInv'
<1>1. PortStep
  BY DEF CmCfgChange, SmSetPortConfig, SmModeStartup, SmReadCnf,
         SmModeOperate, SmModeComlost, SmModeInactive, CmOperate, CmComlost
<1>2. /\ cm \in {"Port_Deactivated", "CheckPortMode", "SM_Startup", "Port_Active"}
      /\ sm \in {"PortInactive", "CheckCompatibility", "waitonDLOperate", "SMOperate"}
      /\ rwcmd \in RwCmds /\ dlMode \in DlModes /\ mdhEv \in BOOLEAN
  BY DEF TypeInv, TypeOK, OdTypeOK, DlTypeOK
<1>3. /\ cm' \in {"Port_Deactivated", "CheckPortMode", "SM_Startup", "Port_Active"}
      /\ sm' \in {"PortInactive", "CheckCompatibility", "waitonDLOperate", "SMOperate"}
      /\ rwcmd' \in RwCmds /\ dlMode' \in DlModes /\ mdhEv' \in BOOLEAN
  BY <1>2 DEF CmCfgChange, SmSetPortConfig, SmModeStartup, SmReadCnf, SmModeOperate,
              SmModeComlost, SmModeInactive, CmOperate, CmComlost, SmComlost, SmIgnore,
              DL_SetMode_req, ModeUnchanged, RwCmds, DlModes
<1>4. MailboxOK
  <2>1. /\ \A type \in {"OD_START", "PORTMODE_OPERATE", "PORTMODE_COMLOST"} :
              Signal(type) \in Job /\ WellFormed(Signal(type))
        /\ DlCnf("DL_READ_CNF", "ERR", "none") \in Job
        /\ WellFormed(DlCnf("DL_READ_CNF", "ERR", "none"))
    BY PlainSignal, DlCnfWellFormed DEF Results
  <2>2. CASE CmCfgChange
    <3>1. Signal("OD_STOP") \in Job /\ WellFormed(Signal("OD_STOP"))
            /\ Signal("SM_CFG") \in Job /\ WellFormed(Signal("SM_CFG"))
      BY PlainSignal
    <3>2. /\ <<Signal("OD_STOP"), Signal("SM_CFG")>> \in Seq(Job)
          /\ \A j \in Range(<<Signal("OD_STOP"), Signal("SM_CFG")>>) : WellFormed(j)
      BY <3>1 DEF Range
    <3> QED BY <2>2, <3>2, TakeType DEF CmCfgChange, MailboxOK
  <2>3. CASE ~CmCfgChange
    <3>1. \E type : /\ Take(type)
                    /\ \/ TakeAndPost(<<>>)
                       \/ TakeAndPost(<<DlCnf("DL_READ_CNF", "ERR", "none")>>)
                       \/ \E t \in {"OD_START", "PORTMODE_OPERATE", "PORTMODE_COMLOST"} :
                             TakeAndPost(<<Signal(t)>>)
      BY <2>3 DEF SmSetPortConfig, SmModeStartup, SmReadCnf, SmModeOperate, SmModeComlost,
                  SmModeInactive, CmOperate, CmComlost, SmComlost, SmIgnore
    <3> QED BY <2>1, <3>1, TakeNone, TakeOne
  <2> QED BY <2>2, <2>3
<1>5. JobsTypeOK'
  BY <1>1, <1>4 DEF PortStep, alVars, MailboxOK, TypeInv, TypeOK, JobsTypeOK
<1>6. DlTypeOK' /\ RetryBounded'
  BY <1>1, <1>3 DEF PortStep, isduVars, boundVars, TypeInv, TypeOK, DlTypeOK, RetryBounded
<1>7. OdTypeOK' /\ JobsWellFormed'
  BY <1>1, <1>3, <1>4 DEF PortStep, odeVars, appVars, MailboxOK, TypeInv, TypeOK, OdTypeOK,
                          JobsWellFormed
<1> QED BY <1>5, <1>6, <1>7 DEF TypeInv, TypeOK

LEMMA ApplicationType ==
  ASSUME TypeInv, Application
  PROVE  TypeInv'
<1>1. UNCHANGED <<alVars, dlVars, dlCall, odeVars, portVars>>
  BY DEF Application, SMI_DeviceRW_req, SMI_PortConfiguration_req, AL_Abort, DsRead
<1>2. asked \in [Ids -> AllKinds \cup {"none"}] /\ ds \in DsReqs \cup {NoReq}
        /\ cfgs \in 0 .. MaxCfg /\ aborts \in 0 .. MaxAborts
  BY DEF TypeInv, TypeOK, OdTypeOK
<1> DEFINE AppOK == /\ asked' \in [Ids -> AllKinds \cup {"none"}] /\ ds' \in DsReqs \cup {NoReq}
                    /\ cfgs' \in 0 .. MaxCfg /\ aborts' \in 0 .. MaxAborts
<1>3. ASSUME NEW r \in Reqs, NEW k \in Kinds, SMI_DeviceRW_req(r, k) PROVE AppOK /\ MailboxOK
  <2>1. r \in Ids /\ k \in AllKinds
    BY OnRequestAssumption DEF Ids
  <2>2. MkJob("SMI_RW", "ODE", r, k, "OK", "none") \in Job
    BY <2>1, MkJobType DEF JobTypes, Clients, Results, Tags
  <2>3. WellFormed(MkJob("SMI_RW", "ODE", r, k, "OK", "none"))
    BY DEF WellFormed, MkJob
  <2> QED BY <1>2, <1>3, <2>1, <2>2, <2>3, PostMailbox DEF SMI_DeviceRW_req
<1>4. ASSUME SMI_PortConfiguration_req \/ AL_Abort PROVE AppOK /\ MailboxOK
  <2>1. MailboxOK
    BY <1>4, PlainSignal, PostMailbox DEF SMI_PortConfiguration_req, AL_Abort
  <2> QED BY <1>2, <1>4, <2>1, OnRequestAssumption DEF SMI_PortConfiguration_req, AL_Abort
<1>5. ASSUME NEW r \in DsReqs, DsRead(r) PROVE AppOK /\ MailboxOK
  <2>1. r \in Ids /\ "ReadIsdu" \in AllKinds
    BY DEF Ids, AllKinds, ReadKinds
  <2>2. MkJob("AL_REQ", "DS", r, "ReadIsdu", "OK", "none") \in Job
    BY <2>1, MkJobType DEF JobTypes, Clients, Results, Tags
  <2>3. WellFormed(MkJob("AL_REQ", "DS", r, "ReadIsdu", "OK", "none"))
    BY DEF WellFormed, MkJob
  <2> QED BY <1>2, <1>5, <2>1, <2>2, <2>3, PostMailbox DEF DsRead
<1>6. AppOK /\ MailboxOK
  BY <1>3, <1>4, <1>5 DEF Application
<1>7. DlTypeOK' /\ RetryBounded'
  BY <1>1, DlUnchanged
<1> QED BY <1>1, <1>6, <1>7
        DEF MailboxOK, TypeInv, TypeOK, JobsTypeOK, OdTypeOK, JobsWellFormed, alVars, odeVars, portVars

LEMMA InitType == Init => TypeInv
<1> SUFFICES ASSUME Init PROVE TypeInv
  OBVIOUS
<1> USE DEF Init
<1>1. JobsTypeOK
  BY DEF JobsInit, JobsTypeOK, AlStates, Lengths, Service, Clients, AllKinds, Tags
<1>2. DlTypeOK
  <2>1. retry \in 0 .. MaxRetry + 1 /\ totSeg \in 0 .. Segs /\ curSeg \in Nat
          /\ errs \in 0 .. MaxErrors /\ evs \in 0 .. MaxEvents
    BY DlAssumption DEF DlInit
  <2> QED BY <2>1 DEF DlInit, DlTypeOK, ModeStates, DlModes, MhStates, RwCmds, OdStates,
                      IsduStates, Messages, IdleMsg
<1>3. OdTypeOK
  BY OnRequestAssumption DEF OdTypeOK, OdeStates, Answers, NoCall, Tags
<1>4. JobsWellFormed /\ RetryBounded
  BY DEF JobsInit, DlInit, JobsWellFormed, RetryBounded, Clears, Leaves, Jobs, Range
<1> QED BY <1>1, <1>2, <1>3, <1>4 DEF TypeInv, TypeOK

LEMMA StutterType == TypeInv /\ UNCHANGED vars => TypeInv'
  BY DEF vars, alVars, dlVars, odeVars, portVars, appVars, TypeInv, TypeOK, JobsTypeOK, DlTypeOK,
         OdTypeOK, JobsWellFormed, RetryBounded, Jobs

LEMMA NextType == TypeInv /\ [Next]_vars => TypeInv'
  BY StutterType, DlStepType, OdeType, AlType, PortType, ApplicationType DEF Next, MainThread

LEMMA TypeInvariance == Spec => []TypeInv
  BY InitType, NextType, PTL DEF Spec

(* Whatever the requests, retries, segments and bounds are, every variable *)
(* of the port (iolink_ode.c, iolink_al.c, iolink_dl.c) keeps its type; in *)
(* particular no more than IOLINK_MAX_RETRY + 1 failures are ever counted. *)
THEOREM TypeCorrect == Spec => []TypeOK
<1>1. TypeInv => TypeOK
  BY DEF TypeInv
<1> QED BY <1>1, TypeInvariance, PTL

-----------------------------------------------------------------------------
(* Nobody waits for nothing: BlockedHasPending and DsHasPending are        *)
(* inductive once the types are known.  A transaction is handed on from    *)
(* its AL_REQ to the AL's service and from there to its AL_CNF, or from    *)
(* the AL_REQ to the AL_CNF when the AL refuses it.                        *)

LEMMA TakeKeeps ==
  ASSUME TypeInv, NEW type, Take(type), NEW s \in Seq(Job), TakeAndPost(s)
  PROVE  /\ \A j \in Jobs : j = Head(mbox) \/ j \in Jobs'
         /\ Range(s) \subseteq Jobs'
  BY TakeJobs, TypeFacts DEF Take

LEMMA TakeKeepsNone ==
  ASSUME TypeInv, NEW type, Take(type), TakeAndPost(<<>>)
  PROVE  \A j \in Jobs : j = Head(mbox) \/ j \in Jobs'
  BY TakeKeeps, NoJobs

LEMMA TakeKeepsOne ==
  ASSUME TypeInv, NEW type, Take(type), NEW j \in Job, TakeAndPost(<<j>>)
  PROVE  /\ \A k \in Jobs : k = Head(mbox) \/ k \in Jobs'
         /\ j \in Jobs'
  BY TakeKeeps, OneJob

(* The AL confirms its service. *)
LEMMA ConfirmPending ==
  ASSUME TypeInv, NEW type, Take(type), type \notin {"AL_REQ", "AL_CNF"},
         NEW res \in Results, NEW val \in Tags \cup Pointers, Confirm(res, val),
         NEW c \in Clients, Pending(c)
  PROVE  Pending(c)'
<1>1. AlCnf(alSvc, res, val) \in Job /\ AlCnf(alSvc, res, val).type = "AL_CNF"
        /\ AlCnf(alSvc, res, val).client = alSvc.client
  BY AlCnfJob, TypeFacts
<1>2. AlCnf(alSvc, res, val) \in Jobs' /\ \A j \in Jobs : j = Head(mbox) \/ j \in Jobs'
  BY <1>1, TakeKeepsOne DEF Confirm
<1> QED BY <1>1, <1>2 DEF Pending, Take

(* A job that is no part of a transaction. *)
LEMMA OtherPending ==
  ASSUME TypeInv, NEW type, Take(type), type \notin {"AL_REQ", "AL_CNF"},
         NEW s \in Seq(Job), TakeAndPost(s), UNCHANGED <<alState, alSvc>>,
         NEW c \in Clients, Pending(c)
  PROVE  Pending(c)'
  BY TakeKeeps DEF Pending, Take

LEMMA AlRequestPending ==
  ASSUME TypeInv, AlBusy \/ AlArgErr \/ AlParam \/ AlIsdu, NEW c \in Clients, Pending(c)
  PROVE  Pending(c)'
<1>1. Take("AL_REQ")
  BY DEF AlBusy, AlArgErr, AlParam, AlIsdu
<1>2. ServiceOf(Head(mbox)) \in Service /\ ServiceOf(Head(mbox)).client = Head(mbox).client
  BY <1>1, HeadService
<1>3. CASE AlBusy \/ AlArgErr
  <2>1. PICK res \in {"BUSY", "ERR"} : TakeAndPost(<<AlCnf(ServiceOf(Head(mbox)), res, "none")>>)
    BY <1>3 DEF AlBusy, AlArgErr
  <2> DEFINE cnf == AlCnf(ServiceOf(Head(mbox)), res, "none")
  <2>2. cnf \in Job /\ cnf.type = "AL_CNF" /\ cnf.client = Head(mbox).client
    BY <1>2, AlCnfJob DEF Results, Tags
  <2>3. cnf \in Jobs' /\ \A j \in Jobs : j = Head(mbox) \/ j \in Jobs'
    BY <1>1, <2>1, <2>2, TakeKeepsOne
  <2>4. (alState' = alState /\ alSvc' = alSvc) \/ alState = "OnReq_Idle"
    BY <1>3 DEF AlBusy, AlArgErr, alVars
  <2> HIDE DEF cnf
  <2> QED BY <2>2, <2>3, <2>4 DEF Pending
<1>4. CASE AlParam \/ AlIsdu
  <2>1. \A j \in Jobs : j = Head(mbox) \/ j \in Jobs'
    <3>1. DlCnf("ISDU_CNF", "ERR", "none") \in Job
      BY DlCnfWellFormed DEF DlCnfTypes, Results
    <3>2. TakeAndPost(<<>>) \/ TakeAndPost(<<DlCnf("ISDU_CNF", "ERR", "none")>>)
      BY <1>4 DEF AlParam, AlIsdu
    <3> QED BY <1>1, <3>1, <3>2, TakeKeepsNone, TakeKeepsOne
  <2>2. alState = "OnReq_Idle" /\ alState' # "OnReq_Idle" /\ alSvc' = ServiceOf(Head(mbox))
    BY <1>4 DEF AlParam, AlIsdu, AlBuild
  <2> QED BY <1>2, <2>1, <2>2 DEF Pending
<1> QED BY <1>3, <1>4

(* An AL confirmation confirms the service, or does nothing. *)
LEMMA AlConfirms ==
  ASSUME TypeInv, AlReadParamCnf \/ AlWriteParamCnf \/ AlIsduCnf \/ AlAbort,
         Head(mbox).res \in Results
  PROVE  \/ \E res \in Results, val \in Tags \cup Pointers : Confirm(res, val)
         \/ TakeAndPost(<<>>) /\ UNCHANGED <<alState, alSvc>>
<1>1. \A len \in Lengths : ReadData(len) \in Tags \cup Pointers
  BY DEF Lengths, ReadData, Tags, Pointers
<1>2. CASE AlReadParamCnf
  <2>1. alLen' \in Lengths
    BY <1>2 DEF AlReadParamCnf, Lengths
  <2>2. ReadData(alLen') \in Tags \cup Pointers
    BY <1>1, <2>1
  <2> QED BY <1>2, <2>2 DEF AlReadParamCnf, Results, Tags
<1>3. CASE AlIsduCnf
  <2>1. ReadData(alLen) \in Tags \cup Pointers
    BY <1>1 DEF TypeInv, TypeOK, JobsTypeOK
  <2> QED BY <1>3, <2>1 DEF AlIsduCnf, Tags
<1>4. CASE AlWriteParamCnf \/ AlAbort
  BY <1>4 DEF AlWriteParamCnf, AlAbort, Results, Tags
<1> QED BY <1>2, <1>3, <1>4

LEMMA AlConfirmPending ==
  ASSUME TypeInv, AlReadParamCnf \/ AlWriteParamCnf \/ AlIsduCnf \/ AlAbort,
         NEW c \in Clients, Pending(c)
  PROVE  Pending(c)'
<1>1. PICK type \in {"READPARAM_CNF", "WRITEPARAM_CNF", "ISDU_CNF", "AL_ABORT"} : Take(type)
  BY DEF AlReadParamCnf, AlWriteParamCnf, AlIsduCnf, AlAbort
<1>2. Head(mbox).res \in Results
  BY <1>1, HeadJob DEF Job
<1>3. \/ \E res \in Results, val \in Tags \cup Pointers : Confirm(res, val)
      \/ TakeAndPost(<<>>) /\ UNCHANGED <<alState, alSvc>>
  BY <1>2, AlConfirms
<1>4. <<>> \in Seq(Job)
  BY NoJobs
<1> QED BY <1>1, <1>3, <1>4, ConfirmPending, OtherPending

LEMMA DlServicePending ==
  ASSUME TypeInv, DlParamReq \/ DlIsduReq, NEW c \in Clients, Pending(c)
  PROVE  Pending(c)'
<1>1. \A type \in DlCnfTypes : DlCnf(type, "ERR", "none") \in Job
  BY DlCnfWellFormed DEF Results
<1>2. UNCHANGED mbox \/ \E type \in DlCnfTypes : Post(DlCnf(type, "ERR", "none"))
  BY DEF DlParamReq, DlIsduReq, DlCnfTypes
<1>3. Jobs \subseteq Jobs'
  BY <1>1, <1>2, PostOne, TypeFacts DEF Jobs
<1> QED BY <1>3 DEF DlParamReq, DlIsduReq, alVars, Pending

(* The port control takes and posts neither requests nor transactions. *)
PortAction ==
    \/ CmCfgChange \/ SmSetPortConfig \/ SmModeStartup \/ SmReadCnf
    \/ SmModeOperate \/ SmModeComlost \/ SmModeInactive \/ CmOperate \/ CmComlost

LEMMA PortPosts ==
  ASSUME TypeInv, PortAction
  PROVE  \E type \in JobTypes \ {"AL_REQ", "AL_CNF", "SMI_RW"} : \E s \in Seq(Job) :
            Take(type) /\ TakeAndPost(s) /\ \A j \in Range(s) : j.type # "SMI_RW"
<1>1. \A t \in {"OD_START", "OD_STOP", "SM_CFG", "PORTMODE_OPERATE", "PORTMODE_COMLOST"} :
         Signal(t) \in Job /\ Signal(t).type # "SMI_RW"
  BY PlainSignal
<1>2. DlCnf("DL_READ_CNF", "ERR", "none") \in Job /\ DlCnf("DL_READ_CNF", "ERR", "none").type # "SMI_RW"
  <2>1. DlCnf("DL_READ_CNF", "ERR", "none") \in Job
    BY DlCnfWellFormed DEF Results
  <2> QED BY <2>1 DEF DlCnf, MkJob
<1> DEFINE Quiet(s) == s \in Seq(Job) /\ \A j \in Range(s) : j.type # "SMI_RW"
<1>3. /\ Quiet(<<>>) /\ Quiet(<<DlCnf("DL_READ_CNF", "ERR", "none")>>)
      /\ \A t \in {"OD_START", "PORTMODE_OPERATE", "PORTMODE_COMLOST"} : Quiet(<<Signal(t)>>)
  BY <1>1, <1>2, NoJobs, OneJob
<1>4. Quiet(<<Signal("OD_STOP"), Signal("SM_CFG")>>)
  BY <1>1 DEF Range
<1>5. PICK type \in JobTypes \ {"AL_REQ", "AL_CNF", "SMI_RW"} : Take(type)
  BY DEF PortAction, CmCfgChange, SmSetPortConfig, SmModeStartup, SmReadCnf, SmModeOperate,
         SmModeComlost, SmModeInactive, CmOperate, CmComlost, JobTypes
<1>6. \/ TakeAndPost(<<>>)
      \/ TakeAndPost(<<DlCnf("DL_READ_CNF", "ERR", "none")>>)
      \/ TakeAndPost(<<Signal("OD_STOP"), Signal("SM_CFG")>>)
      \/ \E t \in {"OD_START", "PORTMODE_OPERATE", "PORTMODE_COMLOST"} : TakeAndPost(<<Signal(t)>>)
  BY DEF PortAction, CmCfgChange, SmSetPortConfig, SmModeStartup, SmReadCnf, SmModeOperate,
         SmModeComlost, SmModeInactive, CmOperate, CmComlost, SmComlost, SmIgnore
<1>7. PICK s : Quiet(s) /\ TakeAndPost(s)
  BY <1>3, <1>4, <1>6
<1> QED BY <1>5, <1>7

LEMMA PortPending ==
  ASSUME TypeInv, PortAction, NEW c \in Clients, Pending(c)
  PROVE  Pending(c)'
<1>1. UNCHANGED <<alState, alSvc>>
  BY DEF PortAction, CmCfgChange, SmSetPortConfig, SmModeStartup, SmReadCnf, SmModeOperate,
         SmModeComlost, SmModeInactive, CmOperate, CmComlost, PortStep, alVars
<1> QED BY <1>1, PortPosts, OtherPending

(* Whoever waits keeps a transaction on its way, or is served. *)
Waiting(c) == IF c = "ODE" THEN ode = "ODblocked" ELSE ds # NoReq

WaitingHasPending == \A c \in Clients : Waiting(c) => Pending(c)

LEMMA OdePending ==
  ASSUME TypeInv, WaitingHasPending,
         OdeReject \/ OdeAccept \/ OdeConfirm \/ OdeStart \/ OdeStop \/ DsConfirm,
         NEW c \in Clients, Waiting(c)'
  PROVE  Pending(c)'
<1>1. UNCHANGED <<alState, alSvc>>
  BY DEF OdeReject, OdeAccept, OdeConfirm, OdeStart, OdeStop, DsConfirm, alVars
<1>2. CASE OdeAccept /\ c = "ODE"
  <2>1. Head(mbox).kind # "Batch"
    BY <1>2 DEF OdeAccept, Waiting
  <2> DEFINE job == MkJob("AL_REQ", "ODE", Head(mbox).req, Head(mbox).kind, "OK", "none")
  <2>2. job \in Job
    <3>1. Head(mbox).req \in Ids \cup {NoReq} /\ Head(mbox).kind \in AllKinds
      BY <1>2, HeadJob DEF OdeAccept, Job
    <3> QED BY <3>1, MkJobType DEF JobTypes, Clients, Results, Tags
  <2>3. job \in Jobs'
    BY <1>2, <2>1, <2>2, TakeKeepsOne DEF OdeAccept
  <2>4. job.type = "AL_REQ" /\ job.client = "ODE"
    BY DEF MkJob
  <2> QED BY <1>2, <2>3, <2>4 DEF Pending
<1>3. CASE ~(OdeAccept /\ c = "ODE")
  <2>1. Waiting(c) /\ ~(OdeConfirm /\ c = "ODE") /\ ~(DsConfirm /\ c = "DS")
    BY <1>3 DEF OdeReject, OdeAccept, OdeConfirm, OdeStart, OdeStop, DsConfirm, Waiting, odeVars,
                Clients
  <2>2. Pending(c)
    BY <2>1 DEF WaitingHasPending
  <2>3. \A j \in Jobs : j = Head(mbox) \/ j \in Jobs'
    <3>1. PICK type \in JobTypes : Take(type)
      BY DEF OdeReject, OdeAccept, OdeConfirm, OdeStart, OdeStop, DsConfirm, JobTypes
    <3>2. CASE TakeAndPost(<<>>)
      BY <3>1, <3>2, TakeKeepsNone
    <3>3. CASE OdeAccept /\ Head(mbox).kind # "Batch"
      <4>1. MkJob("AL_REQ", "ODE", Head(mbox).req, Head(mbox).kind, "OK", "none") \in Job
        BY <3>1, HeadJob, MkJobType DEF Job, JobTypes, Clients, Results, Tags
      <4> QED BY <3>1, <3>3, <4>1, TakeKeepsOne DEF OdeAccept
    <3> QED BY <3>2, <3>3 DEF OdeReject, OdeAccept, OdeConfirm, OdeStart, OdeStop, DsConfirm
  <2>4. Head(mbox).type \in {"AL_REQ", "AL_CNF"} => Head(mbox).client # c
    BY <2>1, HeadJob DEF OdeReject, OdeAccept, OdeConfirm, OdeStart, OdeStop, DsConfirm, Take,
                         Clients
  <2> QED BY <1>1, <2>2, <2>3, <2>4 DEF Pending
<1> QED BY <1>2, <1>3

LEMMA ApplicationPosts ==
  ASSUME TypeInv, Application
  PROVE  \E j \in Job : Post(j)
<1>1. ASSUME NEW r \in Reqs, NEW k \in Kinds PROVE MkJob("SMI_RW", "ODE", r, k, "OK", "none") \in Job
  BY OnRequestAssumption, MkJobType DEF JobTypes, Clients, Results, Tags, Ids
<1>2. ASSUME NEW r \in DsReqs PROVE MkJob("AL_REQ", "DS", r, "ReadIsdu", "OK", "none") \in Job
  BY MkJobType DEF JobTypes, Clients, Results, Tags, Ids, AllKinds, ReadKinds
<1>3. Signal("SMI_CFG") \in Job /\ Signal("AL_ABORT") \in Job
  BY PlainSignal
<1> QED
  BY <1>1, <1>2, <1>3
     DEF Application, SMI_DeviceRW_req, SMI_PortConfiguration_req, AL_Abort, DsRead

LEMMA NextPending ==
  ASSUME TypeInv, WaitingHasPending, [Next]_vars
  PROVE  WaitingHasPending'
<1> SUFFICES ASSUME NEW c \in Clients, Waiting(c)' PROVE Pending(c)'
  BY DEF WaitingHasPending
<1>1. CASE OdeReject \/ OdeAccept \/ OdeConfirm \/ OdeStart \/ OdeStop \/ DsConfirm
  BY <1>1, OdePending
<1>2. CASE Waiting(c)
  <2>1. Pending(c)
    BY <1>2 DEF WaitingHasPending
  <2>2. CASE DlStep
    BY <2>1, <2>2, DlStepType, DlPostsJobs DEF Pending
  <2>3. CASE Application
    <3>1. UNCHANGED <<alState, alSvc>>
      BY <2>3 DEF Application, SMI_DeviceRW_req, SMI_PortConfiguration_req, AL_Abort, DsRead, alVars
    <3>2. Jobs \subseteq Jobs'
      <4>1. PICK j \in Job : Post(j)
        BY <2>3, ApplicationPosts
      <4> QED BY <4>1, PostOne, TypeFacts
    <3> QED BY <2>1, <3>1, <3>2 DEF Pending
  <2>4. CASE UNCHANGED vars
    BY <2>1, <2>4 DEF vars, alVars, Pending, Jobs
  <2> QED BY <1>1, <2>1, <2>2, <2>3, <2>4, AlRequestPending, AlConfirmPending, DlServicePending,
             PortPending DEF Next, MainThread, PortAction
<1>3. CASE ~Waiting(c) /\ ~(OdeReject \/ OdeAccept \/ OdeConfirm \/ OdeStart \/ OdeStop \/ DsConfirm)
  <2>1. PICK r \in DsReqs : DsRead(r)
    <3>1. ~(UNCHANGED <<ode, ds>>)
      BY <1>3 DEF Waiting
    <3> QED
      BY <1>3, <3>1
         DEF Next, MainThread, Application, SMI_DeviceRW_req, SMI_PortConfiguration_req, AL_Abort,
             DlStep, AlBusy, AlArgErr, AlParam, AlIsdu, DlParamReq, DlIsduReq, AlReadParamCnf,
             AlWriteParamCnf, AlIsduCnf, AlAbort, CmCfgChange, SmSetPortConfig, SmModeStartup,
             SmReadCnf, SmModeOperate, SmModeComlost, SmModeInactive, CmOperate, CmComlost,
             PortStep, vars, odeVars
  <2> DEFINE job == MkJob("AL_REQ", "DS", r, "ReadIsdu", "OK", "none")
  <2>2. job \in Job /\ job.type = "AL_REQ" /\ job.client = "DS"
    <3>1. job \in Job
      BY MkJobType DEF JobTypes, Clients, Results, Tags, Ids, AllKinds, ReadKinds
    <3> QED BY <3>1 DEF MkJob
  <2>3. job \in Jobs'
    BY <2>1, <2>2, PostOne, TypeFacts DEF DsRead
  <2>4. c = "DS"
    BY <1>3, <2>1 DEF DsRead, Waiting, odeVars, Clients
  <2> QED BY <2>2, <2>3, <2>4 DEF Pending
<1> QED BY <1>1, <1>2, <1>3

LEMMA PendingInvariance == Spec => []WaitingHasPending
<1>1. Init => WaitingHasPending
  BY DEF Init, WaitingHasPending, Waiting, Clients
<1>2. TypeInv /\ WaitingHasPending /\ [Next]_vars => WaitingHasPending'
  BY NextPending
<1> QED BY <1>1, <1>2, TypeInvariance, PTL DEF Spec

(* The ODE is never blocked for good by a request of which nothing is left *)
(* in the mailbox or the AL: while it refuses requests (ode_smi_rw and     *)
(* ode_wait in iolink_ode.c), an AL service of its own is under way.       *)
THEOREM BlockedIsPending == Spec => []BlockedHasPending
<1>1. WaitingHasPending => BlockedHasPending
  BY DEF WaitingHasPending, Waiting, BlockedHasPending, Clients
<1> QED BY <1>1, PendingInvariance, PTL

(* The same of the data storage client of the AL, whatever the ODE does.   *)
THEOREM DsIsPending == Spec => []DsHasPending
<1>1. WaitingHasPending => DsHasPending
  BY DEF WaitingHasPending, Waiting, DsHasPending, Clients
<1> QED BY <1>1, PendingInvariance, PTL

-----------------------------------------------------------------------------
(* No request is answered twice.  A request is queued (its job is in the   *)
(* mailbox), being served, or answered, and never two of these: what makes *)
(* this inductive is that a request is queued at most once.                *)

Serving(r) == ode = "ODblocked" /\ odeReq = r

Queued(r) == \E j \in Jobs : j.type = "SMI_RW" /\ j.req = r

(* No two jobs of the sequence carry the same request of the application. *)
Once(q) == \A i, k \in 1 .. Len(q) :
              q[i].type = "SMI_RW" /\ q[k].type = "SMI_RW" /\ q[i].req = q[k].req => i = k

OneAnswer(r) ==
    /\ nAns[r] \in {0, 1}
    /\ asked[r] = "none" => nAns[r] = 0
    /\ Queued(r) => asked[r] # "none" /\ nAns[r] = 0 /\ ~Serving(r)
    /\ Serving(r) => asked[r] # "none" /\ nAns[r] = 0

OneAnswerInv == Once(mbox) /\ \A r \in Reqs : OneAnswer(r)

LEMMA OnceTail ==
  ASSUME NEW q \in Seq(Job), q # <<>>, Once(q)
  PROVE  /\ Once(Tail(q))
         /\ \A j \in Range(Tail(q)) :
               ~(j.type = "SMI_RW" /\ Head(q).type = "SMI_RW" /\ j.req = Head(q).req)
<1>1. /\ Len(q) \in Nat /\ Len(q) > 0 /\ Head(q) = q[1]
      /\ Len(Tail(q)) = Len(q) - 1
      /\ \A i \in 1 .. Len(Tail(q)) : Tail(q)[i] = q[i + 1]
  BY HeadTailProperties, EmptySeq, LenProperties
<1>2. \A i \in 1 .. Len(Tail(q)) : i + 1 \in 1 .. Len(q) /\ i + 1 # 1
  BY <1>1
<1>3. Once(Tail(q))
  <2> SUFFICES ASSUME NEW i \in 1 .. Len(Tail(q)), NEW k \in 1 .. Len(Tail(q)),
                      Tail(q)[i].type = "SMI_RW", Tail(q)[k].type = "SMI_RW",
                      Tail(q)[i].req = Tail(q)[k].req
               PROVE  i = k
    BY DEF Once
  <2>1. q[i + 1].type = "SMI_RW" /\ q[k + 1].type = "SMI_RW" /\ q[i + 1].req = q[k + 1].req
    BY <1>1
  <2>2. i + 1 = k + 1
    BY <1>2, <2>1 DEF Once
  <2> QED BY <1>1, <2>2
<1>4. ASSUME NEW j \in Range(Tail(q)), j.type = "SMI_RW", Head(q).type = "SMI_RW",
             j.req = Head(q).req
      PROVE  FALSE
  <2>1. PICK i \in 1 .. Len(Tail(q)) : j = Tail(q)[i]
    <3>1. Tail(q) \in Seq(Job)
      BY HeadTailProperties
    <3>2. Range(Tail(q)) = {Tail(q)[i] : i \in 1 .. Len(Tail(q))}
      BY <3>1, RangeEquality
    <3> QED BY <1>4, <3>2
  <2>2. q[i + 1].type = "SMI_RW" /\ q[1].type = "SMI_RW" /\ q[i + 1].req = q[1].req
    BY <1>1, <1>4, <2>1
  <2>3. 1 \in 1 .. Len(q)
    BY <1>1
  <2> QED BY <1>2, <2>2, <2>3 DEF Once
<1> QED BY <1>3, <1>4

LEMMA OnceConcat ==
  ASSUME NEW q \in Seq(Job), NEW s \in Seq(Job), Once(q),
         \A j \in Range(s) : j.type # "SMI_RW"
  PROVE  Once(q \o s)
<1>1. /\ Len(q) \in Nat /\ Len(s) \in Nat /\ Len(q \o s) = Len(q) + Len(s)
      /\ \A i \in 1 .. Len(q) + Len(s) :
            (q \o s)[i] = IF i <= Len(q) THEN q[i] ELSE s[i - Len(q)]
  BY ConcatProperties, LenProperties
<1>2. ASSUME NEW i \in 1 .. Len(q \o s), (q \o s)[i].type = "SMI_RW"
      PROVE  i \in 1 .. Len(q) /\ (q \o s)[i] = q[i]
  <2>1. CASE i <= Len(q)
    BY <1>1, <2>1
  <2>2. CASE i > Len(q)
    <3>1. i - Len(q) \in 1 .. Len(s) /\ (q \o s)[i] = s[i - Len(q)]
      BY <1>1, <2>2
    <3>2. s[i - Len(q)] \in Range(s)
      BY <3>1, RangeEquality
    <3> QED BY <1>2, <3>1, <3>2
  <2> QED BY <1>1, <2>1, <2>2
<1> QED BY <1>2 DEF Once

LEMMA OnceAppend ==
  ASSUME NEW q \in Seq(Job), NEW j \in Job, Once(q),
         \A k \in Range(q) : ~(k.type = "SMI_RW" /\ k.req = j.req)
  PROVE  Once(Append(q, j))
<1>1. /\ Len(q) \in Nat /\ Len(Append(q, j)) = Len(q) + 1
      /\ \A i \in 1 .. Len(q) : Append(q, j)[i] = q[i]
      /\ Append(q, j)[Len(q) + 1] = j
  BY AppendProperties, LenProperties
<1>2. \A i \in 1 .. Len(q) : ~(q[i].type = "SMI_RW" /\ q[i].req = j.req)
  BY RangeEquality
<1>3. \A i \in 1 .. Len(q) + 1 : i \in 1 .. Len(q) \/ i = Len(q) + 1
  BY <1>1
<1> QED BY <1>1, <1>2, <1>3 DEF Once

(* Steps that touch no request: the ODE's variables stay and no request is *)
(* queued.                                                                 *)
LEMMA UntouchedOnce ==
  ASSUME TypeInv, OneAnswerInv, UNCHANGED <<odeVars, asked>>,
         Once(mbox'), \A j \in Jobs' : j \in Jobs \/ j.type # "SMI_RW"
  PROVE  OneAnswerInv'
<1>1. ASSUME NEW r \in Reqs PROVE (Queued(r)' => Queued(r)) /\ Serving(r)' = Serving(r)
  BY DEF Queued, Serving, odeVars
<1>2. Once(mbox)'
  BY DEF Once
<1> QED BY <1>1, <1>2 DEF OneAnswerInv, OneAnswer, odeVars

(* A job that is no request is taken, and others that are none are posted. *)
LEMMA TakeOnce ==
  ASSUME TypeInv, OneAnswerInv, NEW type, Take(type), NEW s \in Seq(Job), TakeAndPost(s),
         \A j \in Range(s) : j.type # "SMI_RW"
  PROVE  /\ Once(mbox')
         /\ \A j \in Jobs' : j \in Jobs \/ j.type # "SMI_RW"
         /\ type = "SMI_RW" =>
              \A j \in Jobs' : ~(j.type = "SMI_RW" /\ j.req = Head(mbox).req)
<1>1. mbox \in Seq(Job) /\ mbox # <<>> /\ Tail(mbox) \in Seq(Job) /\ Once(mbox)
  BY TypeFacts, HeadTailProperties DEF Take, OneAnswerInv
<1>2. Once(Tail(mbox)) /\ \A j \in Range(Tail(mbox)) :
        ~(j.type = "SMI_RW" /\ Head(mbox).type = "SMI_RW" /\ j.req = Head(mbox).req)
  BY <1>1, OnceTail
<1>3. Once(Tail(mbox) \o s)
  BY <1>1, <1>2, OnceConcat
<1>4. Jobs = {Head(mbox)} \cup Range(Tail(mbox)) /\ Jobs' = Range(Tail(mbox)) \cup Range(s)
  BY <1>1, TakeJobs
<1> QED BY <1>2, <1>3, <1>4 DEF TakeAndPost, Take

LEMMA TakeUntouched ==
  ASSUME TypeInv, OneAnswerInv, UNCHANGED <<odeVars, asked>>,
         NEW type, Take(type), NEW s \in Seq(Job), TakeAndPost(s),
         \A j \in Range(s) : j.type # "SMI_RW"
  PROVE  OneAnswerInv'
  BY TakeOnce, UntouchedOnce

(* The request of the oldest job, before and after it is taken. *)
LEMMA HeadQueued ==
  ASSUME TypeInv, OneAnswerInv, Take("SMI_RW")
  PROVE  /\ Head(mbox).req \in Reqs
         /\ asked[Head(mbox).req] # "none" /\ nAns[Head(mbox).req] = 0
         /\ ~Serving(Head(mbox).req)
<1>1. Head(mbox) \in Jobs /\ Head(mbox).type = "SMI_RW" /\ Head(mbox).req \in Reqs
  BY HeadJob DEF WellFormed
<1>2. Queued(Head(mbox).req)
  BY <1>1 DEF Queued
<1> QED BY <1>1, <1>2 DEF OneAnswerInv, OneAnswer

(* A request that is not queued any more, nor being served, is answered.   *)
LEMMA AnswerOnce ==
  ASSUME TypeInv, OneAnswerInv, NEW r \in Reqs, NEW res, NEW val, NEW longer,
         AnswerWith(r, res, val, longer),
         asked[r] # "none", nAns[r] = 0, UNCHANGED asked,
         Once(mbox'), \A q \in Reqs : Queued(q)' => Queued(q) /\ q # r,
         \A q \in Reqs : Serving(q)' => Serving(q) /\ q # r
  PROVE  OneAnswerInv' /\ nAns'[r] = 1 /\ \A q \in Reqs \ {r} : nAns'[q] = nAns[q]
<1>1. nAns \in [Reqs -> Nat]
  BY DEF TypeInv, TypeOK, OdTypeOK
<1>2. nAns'[r] = 1 /\ \A q \in Reqs \ {r} : nAns'[q] = nAns[q]
  BY <1>1 DEF AnswerWith
<1>3. ASSUME NEW q \in Reqs PROVE OneAnswer(q)'
  BY <1>2 DEF OneAnswerInv, OneAnswer
<1>4. Once(mbox)'
  BY DEF Once
<1> QED BY <1>2, <1>3, <1>4 DEF OneAnswerInv

-----------------------------------------------------------------------------
(* Every step keeps OneAnswerInv and is a step of the request/reply        *)
(* contract or none.                                                       *)

LEMMA StatusUnchanged ==
  ASSUME \A r \in Reqs : asked'[r] = asked[r] /\ nAns'[r] = nAns[r]
  PROVE  Status' = Status
<1>1. \A r \in Reqs : StatusOf(r)' = StatusOf(r)
  BY DEF StatusOf
<1> QED BY <1>1 DEF Status

LEMMA AnswerStep ==
  ASSUME OneAnswerInv, NEW r \in Reqs, asked[r] # "none", nAns[r] = 0, UNCHANGED asked,
         nAns'[r] = 1, \A q \in Reqs \ {r} : nAns'[q] = nAns[q]
  PROVE  RR!Next
<1>1. StatusOf(r) = "asked" /\ StatusOf(r)' = "answered"
  BY DEF StatusOf
<1>2. \A q \in Reqs \ {r} : StatusOf(q)' = StatusOf(q)
  BY DEF StatusOf
<1>3. Status[r] = "asked" /\ Status' = [Status EXCEPT ![r] = "answered"]
  BY <1>1, <1>2 DEF Status
<1> QED BY <1>3 DEF RR!Next, RR!Answer

LEMMA OdeRejectOnce ==
  ASSUME TypeInv, OneAnswerInv, OdeReject
  PROVE  OneAnswerInv' /\ RR!Next
<1> DEFINE r == Head(mbox).req
<1>1. Take("SMI_RW") /\ TakeAndPost(<<>>) /\ UNCHANGED <<ode, odeReq, asked>>
        /\ \E res, val : AnswerWith(r, res, val, FALSE)
  BY DEF OdeReject, AnswerReq, appVars
<1>2. r \in Reqs /\ asked[r] # "none" /\ nAns[r] = 0 /\ ~Serving(r)
  BY <1>1, HeadQueued
<1>3. Once(mbox') /\ \A q \in Reqs : Queued(q)' => Queued(q) /\ q # r
  BY <1>1, NoJobs, TakeOnce DEF Queued
<1>4. \A q \in Reqs : Serving(q)' => Serving(q) /\ q # r
  BY <1>1, <1>2 DEF Serving
<1> HIDE DEF r
<1> QED BY <1>1, <1>2, <1>3, <1>4, AnswerOnce, AnswerStep

LEMMA OdeAcceptOnce ==
  ASSUME TypeInv, OneAnswerInv, OdeAccept
  PROVE  OneAnswerInv' /\ (RR!Next \/ UNCHANGED Status)
<1> DEFINE r == Head(mbox).req
<1>1. Take("SMI_RW") /\ ode = "ODactive" /\ odeReq' = r /\ UNCHANGED asked
  BY DEF OdeAccept, appVars
<1>2. r \in Reqs /\ asked[r] # "none" /\ nAns[r] = 0
  BY <1>1, HeadQueued
<1>3. CASE Head(mbox).kind = "Batch"
  <2>1. TakeAndPost(<<>>) /\ UNCHANGED ode /\ \E res, val : AnswerWith(r, res, val, FALSE)
    BY <1>3 DEF OdeAccept, AnswerReq
  <2>2. Once(mbox') /\ \A q \in Reqs : Queued(q)' => Queued(q) /\ q # r
    BY <1>1, <2>1, NoJobs, TakeOnce DEF Queued
  <2>3. \A q \in Reqs : Serving(q)' => Serving(q) /\ q # r
    BY <1>1, <2>1 DEF Serving
  <2> HIDE DEF r
  <2> QED BY <1>1, <1>2, <2>1, <2>2, <2>3, AnswerOnce, AnswerStep
<1>4. CASE Head(mbox).kind # "Batch"
  <2> DEFINE job == MkJob("AL_REQ", "ODE", r, Head(mbox).kind, "OK", "none")
  <2>1. TakeAndPost(<<job>>) /\ UNCHANGED nAns
    BY <1>4 DEF OdeAccept
  <2>2. job \in Job /\ job.type # "SMI_RW"
    <3>1. r \in Ids \cup {NoReq} /\ Head(mbox).kind \in AllKinds
      BY <1>1, HeadJob DEF Job
    <3>2. job \in Job
      BY <3>1, MkJobType DEF JobTypes, Clients, Results, Tags
    <3> QED BY <3>2 DEF MkJob
  <2> HIDE DEF job
  <2>3. <<job>> \in Seq(Job) /\ Range(<<job>>) = {job}
    BY <2>2, OneJob
  <2>4. Once(mbox') /\ \A q \in Reqs : Queued(q)' => Queued(q) /\ q # r
    BY <1>1, <2>1, <2>2, <2>3, TakeOnce DEF Queued
  <2> HIDE DEF r
  <2>5. \A q \in Reqs : Serving(q)' => q = r
    BY <1>1 DEF Serving
  <2>6. Once(mbox)'
    BY <2>4 DEF Once
  <2>7. ASSUME NEW q \in Reqs PROVE OneAnswer(q)'
    BY <1>1, <1>2, <2>1, <2>4, <2>5 DEF OneAnswerInv, OneAnswer
  <2>8. UNCHANGED Status
    BY <1>1, <2>1, StatusUnchanged
  <2> QED BY <2>6, <2>7, <2>8 DEF OneAnswerInv
<1> QED BY <1>3, <1>4

LEMMA OdeConfirmOnce ==
  ASSUME TypeInv, OneAnswerInv, OdeConfirm
  PROVE  OneAnswerInv' /\ (RR!Next \/ UNCHANGED Status)
<1>1. Take("AL_CNF") /\ TakeAndPost(<<>>) /\ UNCHANGED <<odeReq, asked>>
  BY DEF OdeConfirm, appVars
<1>2. Once(mbox') /\ \A j \in Jobs' : j \in Jobs \/ j.type # "SMI_RW"
  BY <1>1, NoJobs, TakeOnce
<1>3. CASE ode = "ODblocked"
  <2>1. ode' = "ODactive" /\ \E res, val, longer : AnswerWith(odeReq, res, val, longer)
    BY <1>3 DEF OdeConfirm, AnswerReq
  <2>2. odeReq \in Reqs /\ Serving(odeReq)
    BY <1>3 DEF TypeInv, JobsWellFormed, Serving
  <2>3. asked[odeReq] # "none" /\ nAns[odeReq] = 0 /\ ~Queued(odeReq)
    BY <2>2 DEF OneAnswerInv, OneAnswer
  <2>4. \A q \in Reqs : Queued(q)' => Queued(q) /\ q # odeReq
    BY <1>2, <2>3 DEF Queued
  <2>5. \A q \in Reqs : ~Serving(q)'
    BY <2>1 DEF Serving
  <2> QED BY <1>1, <1>2, <2>1, <2>2, <2>3, <2>4, <2>5, AnswerOnce, AnswerStep
<1>4. CASE ode # "ODblocked"
  <2>1. UNCHANGED <<odeVars, asked>>
    BY <1>1, <1>4 DEF OdeConfirm, odeVars
  <2> QED BY <1>2, <2>1, UntouchedOnce, StatusUnchanged DEF odeVars
<1> QED BY <1>3, <1>4

LEMMA OdeSwitchOnce ==
  ASSUME TypeInv, OneAnswerInv, OdeStart \/ OdeStop \/ DsConfirm
  PROVE  OneAnswerInv' /\ UNCHANGED Status
<1>1. /\ \E type : Take(type) /\ TakeAndPost(<<>>)
      /\ UNCHANGED <<odeReq, asked, nAns>>
      /\ ode' = ode \/ ode' # "ODblocked"
  BY DEF OdeStart, OdeStop, DsConfirm, odeVars, appVars
<1>2. Once(mbox') /\ \A j \in Jobs' : j \in Jobs \/ j.type # "SMI_RW"
  BY <1>1, NoJobs, TakeOnce
<1>3. Once(mbox)'
  BY <1>2 DEF Once
<1>4. \A r \in Reqs : (Queued(r)' => Queued(r)) /\ (Serving(r)' => Serving(r))
  BY <1>1, <1>2 DEF Queued, Serving
<1>5. \A r \in Reqs : OneAnswer(r)'
  BY <1>1, <1>4 DEF OneAnswerInv, OneAnswer
<1> QED BY <1>1, <1>3, <1>5, StatusUnchanged DEF OneAnswerInv

LEMMA AlOnce ==
  ASSUME TypeInv, OneAnswerInv,
         \/ AlBusy \/ AlArgErr \/ AlParam \/ AlIsdu
         \/ AlReadParamCnf \/ AlWriteParamCnf \/ AlIsduCnf \/ AlAbort
  PROVE  OneAnswerInv'
<1>1. PICK type \in JobTypes : Take(type)
  BY DEF AlBusy, AlArgErr, AlParam, AlIsdu, AlReadParamCnf, AlWriteParamCnf, AlIsduCnf, AlAbort,
         JobTypes
<1>2. UNCHANGED <<odeVars, asked>>
  BY DEF AlBusy, AlArgErr, AlParam, AlIsdu, AlReadParamCnf, AlWriteParamCnf, AlIsduCnf, AlAbort,
         appVars
<1>3. Head(mbox).res \in Results /\ ServiceOf(Head(mbox)) \in Service
  BY <1>1, HeadJob, HeadService DEF Job
<1>4. \/ TakeAndPost(<<>>)
      \/ TakeAndPost(<<DlCnf("ISDU_CNF", "ERR", "none")>>)
      \/ \E svc \in Service, res \in Results, val \in Tags \cup Pointers :
            TakeAndPost(<<AlCnf(svc, res, val)>>)
  <2>1. CASE AlBusy \/ AlArgErr \/ AlParam \/ AlIsdu
    BY <1>3, <2>1, TypeFacts DEF AlBusy, AlArgErr, AlParam, AlIsdu, Results, Tags
  <2>2. CASE AlReadParamCnf \/ AlWriteParamCnf \/ AlIsduCnf \/ AlAbort
    BY <1>3, <2>2, AlConfirms, TypeFacts DEF Confirm
  <2> QED BY <2>1, <2>2
<1>5. ASSUME NEW j \in Job, j.type # "SMI_RW", TakeAndPost(<<j>>) PROVE OneAnswerInv'
  BY <1>1, <1>2, <1>5, OneJob, TakeUntouched
<1>6. DlCnf("ISDU_CNF", "ERR", "none") \in Job /\ DlCnf("ISDU_CNF", "ERR", "none").type # "SMI_RW"
  <2>1. DlCnf("ISDU_CNF", "ERR", "none") \in Job
    BY DlCnfWellFormed DEF DlCnfTypes, Results
  <2> QED BY <2>1 DEF DlCnf, MkJob
<1>7. ASSUME NEW svc \in Service, NEW res \in Results, NEW val \in Tags \cup Pointers
      PROVE  AlCnf(svc, res, val) \in Job /\ AlCnf(svc, res, val).type # "SMI_RW"
  BY AlCnfJob
<1>8. CASE TakeAndPost(<<>>)
  BY <1>1, <1>2, <1>8, NoJobs, TakeUntouched
<1> QED BY <1>4, <1>5, <1>6, <1>7, <1>8

(* A job that is no request is appended. *)
LEMMA PostUntouched ==
  ASSUME TypeInv, OneAnswerInv, UNCHANGED <<odeVars, asked>>,
         NEW s \in Seq(Job), mbox' = mbox \o s, \A j \in Range(s) : j.type # "SMI_RW"
  PROVE  OneAnswerInv'
<1>1. Once(mbox')
  BY OnceConcat, TypeFacts DEF OneAnswerInv
<1>2. Jobs' = Jobs \cup Range(s)
  BY PostJobs, TypeFacts
<1> QED BY <1>1, <1>2, UntouchedOnce

LEMMA PostOneUntouched ==
  ASSUME TypeInv, OneAnswerInv, UNCHANGED <<odeVars, asked>>,
         NEW j \in Job, j.type # "SMI_RW", Post(j)
  PROVE  OneAnswerInv'
  BY PostOne, OneJob, PostUntouched, TypeFacts

LEMMA DlOnce ==
  ASSUME TypeInv, OneAnswerInv, DlStep \/ DlParamReq \/ DlIsduReq
  PROVE  OneAnswerInv' /\ UNCHANGED <<odeVars, asked>>
<1>1. UNCHANGED <<odeVars, asked>>
  BY DEF DlStep, DlParamReq, DlIsduReq, appVars
<1>2. CASE DlStep
  <2>1. PICK s \in Seq(DlJob) : mbox' = mbox \o s
    BY <1>2, DlStepType DEF DlPosts
  <2>2. Range(s) \subseteq DlJob
    BY RangeOfSeq
  <2>3. \A j \in Range(s) : j.type # "SMI_RW"
    BY <2>2 DEF DlJob, DlTypes
  <2> QED BY <1>1, <2>1, <2>3, DlJobIsJob, PostUntouched
<1>3. CASE DlParamReq \/ DlIsduReq
  <2>1. CASE UNCHANGED mbox
    BY <1>1, <2>1, UntouchedOnce DEF OneAnswerInv, Jobs
  <2>2. ASSUME NEW type \in DlCnfTypes, Post(DlCnf(type, "ERR", "none")) PROVE OneAnswerInv'
    <3>1. DlCnf(type, "ERR", "none") \in Job
      BY DlCnfWellFormed DEF Results
    <3>2. DlCnf(type, "ERR", "none").type # "SMI_RW"
      BY <3>1 DEF DlCnf, MkJob, DlCnfTypes
    <3> QED BY <1>1, <2>2, <3>1, <3>2, PostOneUntouched
  <2>3. UNCHANGED mbox \/ \E type \in DlCnfTypes : Post(DlCnf(type, "ERR", "none"))
    BY <1>3 DEF DlParamReq, DlIsduReq, DlCnfTypes
  <2> QED BY <1>1, <2>1, <2>2, <2>3
<1> QED BY <1>1, <1>2, <1>3

LEMMA ApplicationOnce ==
  ASSUME TypeInv, OneAnswerInv, Application
  PROVE  OneAnswerInv' /\ (RR!Next \/ UNCHANGED Status)
<1>1. UNCHANGED odeVars
  BY DEF Application, SMI_DeviceRW_req, SMI_PortConfiguration_req, AL_Abort, DsRead
<1>2. asked \in [Ids -> AllKinds \cup {"none"}] /\ mbox \in Seq(Job)
  BY TypeFacts DEF TypeInv, TypeOK, OdTypeOK
<1>3. ASSUME NEW r \in Reqs, NEW k \in Kinds, SMI_DeviceRW_req(r, k)
      PROVE  OneAnswerInv' /\ RR!Next
  <2> DEFINE job == MkJob("SMI_RW", "ODE", r, k, "OK", "none")
  <2>1. asked[r] = "none" /\ asked' = [asked EXCEPT ![r] = k] /\ Post(job)
    BY <1>3 DEF SMI_DeviceRW_req
  <2>2. k \in AllKinds /\ k # "none" /\ r \in Ids
    BY OnRequestAssumption DEF AllKinds, ReadKinds, WriteKinds, Ids
  <2>3. job \in Job /\ job.type = "SMI_RW" /\ job.req = r
    <3>1. job \in Job
      BY <2>2, MkJobType DEF JobTypes, Clients, Results, Tags
    <3> QED BY <3>1 DEF MkJob
  <2> HIDE DEF job
  <2>4. ~Queued(r) /\ ~Serving(r) /\ nAns[r] = 0
    BY <2>1 DEF OneAnswerInv, OneAnswer
  <2>5. Once(mbox')
    BY <1>2, <2>1, <2>3, <2>4, OnceAppend DEF OneAnswerInv, Queued, Jobs, Post
  <2>6. Jobs' = Jobs \cup {job}
    BY <1>2, <2>1, <2>3, PostOne
  <2>7. asked'[r] = k /\ \A q \in Reqs \ {r} : asked'[q] = asked[q]
    BY <1>2, <2>1, <2>2 DEF Ids
  <2>8. \A q \in Reqs : Serving(q)' = Serving(q) /\ (Queued(q)' => Queued(q) \/ q = r)
          /\ nAns'[q] = nAns[q]
    BY <1>1, <2>3, <2>6 DEF Serving, Queued, odeVars
  <2>9. \A q \in Reqs : OneAnswer(q)'
    BY <2>2, <2>4, <2>7, <2>8 DEF OneAnswerInv, OneAnswer
  <2>10. OneAnswerInv'
    <3>1. Once(mbox)'
      BY <2>5 DEF Once
    <3> QED BY <2>9, <3>1 DEF OneAnswerInv
  <2>11. StatusOf(r) = "unused" /\ StatusOf(r)' = "asked"
           /\ \A q \in Reqs \ {r} : StatusOf(q)' = StatusOf(q)
    <3>1. StatusOf(r) = "unused"
      BY <2>1 DEF StatusOf
    <3>2. asked'[r] # "none" /\ nAns'[r] = 0
      BY <2>2, <2>4, <2>7, <2>8
    <3>3. StatusOf(r)' = "asked"
      BY <3>2 DEF StatusOf
    <3>4. \A q \in Reqs \ {r} : asked'[q] = asked[q] /\ nAns'[q] = nAns[q]
      BY <2>7, <2>8
    <3>5. \A q \in Reqs \ {r} : StatusOf(q)' = StatusOf(q)
      BY <3>4 DEF StatusOf
    <3> QED BY <3>1, <3>3, <3>5
  <2>12. Status[r] = "unused" /\ Status' = [Status EXCEPT ![r] = "asked"]
    BY <2>11 DEF Status
  <2> QED BY <2>10, <2>12 DEF RR!Next, RR!Ask
<1>4. ASSUME SMI_PortConfiguration_req \/ AL_Abort
      PROVE  OneAnswerInv' /\ UNCHANGED Status
  <2>1. PICK type \in {"SMI_CFG", "AL_ABORT"} : Post(Signal(type))
    BY <1>4 DEF SMI_PortConfiguration_req, AL_Abort
  <2>2. Signal(type) \in Job /\ Signal(type).type # "SMI_RW"
    BY PlainSignal
  <2>3. UNCHANGED asked
    BY <1>4 DEF SMI_PortConfiguration_req, AL_Abort
  <2> QED BY <1>1, <2>1, <2>2, <2>3, PostOneUntouched, StatusUnchanged DEF odeVars
<1>5. ASSUME NEW d \in DsReqs, DsRead(d)
      PROVE  OneAnswerInv' /\ UNCHANGED Status
  <2> DEFINE job == MkJob("AL_REQ", "DS", d, "ReadIsdu", "OK", "none")
  <2>1. job \in Job /\ job.type # "SMI_RW"
    <3>1. job \in Job
      BY MkJobType DEF JobTypes, Clients, Results, Tags, Ids, AllKinds, ReadKinds
    <3> QED BY <3>1 DEF MkJob
  <2>2. Post(job)
    BY <1>5 DEF DsRead
  <2> HIDE DEF job
  <2>3. \A r \in Reqs : asked'[r] = asked[r] /\ nAns'[r] = nAns[r]
    BY <1>1, <1>2, <1>5, RequestsAssumption DEF DsRead, Ids, odeVars
  <2>4. Once(mbox') /\ Jobs' = Jobs \cup {job}
    <3>1. mbox' = mbox \o <<job>> /\ Jobs' = Jobs \cup {job}
      BY <1>2, <2>1, <2>2, PostOne
    <3>2. <<job>> \in Seq(Job) /\ \A j \in Range(<<job>>) : j.type # "SMI_RW"
      BY <2>1, OneJob
    <3> QED BY <1>2, <3>1, <3>2, OnceConcat DEF OneAnswerInv
  <2>5. \A r \in Reqs : Serving(r)' = Serving(r) /\ Queued(r)' = Queued(r)
    BY <1>1, <2>1, <2>4 DEF Serving, Queued, odeVars
  <2>6. OneAnswerInv'
    BY <2>3, <2>4, <2>5 DEF OneAnswerInv, OneAnswer, Once
  <2> QED BY <2>3, <2>6, StatusUnchanged
<1> QED BY <1>3, <1>4, <1>5 DEF Application

LEMMA NextOnce ==
  ASSUME TypeInv, OneAnswerInv, [Next]_vars
  PROVE  OneAnswerInv' /\ [RR!Next]_Status
<1>1. CASE PortAction
  <2>1. UNCHANGED <<odeVars, asked>>
    BY <1>1 DEF PortAction, CmCfgChange, SmSetPortConfig, SmModeStartup, SmReadCnf, SmModeOperate,
                SmModeComlost, SmModeInactive, CmOperate, CmComlost, PortStep, appVars
  <2> QED BY <1>1, <2>1, PortPosts, TakeUntouched, StatusUnchanged DEF odeVars
<1>2. CASE AlBusy \/ AlArgErr \/ AlParam \/ AlIsdu
           \/ AlReadParamCnf \/ AlWriteParamCnf \/ AlIsduCnf \/ AlAbort
  <2>1. UNCHANGED <<nAns, asked>>
    BY <1>2 DEF AlBusy, AlArgErr, AlParam, AlIsdu, AlReadParamCnf, AlWriteParamCnf, AlIsduCnf,
                AlAbort, appVars, odeVars
  <2> QED BY <1>2, <2>1, AlOnce, StatusUnchanged
<1>3. CASE DlStep \/ DlParamReq \/ DlIsduReq
  BY <1>3, DlOnce, StatusUnchanged DEF odeVars
<1>4. CASE UNCHANGED vars
  BY <1>4, StatusUnchanged
     DEF vars, odeVars, appVars, OneAnswerInv, OneAnswer, Once, Queued, Serving, Jobs
<1> QED
  BY <1>1, <1>2, <1>3, <1>4, OdeRejectOnce, OdeAcceptOnce, OdeConfirmOnce, OdeSwitchOnce,
     ApplicationOnce
     DEF Next, MainThread, PortAction

LEMMA InitOnce == Init => OneAnswerInv /\ RR!Init
<1> SUFFICES ASSUME Init PROVE OneAnswerInv /\ RR!Init
  OBVIOUS
<1>1. Jobs = {} /\ Once(mbox)
  BY DEF Init, JobsInit, Jobs, Range, Once
<1>2. \A r \in Reqs : asked[r] = "none" /\ nAns[r] = 0 /\ ~Serving(r)
  BY DEF Init, Ids, Serving
<1>3. \A r \in Reqs : StatusOf(r) = "unused"
  BY <1>2 DEF StatusOf
<1> QED BY <1>1, <1>2, <1>3 DEF OneAnswerInv, OneAnswer, Queued, Status, RR!Init

(* The on-request services refine the safety of the request/reply contract *)
(* (SMI_rw_req_cb, ode_smi_done): only a request that was made is answered *)
(* and never twice, whatever the DL thread, the port control and the data  *)
(* storage client do in between.                                           *)
THEOREM AnsweredOnce == Spec => AnswersOnce
<1>1. TypeInv /\ OneAnswerInv /\ [Next]_vars => OneAnswerInv' /\ [RR!Next]_Status
  BY NextOnce
<1> QED BY <1>1, InitOnce, TypeInvariance, PTL DEF Spec, AnswersOnce, RR!Safety
-----------------------------------------------------------------------------
(***************************************************************************)
(* The answers to ISDU requests are their own, for every set of requests,  *)
(* every number of retries, segments, receive errors and events, on a port *)
(* that is configured once and serves one client: a confirmation is never  *)
(* taken for that of another request, nor data for another's, and no       *)
(* service is lost while communication lasts.                              *)
(***************************************************************************)

(* What live assumes: the application is the only client, configures the   *)
(* port once and does not abort.  With more the properties do not hold.    *)
OneClient == DsReqs = {} /\ MaxCfg <= 1 /\ MaxAborts = 0

-----------------------------------------------------------------------------
(* The order of the jobs in the mailbox.                                   *)

(* No job with a type of A is behind one with a type of B.  For A = B this *)
(* says that there is at most one such job.                                *)
NotAfter(q, A, B) ==
    \A i, k \in 1 .. Len(q) : q[i].type \in A /\ q[k].type \in B => i <= k

Order(A, B) == NotAfter(mbox, A, B)
Sole(T) == Order(T, T)
Has(T) == \E j \in Jobs : j.type \in T

LEMMA TailOrder ==
  ASSUME NEW q \in Seq(Job), q # <<>>, NEW A, NEW B, NotAfter(q, A, B)
  PROVE  /\ NotAfter(Tail(q), A, B)
         /\ Head(q).type \in B => \A j \in Range(Tail(q)) : j.type \notin A
<1>1. /\ Len(q) \in Nat /\ Len(q) > 0 /\ Head(q) = q[1]
      /\ Len(Tail(q)) = Len(q) - 1
      /\ \A i \in 1 .. Len(Tail(q)) : Tail(q)[i] = q[i + 1]
      /\ Tail(q) \in Seq(Job)
  BY HeadTailProperties, EmptySeq, LenProperties
<1>2. \A i \in 1 .. Len(Tail(q)) : i + 1 \in 1 .. Len(q)
  BY <1>1
<1>3. ASSUME NEW i \in 1 .. Len(Tail(q)), NEW k \in 1 .. Len(Tail(q)),
             Tail(q)[i].type \in A, Tail(q)[k].type \in B
      PROVE  i <= k
  <2>1. q[i + 1].type \in A /\ q[k + 1].type \in B
    BY <1>1, <1>3
  <2>2. i + 1 <= k + 1
    BY <1>2, <2>1 DEF NotAfter
  <2> QED BY <1>1, <2>2
<1>4. ASSUME NEW j \in Range(Tail(q)), j.type \in A, Head(q).type \in B PROVE FALSE
  <2>1. PICK i \in 1 .. Len(Tail(q)) : j = Tail(q)[i]
    <3>1. Range(Tail(q)) = {Tail(q)[i] : i \in 1 .. Len(Tail(q))}
      BY <1>1, RangeEquality
    <3> QED BY <1>4, <3>1
  <2>2. q[i + 1].type \in A /\ q[1].type \in B
    BY <1>1, <1>4, <2>1
  <2>3. i + 1 <= 1
    BY <1>1, <1>2, <2>2 DEF NotAfter
  <2> QED BY <1>1, <2>3
<1> QED BY <1>3, <1>4 DEF NotAfter

LEMMA ConcatOrder ==
  ASSUME NEW q \in Seq(Job), NEW s \in Seq(Job), NEW A, NEW B,
         NotAfter(q, A, B), NotAfter(s, A, B),
         (\A j \in Range(s) : j.type \notin A) \/ (\A j \in Range(q) : j.type \notin B)
  PROVE  NotAfter(q \o s, A, B)
<1>1. /\ Len(q) \in Nat /\ Len(s) \in Nat /\ Len(q \o s) = Len(q) + Len(s)
      /\ \A i \in 1 .. Len(q) + Len(s) :
            (q \o s)[i] = IF i <= Len(q) THEN q[i] ELSE s[i - Len(q)]
  BY ConcatProperties, LenProperties
<1>2. /\ \A i \in 1 .. Len(q) : q[i] \in Range(q)
      /\ \A i \in 1 .. Len(s) : s[i] \in Range(s)
  BY RangeEquality
<1> SUFFICES ASSUME NEW i \in 1 .. Len(q \o s), NEW k \in 1 .. Len(q \o s),
                    (q \o s)[i].type \in A, (q \o s)[k].type \in B
             PROVE  i <= k
  BY DEF NotAfter
<1>3. CASE i <= Len(q) /\ k <= Len(q)
  <2>1. i \in 1 .. Len(q) /\ k \in 1 .. Len(q) /\ q[i].type \in A /\ q[k].type \in B
    BY <1>1, <1>3
  <2> QED BY <2>1 DEF NotAfter
<1>4. CASE i > Len(q) /\ k > Len(q)
  <2>1. /\ i - Len(q) \in 1 .. Len(s) /\ k - Len(q) \in 1 .. Len(s)
        /\ s[i - Len(q)].type \in A /\ s[k - Len(q)].type \in B
    BY <1>1, <1>4
  <2>2. i - Len(q) <= k - Len(q)
    BY <2>1 DEF NotAfter
  <2> QED BY <1>1, <2>2
<1>5. CASE i > Len(q) /\ k <= Len(q)
  <2>1. /\ i - Len(q) \in 1 .. Len(s) /\ k \in 1 .. Len(q)
        /\ s[i - Len(q)].type \in A /\ q[k].type \in B
    BY <1>1, <1>5
  <2> QED BY <1>2, <2>1
<1> QED BY <1>1, <1>3, <1>4, <1>5

LEMMA ShortOrder ==
  ASSUME NEW A, NEW B
  PROVE  NotAfter(<<>>, A, B) /\ \A j : NotAfter(<<j>>, A, B)
  BY DEF NotAfter

(* Jobs are appended, or the oldest is taken and others are appended.      *)
Moves(s) == mbox' = mbox \o s \/ (mbox # <<>> /\ TakeAndPost(s))

LEMMA MovesJobs ==
  ASSUME TypeInv, NEW s \in Seq(Job), Moves(s)
  PROVE  /\ Jobs' \subseteq Jobs \cup Range(s)
         /\ Range(s) \subseteq Jobs'
         /\ \A j \in Jobs : j \in Jobs' \/ (mbox # <<>> /\ j = Head(mbox))
<1>1. CASE mbox' = mbox \o s
  BY <1>1, PostJobs, TypeFacts
<1>2. CASE mbox # <<>> /\ TakeAndPost(s)
  BY <1>2, TakeJobs, TypeFacts
<1> QED BY <1>1, <1>2 DEF Moves

LEMMA MovesOrder ==
  ASSUME TypeInv, NEW s \in Seq(Job), Moves(s), NEW A, NEW B,
         Order(A, B), NotAfter(s, A, B), (\A j \in Range(s) : j.type \notin A) \/ ~Has(B)
  PROVE  Order(A, B)'
<1>1. mbox \in Seq(Job)
  BY TypeFacts
<1>2. CASE mbox' = mbox \o s
  BY <1>1, <1>2, ConcatOrder DEF Order, Has, Jobs
<1>3. CASE mbox # <<>> /\ TakeAndPost(s)
  <2>1. Tail(mbox) \in Seq(Job) /\ Range(Tail(mbox)) \subseteq Jobs
    BY <1>1, <1>3, TakeJobs, HeadTailProperties
  <2>2. NotAfter(Tail(mbox), A, B)
    BY <1>1, <1>3, TailOrder DEF Order
  <2>3. NotAfter(Tail(mbox) \o s, A, B)
    BY <2>1, <2>2, ConcatOrder DEF Has
  <2> QED BY <1>3, <2>3 DEF Order, TakeAndPost
<1> QED BY <1>2, <1>3 DEF Moves

(* A type of which there is one job, and that job is taken.                *)
LEMMA TakeSole ==
  ASSUME TypeInv, NEW type, Take(type), NEW s \in Seq(Job), TakeAndPost(s),
         NEW A, NEW B, type \in B, Order(A, B)
  PROVE  /\ (\A j \in Range(s) : j.type \notin A) => ~Has(A)'
         /\ A = B /\ NotAfter(s, A, A) => Order(A, A)'
<1>1. mbox \in Seq(Job) /\ mbox # <<>> /\ Head(mbox).type \in B
  BY TypeFacts DEF Take
<1>2. Tail(mbox) \in Seq(Job) /\ Jobs' = Range(Tail(mbox)) \cup Range(s)
  BY <1>1, TakeJobs, HeadTailProperties
<1>3. NotAfter(Tail(mbox), A, B) /\ \A j \in Range(Tail(mbox)) : j.type \notin A
  BY <1>1, TailOrder DEF Order
<1>4. (\A j \in Range(s) : j.type \notin A) => ~Has(A)'
  BY <1>2, <1>3 DEF Has
<1>5. ASSUME A = B, NotAfter(s, A, A) PROVE Order(A, A)'
  <2>1. NotAfter(Tail(mbox) \o s, A, A)
    BY <1>2, <1>3, <1>5, ConcatOrder
  <2> QED BY <2>1 DEF Order, TakeAndPost
<1> QED BY <1>4, <1>5

-----------------------------------------------------------------------------
(* What the ISDU handler does in a cycle: it confirms the transfer it      *)
(* holds, or it goes on with it and at most confirms a direct parameter.   *)

ParamCnfs == {"READPARAM_CNF", "WRITEPARAM_CNF"}

(* The ISDU handler has a transfer, or is about to start one ... *)
Carries ==
    /\ isdu # "INACTIVE_0"
    /\ isdu # "IDLE_1" \/ totSeg # 0 \/ rwcmd = "ISDUTRANSPORT"

(* ... which it has confirmed already, and has yet to clear. *)
CycleClears == Clears \ {"clearLost"}
Confirmed == dlPc \in Leaves \/ (dlPc \in CycleClears /\ isdu # "IDLE_1")

(* A confirmation is still due. *)
Held == Carries /\ ~Confirmed

(* It will confirm one even if the command is dropped. *)
Loaded == isdu # "INACTIVE_0" /\ (isdu = "IDLE_1" => totSeg # 0)

(* The data are the answer to the request. *)
Own(kind, req, val) == IF kind = "ReadIsdu" THEN val = req ELSE req \in served

IsduGoesOn ==
    /\ UNCHANGED mbox \/ \E j \in Job : Post(j) /\ j.type \in ParamCnfs
    /\ UNCHANGED <<alData, alLen, isduReq>>
    /\ served \subseteq served'
    /\ Carries' => Carries
    /\ Loaded => Loaded'
    /\ UNCHANGED mbox => UNCHANGED rwcmd
    /\ ~UNCHANGED mbox => isdu' = "IDLE_1"

IsduConfirms ==
    /\ Carries /\ isdu # "IDLE_1"
    /\ IF Parallel THEN UNCHANGED isdu
                   ELSE isdu' = "IDLE_1" /\ totSeg' = 0 /\ rwcmd' = "NONE"
    /\ totSeg' = 0 \/ isdu \in {"ISDUWAIT_3", "ISDURESPONSE_5"}
    /\ mbox' # mbox
    /\ \E j \in Job :
          /\ Post(j) /\ j.type = "ISDU_CNF"
          /\ j.res = "OK" /\ isduReq # NoReq =>
                IF alSvc.kind = "ReadIsdu" THEN alData' = isduReq /\ alLen' = "data"
                                           ELSE isduReq \in served'
    /\ UNCHANGED isduReq
    /\ served \subseteq served'

IsduStep == IsduGoesOn \/ IsduConfirms

LEMMA CnfJob ==
  ASSUME NEW type \in DlCnfTypes, NEW res \in Results, NEW val \in Tags
  PROVE  /\ DlCnf(type, res, val) \in Job
         /\ DlCnf(type, res, val).type = type /\ DlCnf(type, res, val).res = res
<1>1. DlCnf(type, res, val) \in DlJob
  BY DlCnfIsDlJob DEF DlCnfTypes
<1> QED BY <1>1 DEF DlJob, DlCnf, MkJob

LEMMA IsduError4Step ==
  ASSUME TypeInv, IsduError4, isdu \notin {"INACTIVE_0", "IDLE_1"}
  PROVE  IsduStep
<1>1. /\ DlCnf("ISDU_CNF", "ERR", "none") \in Job
      /\ DlCnf("ISDU_CNF", "ERR", "none").type = "ISDU_CNF"
      /\ DlCnf("ISDU_CNF", "ERR", "none").res = "ERR"
  BY CnfJob DEF DlCnfTypes, Results, Tags
<1>2. Post(DlCnf("ISDU_CNF", "ERR", "none"))
  BY DEF IsduError4, DL_ISDUTransport_cnf
<1>3. mbox' # mbox
  BY <1>1, <1>2, TypeFacts, AppendProperties DEF Post
<1> HIDE DEF DlCnf
<1> QED BY <1>1, <1>2, <1>3 DEF IsduError4, After, IsduStep, IsduConfirms, Carries

LEMMA ReceptionCompleteStep ==
  ASSUME TypeInv, ReceptionComplete, isdu \in {"ISDUWAIT_3", "ISDURESPONSE_5"}
  PROVE  IsduStep
<1>1. PICK outcome \in {"POS", "NEG", "ERROR"} :
        /\ DL_ISDUTransport_cnf(outcome)
        /\ served' = IF outcome = "POS" THEN served \cup ({isduReq} \ {NoReq}) ELSE served
  BY DEF ReceptionComplete
<1> DEFINE res == IF outcome = "POS" THEN "OK" ELSE "ERR"
           cnf == DlCnf("ISDU_CNF", res, "none")
<1>2. cnf \in Job /\ cnf.type = "ISDU_CNF" /\ cnf.res = res
  BY CnfJob DEF DlCnfTypes, Results, Tags
<1>3. Post(cnf)
  BY <1>1 DEF DL_ISDUTransport_cnf
<1>4. ASSUME res = "OK", isduReq # NoReq
      PROVE  IF alSvc.kind = "ReadIsdu" THEN alData' = isduReq /\ alLen' = "data"
                                        ELSE isduReq \in served'
  <2>1. outcome = "POS" /\ (alSvc.kind = "ReadIsdu" => alSvc.kind \in ReadKinds)
    BY <1>4 DEF ReadKinds
  <2> QED BY <1>1, <1>4, <2>1 DEF DL_ISDUTransport_cnf
<1>5. served \subseteq served'
  BY <1>1
<1> HIDE DEF cnf, res
<1>6. mbox' # mbox
  BY <1>2, <1>3, TypeFacts, AppendProperties DEF Post
<1> QED BY <1>2, <1>3, <1>4, <1>5, <1>6 DEF ReceptionComplete, After, IsduStep, IsduConfirms, Carries

(* The handler keeps what it has. *)
LEMMA GoesOn ==
  ASSUME UNCHANGED <<mbox, alData, alLen, isduReq, rwcmd, served>>,
         \/ UNCHANGED <<isdu, totSeg>>
         \/ isdu' \notin {"INACTIVE_0", "IDLE_1"} /\ Carries
  PROVE  IsduStep
  BY DEF IsduStep, IsduGoesOn, Carries, Loaded

LEMMA IsduMasterStep ==
  ASSUME TypeInv, IsduMaster
  PROVE  IsduStep
<1>1. CASE IsduMasterIdle
  <2>1. CASE rwcmd = "ISDUTRANSPORT"
    BY <1>1, <2>1, GoesOn DEF IsduMasterIdle, Carries
  <2>2. CASE rwcmd # "ISDUTRANSPORT"
    BY <1>1, <2>2, GoesOn DEF IsduMasterIdle, NextMessage
  <2> QED BY <2>1, <2>2
<1>2. CASE isdu \notin {"INACTIVE_0", "IDLE_1"} /\ IsduError4
  BY <1>2, IsduError4Step
<1>3. CASE UNCHANGED <<mbox, alData, alLen, isdu, isduReq, totSeg, rwcmd, served>>
  BY <1>3, GoesOn
<1> QED BY <1>1, <1>2, <1>3 DEF IsduMaster, NextMessage

LEMMA IsduDeviceIdleStep ==
  ASSUME TypeInv, IsduDeviceIdle
  PROVE  IsduStep
<1>1. RxOctet \in Tags
  BY TypeFacts DEF RxOctet, IsduTyped, Messages, Tags
<1>2. served \subseteq Written
  BY DEF Written
<1>3. CASE rwcmd = "READPARAM"
  <2>1. /\ DlCnf("READPARAM_CNF", "OK", RxOctet) \in Job
        /\ DlCnf("READPARAM_CNF", "OK", RxOctet).type \in ParamCnfs
    BY <1>1, CnfJob DEF DlCnfTypes, Results, ParamCnfs
  <2>2. /\ Post(DlCnf("READPARAM_CNF", "OK", RxOctet))
        /\ UNCHANGED <<alData, alLen, isdu, isduReq, totSeg, served>> /\ isdu = "IDLE_1"
        /\ rwcmd' \in {rwcmd, "NONE"}
    BY <1>3 DEF IsduDeviceIdle, After
  <2>3. ~UNCHANGED mbox
    BY <2>1, <2>2, PostOne, TypeFacts, AppendProperties DEF Post
  <2> QED BY <2>1, <2>2, <2>3 DEF IsduStep, IsduGoesOn, Carries, Loaded
<1>4. CASE rwcmd = "WRITEPARAM"
  <2>1. /\ DlCnf("WRITEPARAM_CNF", "OK", "none") \in Job
        /\ DlCnf("WRITEPARAM_CNF", "OK", "none").type \in ParamCnfs
    BY CnfJob DEF DlCnfTypes, Results, ParamCnfs, Tags
  <2>2. /\ Post(DlCnf("WRITEPARAM_CNF", "OK", "none"))
        /\ UNCHANGED <<alData, alLen, isdu, isduReq, totSeg>> /\ isdu = "IDLE_1"
        /\ rwcmd' \in {rwcmd, "NONE"}
        /\ served \subseteq served'
    BY <1>2, <1>4 DEF IsduDeviceIdle, After
  <2>3. ~UNCHANGED mbox
    BY <2>1, <2>2, PostOne, TypeFacts, AppendProperties DEF Post
  <2> QED BY <2>1, <2>2, <2>3 DEF IsduStep, IsduGoesOn, Carries, Loaded
<1>5. CASE rwcmd \in {"NONE", "READ", "ISDUTRANSPORT"}
  BY <1>2, <1>5 DEF IsduDeviceIdle, IsduStep, IsduGoesOn, Carries, Loaded
<1> QED BY <1>3, <1>4, <1>5 DEF IsduDeviceIdle

LEMMA IsduDeviceStep ==
  ASSUME TypeInv, IsduDevice
  PROVE  IsduStep
<1>1. CASE IsduDeviceRequest
  BY <1>1, GoesOn DEF IsduDeviceRequest, IsduQuiet, Carries
<1>2. CASE IsduDeviceWait
  <2>1. isdu = "ISDUWAIT_3"
    BY <1>2 DEF IsduDeviceWait
  <2>2. CASE \E n \in 2 .. Segs :
               /\ totSeg' = n /\ curSeg' = 1 /\ elapsed' = FALSE
               /\ isdu' = "ISDURESPONSE_5"
               /\ UNCHANGED <<mbox, alData, alLen, isduReq, msg, rwcmd, served>>
    BY <2>1, <2>2, GoesOn DEF Carries
  <2>3. CASE IsduQuiet \/ EnterIsduError4
    BY <2>1, <2>3, GoesOn DEF IsduQuiet, EnterIsduError4, Carries
  <2>4. CASE ReceptionComplete
    BY <2>1, <2>4, ReceptionCompleteStep
  <2> QED BY <1>2, <2>2, <2>3, <2>4 DEF IsduDeviceWait
<1>3. CASE IsduDeviceResponse
  BY <1>3, GoesOn, ReceptionCompleteStep DEF IsduDeviceResponse, Carries
<1>4. CASE isdu = "ISDUERROR_4" /\ IsduError4
  BY <1>4, IsduError4Step
<1>5. CASE isdu \notin {"INACTIVE_0", "IDLE_1"} /\ EnterIsduError4
  BY <1>5, GoesOn DEF EnterIsduError4, Carries
<1>6. CASE IsduQuiet
  BY <1>6, GoesOn DEF IsduQuiet
<1> QED
  BY <1>1, <1>2, <1>3, <1>4, <1>5, <1>6, IsduDeviceIdleStep DEF IsduDevice

LEMMA OdStep ==
  ASSUME TypeInv, OdMaster \/ \E flag \in BOOLEAN : OdDevice(flag)
  PROVE  IsduStep
<1>1. CASE OdMaster
  BY <1>1, IsduMasterStep, GoesOn DEF OdMaster, NextMessage
<1>2. CASE \E flag \in BOOLEAN : OdDevice(flag)
  BY <1>2, IsduDeviceStep, GoesOn DEF OdDevice, IsduQuiet
<1> QED BY <1>1, <1>2

-----------------------------------------------------------------------------
(* Port control: what is configured once is started once.                  *)

(* A step that posts only jobs with types of P. *)
Posts(P) == \E s \in Seq(Job) : Moves(s) /\ \A j \in Range(s) : j.type \in P

LEMMA PostsKeep ==
  ASSUME TypeInv, NEW P, Posts(P), NEW A, A \cap P = {}, NEW B
  PROVE  (Has(A)' => Has(A)) /\ (Order(A, B) => Order(A, B)')
<1>1. PICK s \in Seq(Job) : Moves(s) /\ \A j \in Range(s) : j.type \in P
  BY DEF Posts
<1>2. \A j \in Range(s) : j.type \notin A
  BY <1>1
<1>3. Has(A)' => Has(A)
  BY <1>1, <1>2, MovesJobs DEF Has
<1>4. NotAfter(s, A, B)
  <2>1. \A i \in 1 .. Len(s) : s[i] \in Range(s)
    BY RangeEquality
  <2> QED BY <1>2, <2>1 DEF NotAfter
<1>5. ASSUME Order(A, B) PROVE Order(A, B)'
  BY <1>1, <1>2, <1>4, <1>5, MovesOrder
<1> QED BY <1>3, <1>5

LEMMA PostsNothing ==
  ASSUME TypeInv, UNCHANGED mbox \/ (mbox # <<>> /\ TakeAndPost(<<>>))
  PROVE  Posts({})
<1>1. <<>> \in Seq(Job) /\ Range(<<>>) = {} /\ mbox \o <<>> = mbox
  BY NoJobs, TypeFacts, ConcatEmptySeq
<1>2. Moves(<<>>)
  BY <1>1 DEF Moves
<1> QED BY <1>1, <1>2 DEF Posts

LEMMA PostsOne ==
  ASSUME TypeInv, NEW j \in Job, Post(j) \/ (mbox # <<>> /\ TakeAndPost(<<j>>))
  PROVE  Posts({j.type})
<1>1. <<j>> \in Seq(Job) /\ Range(<<j>>) = {j}
  BY OneJob
<1>2. Moves(<<j>>)
  BY PostOne, TypeFacts DEF Moves
<1> QED BY <1>1, <1>2 DEF Posts

LEMMA PostsMore == ASSUME NEW P, NEW Q, P \subseteq Q, Posts(P) PROVE Posts(Q)
  BY DEF Posts

CfgJobs  == {"SMI_CFG", "SM_CFG"}
StopJob  == {"OD_STOP"}
DownJobs == {"MODE_COMLOST", "MODE_STARTUP", "DL_READ_CNF"}

(* There is one configuration; the ODE is stopped before the SM gets it.   *)
ConfigInv ==
    /\ cfgs = 0 => ~Has(CfgJobs)
    /\ Sole(CfgJobs)
    /\ Has(StopJob) => Has({"SM_CFG"})
    /\ Order(StopJob, {"SM_CFG"})

(* The SM has not yet been told to start the port. *)
Unconfigured == cfgs = 0 \/ Has(CfgJobs)

(* The wake-up is due or under way. *)
Opening == mdh = "ESTCOM_1" \/ (mdh = "IDLE_0" /\ dlMode = "STARTUP" /\ mdhEv)

PortQuiet ==
    /\ sm = "PortInactive" /\ mhinfo = "NONE" /\ mh = "INACTIVE_0"
    /\ ~Has(DownJobs)

(* SM, mode handler, message handler and ISDU handler agree on how far the *)
(* port is.                                                                *)
ModeInv ==
    /\ Unconfigured => mdh = "IDLE_0" /\ dlMode = "INACTIVE" /\ PortQuiet
    /\ Opening => dlMode = "STARTUP" /\ PortQuiet
    /\ dlMode = "OPERATE" <=> sm \in {"waitonDLOperate", "SMOperate"}
    /\ mdh = "OPERATE_4" => dlMode = "OPERATE"
    /\ mdh # "IDLE_0" => ~Has({"MODE_COMLOST"})
    /\ mdh = "IDLE_0" \/ mhinfo = "COMLOST" \/ dlMode = "INACTIVE" => mh = "INACTIVE_0"
    /\ \A j \in Jobs : j.type = "DL_READ_CNF" /\ j.res = "ERR" => mh = "INACTIVE_0"
    /\ mh \notin {"INACTIVE_0", "STARTUP_2"} => mdh = "OPERATE_4"
    /\ mh = "STARTUP_2" => mdh = "STARTUP_2"
    /\ isdu # "INACTIVE_0" => mdh = "OPERATE_4"
    /\ dlPc \in Leaves =>
          dlPc = "leaveComlost" /\ mdh = "OPERATE_4" /\ mhinfo = "COMLOST"

Control == ConfigInv /\ ModeInv

LEMMA ConfigKept ==
  ASSUME TypeInv, ConfigInv, UNCHANGED cfgs, NEW P, Posts(P), P \cap (CfgJobs \cup StopJob) = {}
  PROVE  ConfigInv' /\ (Has(CfgJobs)' => Has(CfgJobs)) /\ (Unconfigured' => Unconfigured)
<1>1. Has(CfgJobs)' => Has(CfgJobs)
  BY PostsKeep
<1>2. Sole(CfgJobs)'
  <2>1. Order(CfgJobs, CfgJobs)'
    BY PostsKeep DEF ConfigInv, Sole
  <2> QED BY <2>1 DEF Sole
<1>3. Order(StopJob, {"SM_CFG"})'
  BY PostsKeep DEF ConfigInv
<1>4. ASSUME Has(StopJob)' PROVE Has({"SM_CFG"})'
  <2>1. Has(StopJob) /\ Has({"SM_CFG"})
    BY <1>4, PostsKeep DEF ConfigInv
  <2>2. PICK s \in Seq(Job) : Moves(s) /\ \A j \in Range(s) : j.type \in P
    BY DEF Posts
  <2>3. CASE mbox # <<>> /\ TakeAndPost(s) /\ Head(mbox).type = "SM_CFG"
    <3>1. /\ Tail(mbox) \in Seq(Job) /\ Jobs' = Range(Tail(mbox)) \cup Range(s)
          /\ \A j \in Range(Tail(mbox)) : j.type \notin StopJob
      BY <2>3, TypeFacts, TailOrder, TakeJobs, HeadTailProperties DEF ConfigInv, Order
    <3> QED BY <1>4, <2>2, <3>1 DEF Has
  <2>4. CASE ~(mbox # <<>> /\ Head(mbox).type = "SM_CFG")
    BY <2>1, <2>2, <2>4, MovesJobs DEF Has
  <2>5. CASE mbox' = mbox \o s
    BY <2>1, <2>5, PostJobs, TypeFacts DEF Has
  <2> QED BY <2>2, <2>3, <2>4, <2>5 DEF Moves
<1> QED BY <1>1, <1>2, <1>3, <1>4 DEF ConfigInv, Unconfigured

LEMMA PostsOld ==
  ASSUME TypeInv, NEW P, Posts(P)
  PROVE  \A j \in Jobs' : j \in Jobs \/ j.type \in P
  BY MovesJobs DEF Posts

(* The jobs of the port control that a step leaves alone. *)
LEMMA DownKept ==
  ASSUME TypeInv, NEW P, Posts(P), P \cap DownJobs = {}
  PROVE  /\ Has(DownJobs)' => Has(DownJobs)
         /\ Has({"MODE_COMLOST"})' => Has({"MODE_COMLOST"})
         /\ \A j \in Jobs' : j.type = "DL_READ_CNF" => j \in Jobs
<1>1. {"MODE_COMLOST"} \cap P = {} /\ "DL_READ_CNF" \notin P
  BY DEF DownJobs
<1> QED BY <1>1, PostsKeep, PostsOld

LEMMA ControlKept ==
  ASSUME TypeInv, Control, UNCHANGED <<cfgs, sm, mdh, dlMode, mhinfo, mdhEv, mh, isdu, dlPc>>,
         NEW P, Posts(P), P \cap (CfgJobs \cup StopJob \cup DownJobs) = {}
  PROVE  Control'
<1>1. ConfigInv' /\ (Unconfigured' => Unconfigured)
  BY ConfigKept DEF Control
<1>2. /\ Has(DownJobs)' => Has(DownJobs)
      /\ Has({"MODE_COMLOST"})' => Has({"MODE_COMLOST"})
      /\ \A j \in Jobs' : j.type = "DL_READ_CNF" => j \in Jobs
  BY DownKept
<1>3. ModeInv'
  BY <1>1, <1>2 DEF Control, ModeInv, Opening, PortQuiet
<1> QED BY <1>1, <1>3 DEF Control

(* The services of ODE, AL and DL. *)
OdeAction == OdeReject \/ OdeAccept \/ OdeConfirm \/ OdeStart \/ OdeStop \/ DsConfirm
AlRequest == AlBusy \/ AlArgErr \/ AlParam \/ AlIsdu
AlConfirm == AlReadParamCnf \/ AlWriteParamCnf \/ AlIsduCnf \/ AlAbort
DlRequest == DlParamReq \/ DlIsduReq

ServiceJobs == {"AL_REQ", "AL_CNF"} \cup DlCnfTypes

LEMMA OdePosts == ASSUME TypeInv, OdeAction PROVE Posts({"AL_REQ"})
<1>1. PICK type : Take(type)
  BY DEF OdeAction, OdeReject, OdeAccept, OdeConfirm, OdeStart, OdeStop, DsConfirm
<1>2. CASE TakeAndPost(<<>>)
  BY <1>1, <1>2, PostsNothing, PostsMore DEF Take
<1>3. CASE OdeAccept /\ Head(mbox).kind # "Batch"
  <2> DEFINE job == MkJob("AL_REQ", "ODE", Head(mbox).req, Head(mbox).kind, "OK", "none")
  <2>1. TakeAndPost(<<job>>)
    BY <1>3 DEF OdeAccept
  <2>2. job \in Job /\ job.type = "AL_REQ"
    <3>1. Head(mbox).req \in Ids \cup {NoReq} /\ Head(mbox).kind \in AllKinds
      BY <1>1, HeadJob DEF Job
    <3>2. job \in Job
      BY <3>1, MkJobType DEF JobTypes, Clients, Results, Tags
    <3> QED BY <3>2 DEF MkJob
  <2> HIDE DEF job
  <2> QED BY <1>1, <2>1, <2>2, PostsOne DEF Take
<1> QED
  BY <1>2, <1>3 DEF OdeAction, OdeReject, OdeAccept, OdeConfirm, OdeStart, OdeStop, DsConfirm

LEMMA AlPosts == ASSUME TypeInv, AlRequest \/ AlConfirm PROVE Posts({"AL_CNF", "ISDU_CNF"})
<1>1. PICK type \in JobTypes : Take(type)
  BY DEF AlRequest, AlConfirm, AlBusy, AlArgErr, AlParam, AlIsdu, AlReadParamCnf, AlWriteParamCnf,
         AlIsduCnf, AlAbort, JobTypes
<1>2. Head(mbox).res \in Results /\ ServiceOf(Head(mbox)) \in Service
  BY <1>1, HeadJob, HeadService DEF Job
<1>3. \/ TakeAndPost(<<>>)
      \/ TakeAndPost(<<DlCnf("ISDU_CNF", "ERR", "none")>>)
      \/ \E svc \in Service, res \in Results, val \in Tags \cup Pointers :
            TakeAndPost(<<AlCnf(svc, res, val)>>)
  <2>1. CASE AlRequest
    BY <1>2, <2>1, TypeFacts DEF AlRequest, AlBusy, AlArgErr, AlParam, AlIsdu, Results, Tags
  <2>2. CASE AlConfirm
    BY <1>2, <2>2, AlConfirms, TypeFacts DEF AlConfirm, Confirm
  <2> QED BY <2>1, <2>2
<1>4. CASE TakeAndPost(<<>>)
  BY <1>1, <1>4, PostsNothing, PostsMore DEF Take
<1>5. CASE TakeAndPost(<<DlCnf("ISDU_CNF", "ERR", "none")>>)
  <2>1. /\ DlCnf("ISDU_CNF", "ERR", "none") \in Job
        /\ DlCnf("ISDU_CNF", "ERR", "none").type = "ISDU_CNF"
    BY CnfJob DEF DlCnfTypes, Results, Tags
  <2>2. Posts({"ISDU_CNF"})
    BY <1>1, <1>5, <2>1, PostsOne DEF Take
  <2> QED BY <2>2, PostsMore
<1>6. ASSUME NEW svc \in Service, NEW res \in Results, NEW val \in Tags \cup Pointers,
             TakeAndPost(<<AlCnf(svc, res, val)>>)
      PROVE  Posts({"AL_CNF", "ISDU_CNF"})
  <2>1. Posts({"AL_CNF"})
    BY <1>1, <1>6, AlCnfJob, PostsOne DEF Take
  <2> QED BY <2>1, PostsMore
<1> QED BY <1>3, <1>4, <1>5, <1>6

LEMMA DlRequestPosts == ASSUME TypeInv, DlRequest PROVE Posts(ParamCnfs)
<1>1. \/ UNCHANGED mbox
      \/ \E type \in ParamCnfs : Post(DlCnf(type, "ERR", "none"))
  BY DEF DlRequest, DlParamReq, DlIsduReq, ParamCnfs
<1>2. CASE UNCHANGED mbox
  BY <1>2, PostsNothing, PostsMore
<1>3. ASSUME NEW type \in ParamCnfs, Post(DlCnf(type, "ERR", "none")) PROVE Posts(ParamCnfs)
  <2>1. DlCnf(type, "ERR", "none") \in Job /\ DlCnf(type, "ERR", "none").type = type
    BY CnfJob DEF DlCnfTypes, Results, Tags, ParamCnfs
  <2>2. Posts({type})
    BY <1>3, <2>1, PostsOne
  <2> QED BY <2>2, PostsMore
<1> QED BY <1>1, <1>2, <1>3

LEMMA ServiceControl ==
  ASSUME TypeInv, Control, OdeAction \/ AlRequest \/ AlConfirm \/ DlRequest
  PROVE  Control'
<1>1. UNCHANGED <<cfgs, sm, mdh, dlMode, mhinfo, mdhEv, mh, isdu, dlPc>>
  BY DEF OdeAction, OdeReject, OdeAccept, OdeConfirm, OdeStart, OdeStop, DsConfirm, AlRequest,
         AlBusy, AlArgErr, AlParam, AlIsdu, AlConfirm, AlReadParamCnf, AlWriteParamCnf, AlIsduCnf,
         AlAbort, DlRequest, DlParamReq, DlIsduReq, dlVars, modeVars, isduVars, portVars, appVars
<1>2. Posts(ServiceJobs)
  BY OdePosts, AlPosts, DlRequestPosts, PostsMore DEF ServiceJobs, ParamCnfs, DlCnfTypes
<1>3. ServiceJobs \cap (CfgJobs \cup StopJob \cup DownJobs) = {}
  BY DEF ServiceJobs, DlCnfTypes, CfgJobs, StopJob, DownJobs
<1> QED BY <1>1, <1>2, <1>3, ControlKept

LEMMA ApplicationControl ==
  ASSUME OneClient, TypeInv, Control, Application
  PROVE  Control'
<1>1. UNCHANGED <<sm, mdh, dlMode, mhinfo, mdhEv, mh, isdu, dlPc>>
  BY DEF Application, SMI_DeviceRW_req, SMI_PortConfiguration_req, AL_Abort, DsRead, dlVars,
         portVars
<1>2. ASSUME NEW r \in Reqs, NEW k \in Kinds, SMI_DeviceRW_req(r, k) PROVE Control'
  <2>1. MkJob("SMI_RW", "ODE", r, k, "OK", "none") \in Job
    BY OnRequestAssumption, MkJobType DEF JobTypes, Clients, Results, Tags, Ids
  <2>2. MkJob("SMI_RW", "ODE", r, k, "OK", "none").type = "SMI_RW"
    BY DEF MkJob
  <2>3. Posts({"SMI_RW"}) /\ UNCHANGED cfgs
    BY <1>2, <2>1, <2>2, PostsOne DEF SMI_DeviceRW_req
  <2>4. {"SMI_RW"} \cap (CfgJobs \cup StopJob \cup DownJobs) = {}
    BY DEF CfgJobs, StopJob, DownJobs
  <2> QED BY <1>1, <2>3, <2>4, ControlKept
<1>3. CASE SMI_PortConfiguration_req
  <2>1. Signal("SMI_CFG") \in Job /\ Signal("SMI_CFG").type = "SMI_CFG"
    BY PlainSignal
  <2>2. cfgs = 0 /\ cfgs' = 1
    BY <1>3, OnRequestAssumption DEF SMI_PortConfiguration_req, OneClient, TypeInv, TypeOK, OdTypeOK
  <2>3. Posts({"SMI_CFG"})
    BY <1>3, <2>1, PostsOne DEF SMI_PortConfiguration_req
  <2>4. ~Has(CfgJobs) /\ ~Has(StopJob) /\ Unconfigured
    BY <2>2 DEF Control, ConfigInv, Unconfigured, Has, CfgJobs
  <2>5. ~Has(StopJob)' /\ Order(StopJob, {"SM_CFG"})' /\ (Has(DownJobs)' => Has(DownJobs))
          /\ (Has({"MODE_COMLOST"})' => Has({"MODE_COMLOST"}))
          /\ \A j \in Jobs' : j.type = "DL_READ_CNF" => j \in Jobs
    <3>1. StopJob \cap {"SMI_CFG"} = {} /\ {"SMI_CFG"} \cap DownJobs = {}
      BY DEF StopJob, DownJobs
    <3> QED BY <2>3, <2>4, <3>1, PostsKeep, DownKept DEF Control, ConfigInv
  <2>6. Sole(CfgJobs)'
    <3>1. <<Signal("SMI_CFG")>> \in Seq(Job) /\ Moves(<<Signal("SMI_CFG")>>)
      BY <1>3, <2>1, PostOne, OneJob, TypeFacts DEF SMI_PortConfiguration_req, Moves
    <3>2. Order(CfgJobs, CfgJobs)'
      BY <2>4, <3>1, ShortOrder, MovesOrder DEF Control, ConfigInv, Sole
    <3> QED BY <3>2 DEF Sole
  <2>7. ConfigInv'
    BY <2>2, <2>5, <2>6 DEF ConfigInv
  <2>8. ModeInv'
    BY <1>1, <2>4, <2>5 DEF Control, ModeInv, Opening, PortQuiet
  <2> QED BY <2>7, <2>8 DEF Control
<1>4. CASE AL_Abort \/ \E r \in DsReqs : DsRead(r)
  BY <1>4 DEF OneClient, AL_Abort, TypeInv, TypeOK, OdTypeOK
<1> QED BY <1>2, <1>3, <1>4 DEF Application

-----------------------------------------------------------------------------
(* The cycle of the DL thread, in OPERATE.                                 *)

OdActions == DlReply \/ DlNextMessage \/ DlSendWriteParam \/ DlReply9 \/ DlGetOd7 \/ DlFirstMessage
RxFailures == DlRxError16 \/ DlRxError9 \/ DlComLost \/ DlErrorHandling10
CycleStep == OdActions \/ DlClear \/ RxFailures \/ IsduTimer

(* The ISDU handler is not run; a pending command may be given up. *)
NotRun ==
    /\ UNCHANGED <<alData, alLen, isdu, isduReq, totSeg, served>>
    /\ rwcmd' \in {rwcmd, "NONE"}
    /\ UNCHANGED mbox \/ \E j \in Job : Post(j) /\ j.type \in ParamCnfs

LEMMA OdActionsStep ==
  ASSUME TypeInv, OdActions
  PROVE  /\ IsduStep
         /\ IsduGoesOn => (Held' => Held)
         /\ IsduConfirms => Held /\ ~Held'
<1>1. OdMaster \/ \E flag \in BOOLEAN : OdDevice(flag)
  BY DEF OdActions, DlReply, DlNextMessage, DlSendWriteParam, DlReply9, DlGetOd7, DlFirstMessage
<1>2. IsduStep
  BY <1>1, OdStep
<1>3. ~Confirmed
  BY DEF OdActions, DlReply, DlNextMessage, DlSendWriteParam, DlReply9, DlGetOd7, DlFirstMessage,
         InCycle, Confirmed, CycleClears, Clears, Leaves
<1>4. mbox' # mbox /\ Parallel => dlPc' \in CycleClears
  BY DEF OdActions, DlReply, DlNextMessage, DlSendWriteParam, DlReply9, DlGetOd7, DlFirstMessage,
         ClearFirst, CycleClears, Clears
<1>5. IsduGoesOn => (Held' => Held)
  BY <1>3 DEF IsduGoesOn, Held
<1>6. IsduConfirms => Held /\ ~Held'
  BY <1>3, <1>4, DlAssumption DEF IsduConfirms, Held, Carries, Confirmed
<1> QED BY <1>2, <1>5, <1>6

LEMMA CycleSteps ==
  ASSUME TypeInv, Control, CycleStep
  PROVE  /\ UNCHANGED <<dlMode, alState, alSvc>>
         /\ mdh = "OPERATE_4" /\ mdh' = mdh
         /\ ~IsduTimer => mh \notin {"INACTIVE_0", "STARTUP_2"}
         /\ mh' # "STARTUP_2"
         /\ mhinfo' = "COMLOST" => mh' = "INACTIVE_0"
         /\ IsduTimer \/ (dlPc \notin Leaves /\ dlPc' \notin Leaves)
         /\ \/ IsduStep /\ (IsduGoesOn => (Held' => Held)) /\ (IsduConfirms => Held /\ ~Held')
            \/ NotRun /\ (Held' => Held)
            \/ DlClear
<1>1. UNCHANGED <<mdh, dlMode, alState, alSvc>>
  BY DEF CycleStep, OdActions, RxFailures, DlReply, DlNextMessage, DlSendWriteParam, DlReply9,
         DlGetOd7, DlFirstMessage, DlClear, DlRxError16, DlRxError9, DlComLost, DlErrorHandling10,
         IsduTimer, modeVars
<1>2. ~IsduTimer => mh \notin {"INACTIVE_0", "STARTUP_2"}
  BY DEF CycleStep, OdActions, RxFailures, DlReply, DlNextMessage, DlSendWriteParam, DlReply9,
         DlGetOd7, DlFirstMessage, DlClear, DlRxError16, DlRxError9, DlComLost, DlErrorHandling10,
         InCycle, TypeInv, RetryBounded, Clears
<1>3. mdh = "OPERATE_4"
  BY <1>2 DEF Control, ModeInv, IsduTimer
<1>4. mh' # "STARTUP_2"
  <2>1. mh # "STARTUP_2"
    BY <1>3 DEF Control, ModeInv
  <2>2. CASE DlClear
    BY <2>1, <2>2 DEF DlClear, TypeInv, RetryBounded, Clears
  <2>3. CASE ~DlClear
    BY <2>1, <2>3
       DEF CycleStep, OdActions, RxFailures, DlReply, DlNextMessage, DlSendWriteParam, DlReply9,
           DlGetOd7, DlFirstMessage, DlRxError16, DlRxError9, DlComLost, DlErrorHandling10,
           HandleComLost, IsduTimer
  <2> QED BY <2>2, <2>3
<1>5. mhinfo' = "COMLOST" => mh' = "INACTIVE_0"
  <2>1. CASE OdActions \/ DlClear \/ DlRxError16 \/ DlRxError9
    <3>1. UNCHANGED mhinfo
      BY <2>1 DEF OdActions, DlReply, DlNextMessage, DlSendWriteParam, DlReply9, DlGetOd7,
                  DlFirstMessage, DlClear, DlRxError16, DlRxError9, modeVars
    <3>2. mh \notin {"INACTIVE_0", "STARTUP_2"}
      BY <2>1 DEF OdActions, DlReply, DlNextMessage, DlSendWriteParam, DlReply9, DlGetOd7,
                  DlFirstMessage, DlClear, DlRxError16, DlRxError9, InCycle, TypeInv, RetryBounded,
                  Clears
    <3> QED BY <3>1, <3>2 DEF Control, ModeInv
  <2>2. CASE DlComLost \/ (DlErrorHandling10 /\ HandleComLost)
    BY <2>2 DEF DlComLost, HandleComLost
  <2>3. CASE DlErrorHandling10 /\ UNCHANGED modeVars
    BY <2>3 DEF DlErrorHandling10, modeVars, Control, ModeInv
  <2>4. CASE IsduTimer
    BY <2>4 DEF IsduTimer, modeVars, Control, ModeInv
  <2> QED BY <2>1, <2>2, <2>3, <2>4 DEF CycleStep, RxFailures, DlErrorHandling10
<1>8. IsduTimer \/ (dlPc \notin Leaves /\ dlPc' \notin Leaves)
  BY DEF CycleStep, OdActions, RxFailures, DlReply, DlNextMessage, DlSendWriteParam, DlReply9,
         DlGetOd7, DlFirstMessage, DlClear, DlRxError16, DlRxError9, DlComLost, DlErrorHandling10,
         InCycle, ClearFirst, Clears, Leaves
<1>6. CASE OdActions
  BY <1>1, <1>2, <1>3, <1>4, <1>5, <1>6, <1>8, OdActionsStep
<1>7. CASE RxFailures \/ IsduTimer
  <2>1. UNCHANGED <<alData, alLen, isdu, isduReq, totSeg, served>> /\ rwcmd' \in {rwcmd, "NONE"}
    BY <1>7 DEF RxFailures, DlRxError16, DlRxError9, DlComLost, DlErrorHandling10, IsduTimer,
                HandleComLost, isduVars
  <2>2. UNCHANGED mbox \/ \E type \in ParamCnfs : Post(DlCnf(type, "ERR", "none"))
    BY <1>7 DEF RxFailures, DlRxError16, DlRxError9, DlComLost, DlErrorHandling10, IsduTimer,
                ParamCnfs
  <2>3. \A type \in ParamCnfs :
          DlCnf(type, "ERR", "none") \in Job /\ DlCnf(type, "ERR", "none").type = type
    BY CnfJob DEF DlCnfTypes, Results, Tags, ParamCnfs
  <2>4. NotRun
    BY <2>1, <2>2, <2>3 DEF NotRun
  <2>5. Confirmed => Confirmed'
    BY <1>7, <2>1 DEF RxFailures, DlRxError16, DlRxError9, DlComLost, DlErrorHandling10, IsduTimer,
                InCycle, Confirmed, CycleClears, Clears, Leaves
  <2>6. Held' => Held
    BY <2>1, <2>5 DEF Held, Carries
  <2> QED BY <1>1, <1>2, <1>3, <1>4, <1>5, <1>8, <2>4, <2>6
<1> QED BY <1>1, <1>2, <1>3, <1>4, <1>5, <1>6, <1>7, <1>8 DEF CycleStep

LEMMA CyclePosts == ASSUME TypeInv, IsduStep \/ NotRun \/ DlClear PROVE Posts(DlCnfTypes)
<1>1. UNCHANGED mbox \/ \E j \in Job : Post(j) /\ j.type \in DlCnfTypes
  BY DEF IsduStep, IsduGoesOn, IsduConfirms, NotRun, DlClear, ParamCnfs, DlCnfTypes
<1>2. CASE UNCHANGED mbox
  BY <1>2, PostsNothing, PostsMore
<1>3. ASSUME NEW j \in Job, Post(j), j.type \in DlCnfTypes PROVE Posts(DlCnfTypes)
  <2>1. Posts({j.type})
    BY <1>3, PostsOne
  <2> QED BY <1>3, <2>1, PostsMore
<1> QED BY <1>1, <1>2, <1>3

LEMMA CycleControl ==
  ASSUME TypeInv, Control, CycleStep, UNCHANGED <<cfgs, sm>>
  PROVE  Control'
<1>1. /\ UNCHANGED dlMode
      /\ mdh = "OPERATE_4" /\ mdh' = mdh
      /\ ~IsduTimer => mh \notin {"INACTIVE_0", "STARTUP_2"}
      /\ mh' # "STARTUP_2"
      /\ mhinfo' = "COMLOST" => mh' = "INACTIVE_0"
      /\ IsduTimer \/ dlPc' \notin Leaves
      /\ Posts(DlCnfTypes)
  BY CycleSteps, CyclePosts
<1>2. DlCnfTypes \cap (CfgJobs \cup StopJob \cup DownJobs) = {}
  BY DEF DlCnfTypes, CfgJobs, StopJob, DownJobs
<1>3. ConfigInv' /\ (Unconfigured' => Unconfigured)
  BY <1>1, <1>2, ConfigKept DEF Control
<1>4. /\ Has({"MODE_COMLOST"})' => Has({"MODE_COMLOST"})
      /\ \A j \in Jobs' : j.type = "DL_READ_CNF" => j \in Jobs
  BY <1>1, <1>2, DownKept
<1>5. IsduTimer => UNCHANGED <<mh, mhinfo, dlPc>>
  BY DEF IsduTimer, modeVars
<1>6. dlMode = "OPERATE" /\ ~Unconfigured
  BY <1>1 DEF Control, ModeInv
<1>7. ModeInv'
  BY <1>1, <1>3, <1>4, <1>5, <1>6 DEF Control, ModeInv, Opening
<1> QED BY <1>3, <1>7 DEF Control

-----------------------------------------------------------------------------
(* The mode handler, the wake-up and the exchange of the start-up.         *)

IsduCnf == {"ISDU_CNF"}

LEMMA Pair ==
  ASSUME NEW S, NEW a \in S, NEW b \in S
  PROVE  /\ <<a>> \in Seq(S) /\ <<b>> \in Seq(S) /\ <<a, b>> \in Seq(S)
         /\ <<a>> \o <<b>> = <<a, b>>
<1>1. <<a>> \in Seq(S) /\ <<b>> \in Seq(S) /\ <<a, b>> \in Seq(S)
  OBVIOUS
<1>2. Len(<<a>>) = 1 /\ Len(<<b>>) = 1 /\ Len(<<a, b>>) = 2
      /\ <<a>>[1] = a /\ <<b>>[1] = b /\ <<a, b>>[1] = a /\ <<a, b>>[2] = b
  OBVIOUS
<1>3. /\ <<a>> \o <<b>> \in Seq(S) /\ Len(<<a>> \o <<b>>) = 2
      /\ (<<a>> \o <<b>>)[1] = a /\ (<<a>> \o <<b>>)[2] = b
  BY <1>1, <1>2, ConcatProperties
<1>4. \A i \in 1 .. 2 : (<<a>> \o <<b>>)[i] = <<a, b>>[i]
  BY <1>2, <1>3
<1> QED BY <1>1, <1>2, <1>3, <1>4, SeqEqual

(* A transfer is confirmed negatively, if there is one, and a mode is      *)
(* reported.                                                               *)
ModeReport(type) ==
    \E s \in Seq(Job) :
        /\ Moves(s)
        /\ \A j \in Range(s) : j.type = type \/ (j.type = "ISDU_CNF" /\ j.res = "ERR" /\ Held)
        /\ NotAfter(s, IsduCnf, IsduCnf)

LEMMA ModeReported ==
  ASSUME TypeInv, NEW type \in {"MODE_COMLOST", "MODE_INACTIVE"},
         NEW cnfs \in {<<>>, IhInactiveCnf}, dlPc = "wait" \/ cnfs = <<>>,
         mbox' = mbox \o cnfs \o <<Signal(type)>>
  PROVE  ModeReport(type)
<1>1. Signal(type) \in Job /\ Signal(type).type = type
  BY SignalIsDlJob DEF DlJob, Signal, MkJob
<1>2. CASE IhInactiveConfirms /\ cnfs # <<>>
  <2> DEFINE cnf == DlCnf("ISDU_CNF", "ERR", "none")
             sig == Signal(type)
  <2>1. cnf \in Job /\ cnf.type = "ISDU_CNF" /\ cnf.res = "ERR"
    BY CnfJob DEF DlCnfTypes, Results, Tags
  <2>2. Held
    BY <1>2 DEF IhInactiveConfirms, Held, Carries, Confirmed, CycleClears, Clears, Leaves
  <2>3. mbox' = mbox \o <<cnf>> \o <<sig>>
    BY <1>2 DEF IhInactiveCnf
  <2> HIDE DEF cnf, sig
  <2>4. sig \in Job /\ sig.type = type
    BY <1>1 DEF sig
  <2>5. /\ <<cnf>> \in Seq(Job) /\ <<sig>> \in Seq(Job) /\ <<cnf, sig>> \in Seq(Job)
        /\ <<cnf>> \o <<sig>> = <<cnf, sig>>
    BY <2>1, <2>4, Pair
  <2>6. mbox' = mbox \o <<cnf, sig>> /\ <<cnf, sig>> \in Seq(Job)
    <3>1. mbox \o <<cnf>> \o <<sig>> = mbox \o (<<cnf>> \o <<sig>>)
      BY <2>5, TypeFacts, ConcatAssociative
    <3> QED BY <2>3, <2>5, <3>1
  <2>7. \A j \in Range(<<cnf, sig>>) : j \in {cnf, sig}
    BY DEF Range
  <2>8. NotAfter(<<cnf, sig>>, IsduCnf, IsduCnf)
    BY <2>4 DEF NotAfter, IsduCnf
  <2> QED BY <2>1, <2>2, <2>4, <2>6, <2>7, <2>8 DEF ModeReport, Moves
<1>3. CASE ~IhInactiveConfirms \/ cnfs = <<>>
  <2>1. mbox' = mbox \o <<>> \o <<Signal(type)>>
    BY <1>3 DEF IhInactiveCnf
  <2>2. mbox' = mbox \o <<Signal(type)>>
    BY <2>1, TypeFacts, ConcatEmptySeq
  <2>3. <<Signal(type)>> \in Seq(Job) /\ Range(<<Signal(type)>>) = {Signal(type)}
    BY <1>1, OneJob
  <2> QED BY <1>1, <2>2, <2>3, ShortOrder DEF ModeReport, Moves
<1> QED BY <1>2, <1>3

(* The mode handler gives the port up. *)
GivesUp(type) ==
    /\ mh = "INACTIVE_0" /\ mh' = "INACTIVE_0"
    /\ mdh # "IDLE_0" /\ mdh' = "IDLE_0" /\ mhinfo' = "NONE"
    /\ dlMode = "STARTUP" => ~mdhEv'
    /\ isdu' = "INACTIVE_0" /\ dlPc' = "wait"
    /\ UNCHANGED <<dlMode, isduReq>>
    /\ ModeReport(type)

LEMMA GotoIdleStep ==
  ASSUME TypeInv, Control, NEW mode, NEW cnfs \in {<<>>, IhInactiveCnf}, NEW pending \in BOOLEAN,
         GotoIdle(mode, cnfs, pending), mdh \in {"STARTUP_2", "OPERATE_4"},
         mhinfo = "COMLOST" \/ (mdh = "STARTUP_2" /\ dlMode = "INACTIVE"),
         dlPc = "wait" \/ cnfs = <<>>, dlPc' = "wait", pending => dlMode # "STARTUP"
  PROVE  \E type \in {"MODE_COMLOST", "MODE_INACTIVE"} : GivesUp(type)
<1>1. mh = "INACTIVE_0"
  BY DEF Control, ModeInv
<1>2. /\ mh' = "INACTIVE_0" /\ mdh' = "IDLE_0" /\ mdhEv' = pending /\ mhinfo' = "NONE"
      /\ UNCHANGED <<dlMode, isduReq>>
  BY <1>1 DEF GotoIdle, IhInactive
<1>3. isdu' = "INACTIVE_0"
  <2>1. isdu \in IsduStates /\ (mdh = "STARTUP_2" => isdu = "INACTIVE_0")
    BY TypeFacts DEF IsduTyped, Control, ModeInv
  <2> QED BY <2>1 DEF GotoIdle, IhInactive, IhInactiveConfirms, IsduStates
<1>4. \E type \in {"MODE_COMLOST", "MODE_INACTIVE"} :
         mbox' = mbox \o cnfs \o <<Signal(type)>>
  BY DEF GotoIdle
<1> QED BY <1>1, <1>2, <1>3, <1>4, ModeReported DEF GivesUp

LEMMA GivesUpControl ==
  ASSUME TypeInv, Control, NEW type \in {"MODE_COMLOST", "MODE_INACTIVE"}, GivesUp(type),
         UNCHANGED <<cfgs, sm>>
  PROVE  Control'
<1>1. Posts({type, "ISDU_CNF"})
  BY DEF GivesUp, ModeReport, Posts
<1>2. {type, "ISDU_CNF"} \cap (CfgJobs \cup StopJob) = {}
  BY DEF CfgJobs, StopJob
<1>3. ConfigInv' /\ (Unconfigured' => Unconfigured)
  BY <1>1, <1>2, ConfigKept DEF Control
<1>4. ModeInv'
  <2>1. /\ mh = "INACTIVE_0" /\ mh' = "INACTIVE_0" /\ mdh # "IDLE_0" /\ mdh' = "IDLE_0"
        /\ mhinfo' = "NONE" /\ isdu' = "INACTIVE_0" /\ dlPc' = "wait" /\ UNCHANGED <<dlMode, sm>>
        /\ ~Opening' /\ ~Unconfigured
    BY DEF GivesUp, Opening, Control, ModeInv
  <2>2. "wait" \notin Leaves
    BY DEF Leaves
  <2> QED BY <1>3, <2>1, <2>2 DEF Control, ModeInv
<1> QED BY <1>3, <1>4 DEF Control

(* The message handler starts its cycles. *)
Operates ==
    /\ mdh = "STARTUP_2" /\ mdh' = "OPERATE_4" /\ dlMode = "OPERATE"
    /\ mh' = (IF mh = "STARTUP_2" THEN "OPERATE_12" ELSE mh)
    /\ isdu = "INACTIVE_0" /\ isdu' = "IDLE_1" /\ totSeg' = 0
    /\ dlPc = "wait" /\ UNCHANGED <<dlMode, mhinfo, isduReq, dlPc>>
    /\ Post(Signal("MODE_OPERATE"))

(* The mode handler does nothing, or asks for a wake-up. *)
Looks ==
    /\ mdh' = mdh \/ (mdh = "IDLE_0" /\ dlMode = "STARTUP" /\ mdhEv /\ mdh' = "ESTCOM_1")
    /\ ~mdhEv'
    /\ dlPc = "wait"
    /\ UNCHANGED <<dlMode, mhinfo, mh, isdu, isduReq, totSeg, mbox, dlPc>>

(* It confirms an interrupted transfer before it gives the port up. *)
ConfirmsLost ==
    /\ ConfirmsFirst
    /\ Held /\ ~Held'
    /\ Post(DlCnf("ISDU_CNF", "ERR", "none"))
    /\ dlPc' = "leaveComlost"
    /\ mdh = "OPERATE_4" /\ mhinfo = "COMLOST" /\ ~mdhEv'
    /\ UNCHANGED <<mdh, dlMode, mhinfo, mh, isdu, isduReq, totSeg>>

LEMMA ModeHandlerSteps ==
  ASSUME TypeInv, Control, DlModeHandler
  PROVE  /\ UNCHANGED <<rwcmd, served, alState, alSvc, alData, alLen, retry, errs>>
         /\ \/ \E type \in {"MODE_COMLOST", "MODE_INACTIVE"} : GivesUp(type)
            \/ Operates
            \/ Looks
            \/ ConfirmsLost
<1>1. /\ UNCHANGED <<rwcmd, served, alState, alSvc, alData, alLen, retry, errs>>
      /\ ModeLeave \/ mdhEv
  BY DEF DlModeHandler, ModeIdle, ModeEstCom, ModeStartup, ModeOperate, ModeStep, ModeConfirm,
         ModeLeave, NotOfMode, boundVars
<1>5. CASE ModeConfirm
  <2>1. isdu # "INACTIVE_0" /\ Carries
    BY <1>5 DEF ModeConfirm, ConfirmsFirst, IhInactiveConfirms, Carries
  <2>2. mdh = "OPERATE_4" /\ dlMode = "OPERATE"
    BY <2>1 DEF Control, ModeInv
  <2>3. dlPc = "wait" /\ dlPc' = "leaveComlost" /\ mhinfo = "COMLOST"
    BY <1>5, <2>2 DEF ModeConfirm, Leave
  <2>4. Held /\ ~Held'
    BY <2>1, <2>3 DEF Held, Confirmed, CycleClears, Clears, Leaves
  <2> QED BY <1>1, <1>5, <2>2, <2>3, <2>4 DEF ModeConfirm, ConfirmsLost, isduVars
<1>6. CASE ModeLeave
  <2>1. dlPc = "leaveComlost" /\ mdh = "OPERATE_4" /\ mhinfo = "COMLOST" /\ dlMode = "OPERATE"
    BY <1>6 DEF ModeLeave, Leaves, Control, ModeInv
  <2>2. GotoIdle("COMLOST", <<>>, mdhEv) /\ dlPc' = "wait" /\ mdhEv \in BOOLEAN
    BY <1>6, <2>1 DEF ModeLeave, TypeInv, TypeOK, DlTypeOK
  <2> QED BY <1>1, <2>1, <2>2, GotoIdleStep
<1>2. CASE ModeIdle \/ ModeEstCom
  BY <1>1, <1>2 DEF ModeIdle, ModeEstCom, ModeStep, Looks, isduVars
<1>3. CASE ModeStartup
  <2>1. CASE dlMode = "OPERATE"
    <3>1. isdu = "INACTIVE_0"
      BY <1>3 DEF ModeStartup, Control, ModeInv
    <3> QED BY <1>1, <1>3, <2>1, <3>1 DEF ModeStartup, ModeStep, Operates, IhActive
  <2>2. CASE dlMode = "INACTIVE"
    BY <1>1, <1>3, <2>2, GotoIdleStep DEF ModeStartup, ModeStep
  <2>3. CASE dlMode = "STARTUP" /\ mhinfo = "COMLOST"
    BY <1>1, <1>3, <2>3, GotoIdleStep DEF ModeStartup, ModeStep
  <2>4. CASE dlMode = "STARTUP" /\ mhinfo # "COMLOST"
    BY <1>1, <1>3, <2>4 DEF ModeStartup, ModeStep, Looks, isduVars
  <2> QED BY <1>1, <1>3, <2>1, <2>2, <2>3, <2>4 DEF ModeStartup
<1>4. CASE ModeOperate
  <2>1. mdh = "OPERATE_4" /\ dlMode = "OPERATE"
    BY <1>4 DEF ModeOperate, Control, ModeInv
  <2>2. CASE mhinfo = "COMLOST"
    BY <1>1, <1>4, <2>1, <2>2, GotoIdleStep DEF ModeOperate, ModeStep
  <2>3. CASE mhinfo # "COMLOST"
    BY <1>1, <1>4, <2>1, <2>3 DEF ModeOperate, ModeStep, Looks, isduVars
  <2> QED BY <2>2, <2>3
<1> QED BY <1>2, <1>3, <1>4, <1>5, <1>6 DEF DlModeHandler

LEMMA ModeHandlerControl ==
  ASSUME TypeInv, Control, DlModeHandler, UNCHANGED <<cfgs, sm>>
  PROVE  Control'
<1>1. CASE \E type \in {"MODE_COMLOST", "MODE_INACTIVE"} : GivesUp(type)
  BY <1>1, GivesUpControl
<1>2. CASE Operates
  <2>1. Signal("MODE_OPERATE") \in Job /\ Signal("MODE_OPERATE").type = "MODE_OPERATE"
    BY SignalIsDlJob DEF DlJob, Signal, MkJob
  <2>2. Posts({"MODE_OPERATE"})
    BY <1>2, <2>1, PostsOne DEF Operates
  <2>3. {"MODE_OPERATE"} \cap (CfgJobs \cup StopJob \cup DownJobs) = {}
    BY DEF CfgJobs, StopJob, DownJobs
  <2>4. ConfigInv' /\ (Unconfigured' => Unconfigured)
    BY <2>2, <2>3, ConfigKept DEF Control
  <2>5. /\ Has({"MODE_COMLOST"})' => Has({"MODE_COMLOST"})
        /\ \A j \in Jobs' : j.type = "DL_READ_CNF" => j \in Jobs
    BY <2>2, <2>3, DownKept
  <2>6. ModeInv'
    BY <1>2, <2>4, <2>5 DEF Control, ModeInv, Opening, Operates
  <2> QED BY <2>4, <2>6 DEF Control
<1>3. CASE Looks
  <2>1. Posts({})
    BY <1>3, PostsNothing DEF Looks
  <2>2. ConfigInv' /\ (Unconfigured' => Unconfigured)
    BY <2>1, ConfigKept DEF Control
  <2>3. /\ Has(DownJobs)' => Has(DownJobs)
        /\ Has({"MODE_COMLOST"})' => Has({"MODE_COMLOST"})
        /\ \A j \in Jobs' : j.type = "DL_READ_CNF" => j \in Jobs
    BY <2>1, DownKept
  <2>4. DownJobs = {"MODE_COMLOST"} \cup DownJobs
    BY DEF DownJobs
  <2>5. ~Has(DownJobs) => ~Has({"MODE_COMLOST"})
    BY <2>4 DEF Has
  <2>6. ModeInv'
    BY <1>3, <2>2, <2>3, <2>5 DEF Control, ModeInv, Opening, PortQuiet, Looks
  <2> QED BY <2>2, <2>6 DEF Control
<1>4. CASE ConfirmsLost
  <2>1. /\ DlCnf("ISDU_CNF", "ERR", "none") \in Job
        /\ DlCnf("ISDU_CNF", "ERR", "none").type = "ISDU_CNF"
    BY CnfJob DEF DlCnfTypes, Results, Tags
  <2>2. Posts({"ISDU_CNF"})
    BY <1>4, <2>1, PostsOne DEF ConfirmsLost
  <2>3. {"ISDU_CNF"} \cap (CfgJobs \cup StopJob \cup DownJobs) = {}
    BY DEF CfgJobs, StopJob, DownJobs
  <2>4. ConfigInv' /\ (Unconfigured' => Unconfigured)
    BY <2>2, <2>3, ConfigKept DEF Control
  <2>5. /\ Has({"MODE_COMLOST"})' => Has({"MODE_COMLOST"})
        /\ \A j \in Jobs' : j.type = "DL_READ_CNF" => j \in Jobs
    BY <2>2, <2>3, DownKept
  <2>6. ModeInv'
    BY <1>4, <2>4, <2>5 DEF Control, ModeInv, Opening, ConfirmsLost
  <2> QED BY <2>4, <2>6 DEF Control
<1> QED BY <1>1, <1>2, <1>3, <1>4, ModeHandlerSteps

StartupAction == DlWurq \/ DlStartupReply

(* Jobs of the types of P are posted, and nothing else touches the         *)
(* services.                                                               *)
LEMMA StartupSteps ==
  ASSUME TypeInv, StartupAction
  PROVE  /\ UNCHANGED <<dlMode, isdu, isduReq, totSeg, served, alState, alSvc, alData, alLen>>
         /\ UNCHANGED dlPc /\ dlPc = "wait"
         /\ rwcmd' \in {rwcmd, "NONE"}
         /\ \E j \in Job :
               /\ Post(j)
               /\ \/ /\ DlWurq /\ mdh = "ESTCOM_1" /\ UNCHANGED mdhEv
                     /\ \/ /\ j.type = "MODE_STARTUP"
                           /\ mdh' = "STARTUP_2" /\ mh' = "STARTUP_2" /\ UNCHANGED mhinfo
                        \/ /\ j.type = "MODE_INACTIVE"
                           /\ mdh' = "IDLE_0" /\ mhinfo' = "NONE" /\ UNCHANGED mh
                  \/ /\ DlStartupReply /\ mh = "STARTUP_2" /\ UNCHANGED mdh
                     /\ j.type = "DL_READ_CNF"
                     /\ \/ j.res = "OK" /\ UNCHANGED <<mhinfo, mdhEv, mh>>
                        \/ mhinfo' = "COMLOST" /\ mh' = "INACTIVE_0"
<1>1. /\ UNCHANGED <<dlMode, isdu, isduReq, totSeg, served, alState, alSvc, alData, alLen>>
      /\ UNCHANGED dlPc /\ dlPc = "wait"
      /\ rwcmd' \in {rwcmd, "NONE"}
  BY DEF StartupAction, DlWurq, DlStartupReply, isduVars
<1>2. \A type \in {"MODE_STARTUP", "MODE_INACTIVE"} : Signal(type) \in Job /\ Signal(type).type = type
  BY SignalIsDlJob DEF DlJob, Signal, MkJob
<1>3. \A res \in {"OK", "ERR"} : /\ DlCnf("DL_READ_CNF", res, "none") \in Job
                                /\ DlCnf("DL_READ_CNF", res, "none").type = "DL_READ_CNF"
                                /\ DlCnf("DL_READ_CNF", res, "none").res = res
  BY DlCnfWellFormed DEF Results, DlCnf, MkJob
<1>4. CASE DlWurq
  BY <1>1, <1>2, <1>4 DEF DlWurq
<1>5. CASE DlStartupReply
  <2>1. mh = "STARTUP_2" /\ UNCHANGED mdh
    BY <1>5 DEF DlStartupReply
  <2>2. \E res \in {"OK", "ERR"} :
           /\ Post(DlCnf("DL_READ_CNF", res, "none"))
           /\ \/ res = "OK" /\ UNCHANGED <<mhinfo, mdhEv, mh>>
              \/ mhinfo' = "COMLOST" /\ mh' = "INACTIVE_0"
    BY <1>5 DEF DlStartupReply
  <2> QED BY <1>1, <1>3, <1>5, <2>1, <2>2
<1> QED BY <1>4, <1>5 DEF StartupAction

LEMMA StartupControl ==
  ASSUME TypeInv, Control, StartupAction, UNCHANGED <<cfgs, sm>>
  PROVE  Control'
<1>1. UNCHANGED <<dlMode, isdu>> /\ dlPc' \notin Leaves
  BY StartupSteps DEF Leaves
<1>2. PICK j \in Job :
               /\ Post(j)
               /\ \/ /\ DlWurq /\ mdh = "ESTCOM_1" /\ UNCHANGED mdhEv
                     /\ \/ /\ j.type = "MODE_STARTUP"
                           /\ mdh' = "STARTUP_2" /\ mh' = "STARTUP_2" /\ UNCHANGED mhinfo
                        \/ /\ j.type = "MODE_INACTIVE"
                           /\ mdh' = "IDLE_0" /\ mhinfo' = "NONE" /\ UNCHANGED mh
                  \/ /\ DlStartupReply /\ mh = "STARTUP_2" /\ UNCHANGED mdh
                     /\ j.type = "DL_READ_CNF"
                     /\ \/ j.res = "OK" /\ UNCHANGED <<mhinfo, mdhEv, mh>>
                        \/ mhinfo' = "COMLOST" /\ mh' = "INACTIVE_0"
  BY StartupSteps
<1>3. Posts({j.type})
  BY <1>2, PostsOne
<1>4. {j.type} \cap (CfgJobs \cup StopJob) = {}
  BY <1>2 DEF CfgJobs, StopJob
<1>5. ConfigInv' /\ (Unconfigured' => Unconfigured)
  BY <1>3, <1>4, ConfigKept DEF Control
<1>6. Jobs' = Jobs \cup {j}
  BY <1>2, PostOne, TypeFacts
<1>7. Has({"MODE_COMLOST"})' => Has({"MODE_COMLOST"})
  <2>1. {"MODE_COMLOST"} \cap {j.type} = {}
    BY <1>2
  <2> QED BY <1>3, <2>1, PostsKeep
<1>8. CASE DlWurq /\ mdh = "ESTCOM_1" /\ UNCHANGED mdhEv /\ j.type # "DL_READ_CNF"
  <2>1. /\ Opening /\ dlMode = "STARTUP" /\ sm = "PortInactive" /\ mhinfo = "NONE"
        /\ mh = "INACTIVE_0" /\ ~Has(DownJobs) /\ ~Unconfigured /\ isdu = "INACTIVE_0"
    BY <1>8 DEF Control, ModeInv, Opening, PortQuiet
  <2>2. ~Has({"MODE_COMLOST"}) /\ \A k \in Jobs : k.type # "DL_READ_CNF"
    BY <2>1 DEF Has, DownJobs
  <2>3. \A k \in Jobs' : k.type # "DL_READ_CNF"
    BY <1>6, <1>8, <2>2
  <2>4. CASE j.type = "MODE_STARTUP"
    BY <1>1, <1>2, <1>5, <1>7, <1>8, <2>1, <2>2, <2>3, <2>4 DEF Control, ModeInv, Opening, PortQuiet
  <2>5. CASE j.type = "MODE_INACTIVE"
    <3>1. ~Has(DownJobs)'
      BY <2>1, <1>6, <2>5 DEF Has, DownJobs
    <3>2. /\ mdh' = "IDLE_0" /\ mhinfo' = "NONE" /\ mh' = "INACTIVE_0" /\ sm' = "PortInactive"
          /\ dlMode' = "STARTUP" /\ isdu' = "INACTIVE_0" /\ ~Unconfigured'
      BY <1>1, <1>2, <1>5, <1>8, <2>1, <2>5
    <3>3. PortQuiet'
      BY <3>1, <3>2 DEF PortQuiet
    <3>4. ModeInv'
      BY <1>1, <2>3, <3>2, <3>3 DEF ModeInv
    <3> QED BY <1>5, <3>4 DEF Control
  <2> QED BY <1>2, <1>8, <2>4, <2>5
<1>9. CASE DlStartupReply /\ mh = "STARTUP_2" /\ UNCHANGED mdh /\ j.type = "DL_READ_CNF"
  <2>1. mdh = "STARTUP_2" /\ ~Unconfigured
    BY <1>9 DEF Control, ModeInv, PortQuiet
  <2>2. \A k \in Jobs : k.type = "DL_READ_CNF" => k.res # "ERR"
    BY <1>9 DEF Control, ModeInv
  <2>3. CASE j.res = "OK" /\ UNCHANGED <<mhinfo, mdhEv, mh>>
    BY <1>1, <1>5, <1>6, <1>7, <1>9, <2>1, <2>2, <2>3 DEF Control, ModeInv, Opening, PortQuiet
  <2>4. CASE mhinfo' = "COMLOST" /\ mh' = "INACTIVE_0"
    BY <1>1, <1>5, <1>7, <1>9, <2>1, <2>4 DEF Control, ModeInv, Opening, PortQuiet
  <2> QED BY <1>2, <1>9, <2>3, <2>4
<1> QED BY <1>2, <1>8, <1>9

-----------------------------------------------------------------------------
(* Port control, and the start-up as a whole.                              *)

PortSignals == {"OD_START", "PORTMODE_OPERATE", "PORTMODE_COMLOST"}

LEMMA PortSignalPosts ==
  ASSUME TypeInv, mbox # <<>>,
         TakeAndPost(<<>>) \/ \E t \in PortSignals : TakeAndPost(<<Signal(t)>>)
  PROVE  Posts(PortSignals)
<1>1. CASE TakeAndPost(<<>>)
  BY <1>1, PostsNothing, PostsMore
<1>2. ASSUME NEW t \in PortSignals, TakeAndPost(<<Signal(t)>>) PROVE Posts(PortSignals)
  <2>1. Signal(t) \in Job /\ Signal(t).type = t
    BY PlainSignal DEF PortSignals
  <2>2. Posts({t})
    BY <1>2, <2>1, PostsOne
  <2> QED BY <2>2, PostsMore
<1> QED BY <1>1, <1>2

LEMMA HeadHas ==
  ASSUME TypeInv, NEW type, Take(type), NEW T, type \in T
  PROVE  Has(T) /\ Head(mbox) \in Jobs /\ Head(mbox).type = type
  BY HeadJob DEF Has, Take

SmUp == {"waitonDLOperate", "SMOperate"}

(* The modes are as before, and jobs are posted that nothing depends on.   *)
LEMMA PortKept ==
  ASSUME TypeInv, Control, UNCHANGED <<cfgs, mdh, dlMode, mhinfo, mdhEv, mh, isdu, dlPc>>,
         Posts(PortSignals), sm' \in SmUp <=> sm \in SmUp,
         sm' = sm \/ sm # "PortInactive" \/ Has(DownJobs)
  PROVE  Control'
<1>1. PortSignals \cap (CfgJobs \cup StopJob \cup DownJobs) = {}
  BY DEF PortSignals, CfgJobs, StopJob, DownJobs
<1>2. ConfigInv' /\ (Unconfigured' => Unconfigured)
  BY <1>1, ConfigKept DEF Control
<1>3. /\ Has(DownJobs)' => Has(DownJobs)
      /\ Has({"MODE_COMLOST"})' => Has({"MODE_COMLOST"})
      /\ \A j \in Jobs' : j.type = "DL_READ_CNF" => j \in Jobs
  BY <1>1, DownKept
<1>4. PortQuiet => sm' = sm
  BY DEF PortQuiet
<1>5. ModeInv'
  BY <1>2, <1>3, <1>4 DEF Control, ModeInv, Opening, PortQuiet, SmUp
<1> QED BY <1>2, <1>5 DEF Control

LEMMA SetPortControl ==
  ASSUME TypeInv, Control, SmSetPortConfig
  PROVE  Control'
<1>1. UNCHANGED <<cfgs, mdh, mhinfo, mh, isdu, dlPc>> /\ TakeAndPost(<<>>) /\ Take("SM_CFG")
  BY DEF SmSetPortConfig, PortStep, isduVars, appVars
<1>2. Has(CfgJobs)
  BY <1>1, HeadHas DEF CfgJobs
<1>3. Unconfigured /\ cfgs # 0
  BY <1>2 DEF Unconfigured, Control, ConfigInv
<1>4. mdh = "IDLE_0" /\ dlMode = "INACTIVE" /\ PortQuiet /\ isdu = "INACTIVE_0"
  BY <1>3 DEF Control, ModeInv
<1>5. sm' = "PortInactive" /\ dlMode' = "STARTUP" /\ mdhEv'
  BY <1>4 DEF SmSetPortConfig, PortQuiet, DL_SetMode_req
<1>6. <<>> \in Seq(Job) /\ Range(<<>>) = {}
  BY NoJobs
<1>7. Order(CfgJobs, CfgJobs) /\ "SM_CFG" \in CfgJobs /\ Order(StopJob, {"SM_CFG"})
  BY DEF Control, ConfigInv, CfgJobs, Sole
<1>8. ~Has(CfgJobs)' /\ ~Has(StopJob)'
  <2>1. \A A : \A j \in Range(<<>>) : j.type \notin A
    BY <1>6
  <2>2. ~Has(CfgJobs)'
    BY <1>1, <1>6, <1>7, <2>1, TakeSole
  <2>3. ~Has(StopJob)'
    BY <1>1, <1>6, <1>7, <2>1, TakeSole
  <2> QED BY <2>2, <2>3
<1>9. Posts({})
  BY <1>1, PostsNothing DEF Take
<1>10. Order(CfgJobs, CfgJobs)' /\ Order(StopJob, {"SM_CFG"})'
  BY <1>7, <1>9, PostsKeep
<1>11. (Has(DownJobs)' => Has(DownJobs)) /\ \A j \in Jobs' : j.type = "DL_READ_CNF" => j \in Jobs
  BY <1>9, DownKept
<1>12. PortQuiet' /\ ~Unconfigured'
  BY <1>1, <1>3, <1>4, <1>5, <1>8, <1>11 DEF PortQuiet, Unconfigured
<1>13. ConfigInv'
  BY <1>1, <1>3, <1>8, <1>10 DEF ConfigInv, Sole
<1>14. mh' = "INACTIVE_0" /\ mdh' = "IDLE_0" /\ isdu' = "INACTIVE_0" /\ dlPc' \notin Leaves
  BY <1>1, <1>4 DEF PortQuiet, Control, ModeInv
<1>15. ModeInv'
  BY <1>5, <1>12, <1>14 DEF ModeInv
<1> QED BY <1>13, <1>15 DEF Control

LEMMA CfgChangeControl ==
  ASSUME TypeInv, Control, CmCfgChange
  PROVE  Control'
<1> DEFINE stop == Signal("OD_STOP")
           cfg  == Signal("SM_CFG")
           s    == <<stop, cfg>>
<1>1. /\ UNCHANGED <<cfgs, sm, dlMode, mdhEv, mdh, mhinfo, mh, isdu, dlPc>>
      /\ TakeAndPost(s) /\ Take("SMI_CFG")
  BY DEF CmCfgChange, PortStep, ModeUnchanged, isduVars, appVars
<1>2. stop \in Job /\ stop.type = "OD_STOP" /\ cfg \in Job /\ cfg.type = "SM_CFG"
  BY PlainSignal
<1> HIDE DEF stop, cfg
<1>3. s \in Seq(Job) /\ Len(s) = 2 /\ s[1] = stop /\ s[2] = cfg
  BY <1>2, Pair
<1>4. Range(s) = {stop, cfg}
  <2>1. Range(s) = {s[i] : i \in 1 .. Len(s)}
    BY <1>3, RangeEquality
  <2> QED BY <1>3, <2>1
<1> HIDE DEF s
<1>5. Has(CfgJobs) /\ Moves(s)
  BY <1>1, HeadHas DEF CfgJobs, Moves, Take
<1>6. Unconfigured /\ cfgs # 0 /\ Unconfigured' /\ Has({"SM_CFG"})'
  <2>1. cfg \in Jobs'
    BY <1>3, <1>4, <1>5, MovesJobs
  <2>2. Has({"SM_CFG"})' /\ Has(CfgJobs)'
    BY <1>2, <2>1 DEF Has, CfgJobs
  <2> QED BY <1>5, <2>2 DEF Unconfigured, Control, ConfigInv
<1>7. Order(CfgJobs, CfgJobs) /\ "SMI_CFG" \in CfgJobs
  BY DEF Control, ConfigInv, CfgJobs, Sole
<1>8. ~Has({"SM_CFG"}) /\ ~Has(StopJob)
  <2>1. mbox \in Seq(Job) /\ mbox # <<>> /\ Head(mbox).type = "SMI_CFG"
    BY <1>1, TypeFacts DEF Take
  <2>2. \A j \in Range(Tail(mbox)) : j.type \notin CfgJobs
    BY <1>7, <2>1, TailOrder DEF Order
  <2>3. Jobs = {Head(mbox)} \cup Range(Tail(mbox))
    BY <1>1, <1>3, <2>1, TakeJobs
  <2>4. ~Has({"SM_CFG"})
    BY <2>1, <2>2, <2>3 DEF Has, CfgJobs
  <2> QED BY <2>4 DEF Control, ConfigInv
<1>9. NotAfter(s, CfgJobs, CfgJobs) /\ NotAfter(s, StopJob, {"SM_CFG"})
  BY <1>2, <1>3 DEF NotAfter, CfgJobs, StopJob
<1>10. Order(CfgJobs, CfgJobs)'
  BY <1>1, <1>3, <1>7, <1>9, TakeSole
<1>11. Order(StopJob, {"SM_CFG"})'
  BY <1>3, <1>5, <1>8, <1>9, MovesOrder DEF Control, ConfigInv
<1>12. ConfigInv'
  BY <1>1, <1>6, <1>10, <1>11 DEF ConfigInv, Sole
<1>13. Posts({"OD_STOP", "SM_CFG"})
  BY <1>2, <1>3, <1>4, <1>5 DEF Posts
<1>14. {"OD_STOP", "SM_CFG"} \cap DownJobs = {}
  BY DEF DownJobs
<1>15. /\ Has(DownJobs)' => Has(DownJobs)
       /\ Has({"MODE_COMLOST"})' => Has({"MODE_COMLOST"})
       /\ \A j \in Jobs' : j.type = "DL_READ_CNF" => j \in Jobs
  BY <1>13, <1>14, DownKept
<1>16. ModeInv'
  BY <1>1, <1>6, <1>15 DEF Control, ModeInv, Opening, PortQuiet
<1> QED BY <1>12, <1>16 DEF Control

(* A confirmation or a mode that the SM takes shows that it was started.   *)
LEMMA Down ==
  ASSUME TypeInv, Control, NEW type \in DownJobs, Take(type)
  PROVE  ~Unconfigured /\ ~Opening
  BY HeadHas DEF Control, ModeInv, PortQuiet

LEMMA ModeStartupControl ==
  ASSUME TypeInv, Control, SmModeStartup
  PROVE  Control'
<1>1. UNCHANGED <<cfgs, dlMode, mdhEv, mdh, mhinfo, mh, isdu, dlPc>> /\ Take("MODE_STARTUP")
  BY DEF SmModeStartup, PortStep, ModeUnchanged, isduVars, appVars
<1>2. ~Unconfigured /\ ~Opening /\ Has(DownJobs)
  BY <1>1, Down, HeadHas DEF DownJobs
<1>3. CASE TakeAndPost(<<>>)
  <2>1. Posts(PortSignals)
    BY <1>1, <1>3, PortSignalPosts DEF Take
  <2>2. sm' \in SmUp <=> sm \in SmUp
    BY DEF SmModeStartup, SmUp
  <2> QED BY <1>1, <1>2, <2>1, <2>2, PortKept
<1>4. CASE sm = "PortInactive" /\ mh # "STARTUP_2"
  <2>1. sm' = "CheckCompatibility" /\ TakeAndPost(<<DlCnf("DL_READ_CNF", "ERR", "none")>>)
    BY <1>4 DEF SmModeStartup
  <2>2. dlMode # "OPERATE" /\ mh = "INACTIVE_0"
    BY <1>4 DEF Control, ModeInv
  <2>3. /\ DlCnf("DL_READ_CNF", "ERR", "none") \in Job
        /\ DlCnf("DL_READ_CNF", "ERR", "none").type = "DL_READ_CNF"
    BY DlCnfWellFormed DEF Results, DlCnf, MkJob
  <2>4. Posts({"DL_READ_CNF"})
    BY <1>1, <2>1, <2>3, PostsOne DEF Take
  <2>5. {"DL_READ_CNF"} \cap (CfgJobs \cup StopJob \cup {"MODE_COMLOST"}) = {}
    BY DEF CfgJobs, StopJob
  <2>6. ConfigInv' /\ (Unconfigured' => Unconfigured)
    BY <1>1, <2>4, <2>5, ConfigKept DEF Control
  <2>7. Has({"MODE_COMLOST"})' => Has({"MODE_COMLOST"})
    BY <2>4, <2>5, PostsKeep
  <2>8. mh' = "INACTIVE_0" /\ ~Unconfigured' /\ ~Opening'
    BY <1>1, <1>2, <2>2, <2>6 DEF Opening
  <2>9. ModeInv'
    BY <1>1, <2>1, <2>2, <2>7, <2>8 DEF Control, ModeInv
  <2> QED BY <2>6, <2>9 DEF Control
<1> QED BY <1>3, <1>4 DEF SmModeStartup

(* The SM gives the port up, or goes on to OPERATE.                        *)
LEMMA SetModeControl ==
  ASSUME TypeInv, Control, Posts(PortSignals), UNCHANGED <<cfgs, mdh, mhinfo, mh, isdu, dlPc>>,
         ~Unconfigured, ~Opening,
         \/ sm' = "PortInactive" /\ dlMode' = "INACTIVE" /\ mh = "INACTIVE_0" /\ mdh # "OPERATE_4"
         \/ sm' \in SmUp /\ dlMode' = "OPERATE"
  PROVE  Control'
<1>1. PortSignals \cap (CfgJobs \cup StopJob \cup DownJobs) = {}
  BY DEF PortSignals, CfgJobs, StopJob, DownJobs
<1>2. ConfigInv' /\ (Unconfigured' => Unconfigured)
  BY <1>1, ConfigKept DEF Control
<1>3. /\ Has({"MODE_COMLOST"})' => Has({"MODE_COMLOST"})
      /\ \A j \in Jobs' : j.type = "DL_READ_CNF" => j \in Jobs
  BY <1>1, DownKept
<1>4. ~Unconfigured' /\ ~Opening'
  BY <1>2 DEF Opening
<1>5. ModeInv'
  BY <1>3, <1>4 DEF Control, ModeInv, SmUp
<1> QED BY <1>2, <1>5 DEF Control

LEMMA ComlostSteps ==
  ASSUME TypeInv, SmComlost
  PROVE  /\ sm' = "PortInactive" /\ dlMode' = "INACTIVE"
         /\ \E t \in PortSignals : TakeAndPost(<<Signal(t)>>)
  BY DEF SmComlost, DL_SetMode_req, PortSignals

LEMMA ReadCnfControl ==
  ASSUME TypeInv, Control, SmReadCnf
  PROVE  Control'
<1>1. UNCHANGED <<cfgs, mdh, mhinfo, mh, isdu, dlPc>> /\ Take("DL_READ_CNF")
  BY DEF SmReadCnf, PortStep, isduVars, appVars
<1>2. ~Unconfigured /\ ~Opening /\ Has(DownJobs) /\ Head(mbox) \in Jobs
      /\ Head(mbox).type = "DL_READ_CNF"
  BY <1>1, Down, HeadHas DEF DownJobs
<1>3. CASE sm = "CheckCompatibility" /\ Head(mbox).res = "OK"
  <2>1. sm' \in SmUp /\ dlMode' = "OPERATE" /\ TakeAndPost(<<>>)
    BY <1>3 DEF SmReadCnf, DL_SetMode_req, SmUp
  <2>2. Posts(PortSignals)
    BY <1>1, <2>1, PortSignalPosts DEF Take
  <2> QED BY <1>1, <1>2, <2>1, <2>2, SetModeControl
<1>4. CASE sm = "CheckCompatibility" /\ Head(mbox).res = "ERR" /\ SmComlost
  <2>1. sm' = "PortInactive" /\ dlMode' = "INACTIVE"
    BY <1>4, ComlostSteps
  <2>2. Posts(PortSignals)
    BY <1>1, <1>4, ComlostSteps, PortSignalPosts DEF Take
  <2>3. mh = "INACTIVE_0" /\ mdh # "OPERATE_4"
    BY <1>2, <1>4 DEF Control, ModeInv
  <2> QED BY <1>1, <1>2, <2>1, <2>2, <2>3, SetModeControl
<1>5. CASE SmIgnore
  <2>1. UNCHANGED <<sm, dlMode, mdhEv>> /\ TakeAndPost(<<>>)
    BY <1>5 DEF SmIgnore, ModeUnchanged
  <2>2. Posts(PortSignals)
    BY <1>1, <2>1, PortSignalPosts DEF Take
  <2> QED BY <1>1, <2>1, <2>2, PortKept
<1> QED BY <1>3, <1>4, <1>5 DEF SmReadCnf

LEMMA ModeComlostControl ==
  ASSUME TypeInv, Control, SmModeComlost
  PROVE  Control'
<1>1. UNCHANGED <<cfgs, mdh, mhinfo, mh, isdu, dlPc>> /\ Take("MODE_COMLOST")
  BY DEF SmModeComlost, PortStep, isduVars, appVars
<1>2. ~Unconfigured /\ ~Opening
  BY <1>1, Down DEF DownJobs
<1>3. CASE SmComlost
  <2>1. sm' = "PortInactive" /\ dlMode' = "INACTIVE"
    BY <1>3, ComlostSteps
  <2>2. Posts(PortSignals)
    BY <1>1, <1>3, ComlostSteps, PortSignalPosts DEF Take
  <2>3. Has({"MODE_COMLOST"})
    BY <1>1, HeadHas
  <2>4. mh = "INACTIVE_0" /\ mdh # "OPERATE_4"
    BY <2>3 DEF Control, ModeInv
  <2> QED BY <1>1, <1>2, <2>1, <2>2, <2>4, SetModeControl
<1>4. CASE SmIgnore
  <2>1. UNCHANGED <<sm, dlMode, mdhEv>> /\ TakeAndPost(<<>>)
    BY <1>4 DEF SmIgnore, ModeUnchanged
  <2>2. Posts(PortSignals)
    BY <1>1, <2>1, PortSignalPosts DEF Take
  <2> QED BY <1>1, <2>1, <2>2, PortKept
<1> QED BY <1>3, <1>4 DEF SmModeComlost

LEMMA OtherPortControl ==
  ASSUME TypeInv, Control, SmModeOperate \/ SmModeInactive \/ CmOperate \/ CmComlost
  PROVE  Control'
<1>1. /\ UNCHANGED <<cfgs, mdh, dlMode, mhinfo, mdhEv, mh, isdu, dlPc>>
      /\ mbox # <<>>
  BY DEF SmModeOperate, SmModeInactive, CmOperate, CmComlost, ModeUnchanged, PortStep, isduVars,
         appVars, Take
<1>2. TakeAndPost(<<>>) \/ \E t \in PortSignals : TakeAndPost(<<Signal(t)>>)
  BY DEF SmModeOperate, SmModeInactive, CmOperate, CmComlost, PortSignals
<1>3. Posts(PortSignals)
  BY <1>1, <1>2, PortSignalPosts
<1>4. (sm' \in SmUp <=> sm \in SmUp) /\ (sm' = sm \/ sm # "PortInactive")
  BY DEF SmModeOperate, SmModeInactive, CmOperate, CmComlost, SmUp
<1> QED BY <1>1, <1>3, <1>4, PortKept

LEMMA PortControl == ASSUME TypeInv, Control, PortAction PROVE Control'
  BY CfgChangeControl, SetPortControl, ModeStartupControl, ReadCnfControl, ModeComlostControl,
     OtherPortControl DEF PortAction

LEMMA DlKinds ==
  ASSUME DlStep
  PROVE  /\ CycleStep \/ DlModeHandler \/ StartupAction
         /\ UNCHANGED <<dlCall, odeVars, portVars, ds, appVars>>
  BY DEF DlStep, DlThread, DlCycle, CycleStep, OdActions, RxFailures, StartupAction

LEMMA InitControl == Init => Control
<1> SUFFICES ASSUME Init PROVE Control
  OBVIOUS
<1>1. Jobs = {} /\ mbox = <<>>
  BY NoJobs DEF Init, JobsInit, Jobs
<1>2. \A T : ~Has(T)
  BY <1>1 DEF Has
<1>3. \A A, B : Order(A, B)
  BY <1>1, ShortOrder DEF Order
<1>4. ConfigInv
  BY <1>2, <1>3 DEF ConfigInv, Sole, Init
<1>5. PortQuiet
  BY <1>2 DEF Init, DlInit, PortQuiet
<1>6. ModeInv
  BY <1>1, <1>5 DEF Init, DlInit, ModeInv, Opening, Leaves
<1> QED BY <1>4, <1>6 DEF Control

LEMMA NextControl ==
  ASSUME OneClient, TypeInv, Control, [Next]_vars
  PROVE  Control'
<1>1. CASE DlStep
  <2>1. UNCHANGED <<cfgs, sm>>
    BY <1>1, DlKinds DEF portVars, appVars
  <2> QED BY <1>1, <2>1, DlKinds, CycleControl, ModeHandlerControl, StartupControl
<1>2. CASE UNCHANGED vars
  <2>1. UNCHANGED <<cfgs, sm, mdh, dlMode, mhinfo, mdhEv, mh, isdu, dlPc, mbox>>
    BY <1>2 DEF vars, dlVars, portVars, appVars
  <2>2. Posts({})
    BY <2>1, PostsNothing
  <2> QED BY <2>1, <2>2, ControlKept
<1> QED BY <1>1, <1>2, ApplicationControl, ServiceControl, PortControl
       DEF Next, MainThread, PortAction, OdeAction, AlRequest, AlConfirm, DlRequest

-----------------------------------------------------------------------------
(* What the steps of the main thread's port control and of the DL post.    *)

PortDown == {"OD_STOP", "SM_CFG", "DL_READ_CNF", "PORTMODE_COMLOST"}
PortUps  == SmModeOperate \/ CmOperate

LEMMA CfgChangePosts == ASSUME TypeInv, CmCfgChange PROVE Posts({"OD_STOP", "SM_CFG"})
<1> DEFINE stop == Signal("OD_STOP")
           cfg  == Signal("SM_CFG")
<1>1. stop \in Job /\ stop.type = "OD_STOP" /\ cfg \in Job /\ cfg.type = "SM_CFG"
  BY PlainSignal
<1>2. TakeAndPost(<<stop, cfg>>) /\ mbox # <<>>
  BY DEF CmCfgChange, Take
<1> HIDE DEF stop, cfg
<1>3. <<stop, cfg>> \in Seq(Job) /\ \A j \in Range(<<stop, cfg>>) : j \in {stop, cfg}
  BY <1>1 DEF Range
<1>4. Moves(<<stop, cfg>>)
  BY <1>2 DEF Moves
<1> QED BY <1>1, <1>3, <1>4 DEF Posts

LEMMA PortDownPosts ==
  ASSUME TypeInv, PortAction, ~PortUps
  PROVE  Posts(PortDown)
<1>1. PICK type : Take(type)
  BY DEF PortAction, CmCfgChange, SmSetPortConfig, SmModeStartup, SmReadCnf, SmModeOperate,
         SmModeComlost, SmModeInactive, CmOperate, CmComlost
<1>2. \/ TakeAndPost(<<>>)
      \/ TakeAndPost(<<Signal("PORTMODE_COMLOST")>>)
      \/ TakeAndPost(<<DlCnf("DL_READ_CNF", "ERR", "none")>>)
      \/ CmCfgChange
  BY DEF PortAction, PortUps, CmCfgChange, SmSetPortConfig, SmModeStartup, SmReadCnf,
         SmModeComlost, SmModeInactive, CmComlost, SmComlost, SmIgnore
<1>3. CASE TakeAndPost(<<>>)
  BY <1>1, <1>3, PostsNothing, PostsMore DEF Take
<1>4. CASE TakeAndPost(<<Signal("PORTMODE_COMLOST")>>)
  <2>1. Signal("PORTMODE_COMLOST") \in Job /\ Signal("PORTMODE_COMLOST").type = "PORTMODE_COMLOST"
    BY PlainSignal
  <2>2. Posts({"PORTMODE_COMLOST"})
    BY <1>1, <1>4, <2>1, PostsOne DEF Take
  <2> QED BY <2>2, PostsMore DEF PortDown
<1>5. CASE TakeAndPost(<<DlCnf("DL_READ_CNF", "ERR", "none")>>)
  <2>1. /\ DlCnf("DL_READ_CNF", "ERR", "none") \in Job
        /\ DlCnf("DL_READ_CNF", "ERR", "none").type = "DL_READ_CNF"
    BY DlCnfWellFormed DEF Results, DlCnf, MkJob
  <2>2. Posts({"DL_READ_CNF"})
    BY <1>1, <1>5, <2>1, PostsOne DEF Take
  <2> QED BY <2>2, PostsMore DEF PortDown
<1>6. CASE CmCfgChange
  BY <1>6, CfgChangePosts, PostsMore DEF PortDown
<1> QED BY <1>2, <1>3, <1>4, <1>5, <1>6

LEMMA PortUpPosts == ASSUME TypeInv, PortUps PROVE Posts(PortSignals)
<1>1. mbox # <<>> /\ (TakeAndPost(<<>>) \/ \E t \in PortSignals : TakeAndPost(<<Signal(t)>>))
  BY DEF PortUps, SmModeOperate, CmOperate, Take, PortSignals
<1> QED BY <1>1, PortSignalPosts

PortTypes == PortDown \cup PortSignals

LEMMA PortTypesPosted == ASSUME TypeInv, PortAction PROVE Posts(PortTypes)
  BY PortDownPosts, PortUpPosts, PostsMore DEF PortTypes

LEMMA DlTypesPosted == ASSUME TypeInv, DlStep PROVE Posts(DlTypes)
<1>1. PICK s \in Seq(DlJob) : mbox' = mbox \o s
  BY DlStepType DEF DlPosts
<1>2. s \in Seq(Job) /\ Range(s) \subseteq DlJob /\ \A j \in DlJob : j.type \in DlTypes
  BY DlJobIsJob, RangeOfSeq DEF DlJob
<1> QED BY <1>1, <1>2 DEF Posts, Moves

-----------------------------------------------------------------------------
(* Until the port is in OPERATE for the first time, nothing is requested.  *)

UpJobs == {"MODE_OPERATE", "PORTMODE_OPERATE", "OD_START"}

Starting == Unconfigured \/ dlMode = "STARTUP" \/ mdh \in {"ESTCOM_1", "STARTUP_2"}

NotYet == Starting => ode = "Inactive" /\ ~Has(UpJobs) /\ rwcmd # "ISDUTRANSPORT"

LEMMA ConfigPosted ==
  ASSUME NEW P, TypeInv, Posts(P), P \cap CfgJobs = {}, UNCHANGED cfgs, Unconfigured'
  PROVE  Unconfigured
  BY PostsKeep DEF Unconfigured

LEMMA ServicePosts ==
  ASSUME TypeInv, OdeAction \/ AlRequest \/ AlConfirm \/ DlRequest
  PROVE  Posts(ServiceJobs)
  BY OdePosts, AlPosts, DlRequestPosts, PostsMore DEF ServiceJobs, ParamCnfs, DlCnfTypes

LEMMA ServiceUnchanged ==
  ASSUME OdeAction \/ AlRequest \/ AlConfirm \/ DlRequest
  PROVE  UNCHANGED <<cfgs, asked, cm, sm, mdh, dlMode, mhinfo, mdhEv, mh, isdu, served>>
  BY DEF OdeAction, OdeReject, OdeAccept, OdeConfirm, OdeStart, OdeStop, DsConfirm, AlRequest,
         AlBusy, AlArgErr, AlParam, AlIsdu, AlConfirm, AlReadParamCnf, AlWriteParamCnf, AlIsduCnf,
         AlAbort, DlRequest, DlParamReq, DlIsduReq, dlVars, modeVars, isduVars, portVars, appVars

LEMMA UnconfiguredKept ==
  ASSUME OneClient, TypeInv, Next, Unconfigured'
  PROVE  Unconfigured
<1>1. CASE DlStep
  <2>1. UNCHANGED cfgs /\ DlTypes \cap CfgJobs = {}
    BY <1>1 DEF DlStep, appVars, DlTypes, CfgJobs
  <2> QED BY <1>1, <2>1, DlTypesPosted, ConfigPosted
<1>2. CASE OdeAction \/ AlRequest \/ AlConfirm \/ DlRequest
  <2>1. ServiceJobs \cap CfgJobs = {}
    BY DEF ServiceJobs, DlCnfTypes, CfgJobs
  <2> QED BY <1>2, <2>1, ServicePosts, ServiceUnchanged, ConfigPosted
<1>3. CASE CmCfgChange \/ SmSetPortConfig
  BY <1>3, HeadHas DEF CmCfgChange, SmSetPortConfig, CfgJobs, Unconfigured
<1>4. CASE PortAction /\ ~(CmCfgChange \/ SmSetPortConfig)
  <2>1. UNCHANGED cfgs
    BY <1>4 DEF PortAction, SmModeStartup, SmReadCnf, SmModeOperate, SmModeComlost, SmModeInactive,
                CmOperate, CmComlost, PortStep, appVars
  <2>2. CASE SmModeStartup /\ TakeAndPost(<<DlCnf("DL_READ_CNF", "ERR", "none")>>)
    <3>1. /\ DlCnf("DL_READ_CNF", "ERR", "none") \in Job
          /\ DlCnf("DL_READ_CNF", "ERR", "none").type = "DL_READ_CNF"
      BY DlCnfWellFormed DEF Results, DlCnf, MkJob
    <3>2. Posts({"DL_READ_CNF"}) /\ {"DL_READ_CNF"} \cap CfgJobs = {}
      BY <2>2, <3>1, PostsOne DEF SmModeStartup, Take, CfgJobs
    <3> QED BY <2>1, <3>2, ConfigPosted
  <2>3. CASE mbox # <<>> /\ (TakeAndPost(<<>>) \/ \E t \in PortSignals : TakeAndPost(<<Signal(t)>>))
    <3>1. Posts(PortSignals) /\ PortSignals \cap CfgJobs = {}
      BY <2>3, PortSignalPosts DEF PortSignals, CfgJobs
    <3> QED BY <2>1, <3>1, ConfigPosted
  <2> QED
    BY <1>4, <2>2, <2>3
       DEF PortAction, SmModeStartup, SmReadCnf, SmModeOperate, SmModeComlost, SmModeInactive,
           CmOperate, CmComlost, SmComlost, SmIgnore, Take, PortSignals
<1>5. ASSUME NEW r \in Reqs, NEW k \in Kinds, SMI_DeviceRW_req(r, k) PROVE Unconfigured
  <2>1. MkJob("SMI_RW", "ODE", r, k, "OK", "none") \in Job
        /\ MkJob("SMI_RW", "ODE", r, k, "OK", "none").type = "SMI_RW"
    BY OnRequestAssumption, MkJobType DEF JobTypes, Clients, Results, Tags, Ids, MkJob
  <2>2. Posts({"SMI_RW"}) /\ UNCHANGED cfgs /\ {"SMI_RW"} \cap CfgJobs = {}
    BY <1>5, <2>1, PostsOne DEF SMI_DeviceRW_req, CfgJobs
  <2> QED BY <2>2, ConfigPosted
<1>6. CASE SMI_PortConfiguration_req
  BY <1>6, OnRequestAssumption
     DEF SMI_PortConfiguration_req, OneClient, TypeInv, TypeOK, OdTypeOK, Unconfigured
<1>7. CASE AL_Abort \/ \E r \in DsReqs : DsRead(r)
  BY <1>7 DEF OneClient, AL_Abort, TypeInv, TypeOK, OdTypeOK
<1> QED BY <1>1, <1>2, <1>3, <1>4, <1>5, <1>6, <1>7
       DEF Next, MainThread, PortAction, OdeAction, AlRequest, AlConfirm, DlRequest, Application

LEMMA StartingKept ==
  ASSUME OneClient, TypeInv, Control, Next, Starting'
  PROVE  Starting
<1>1. CASE Unconfigured'
  BY <1>1, UnconfiguredKept DEF Starting
<1>2. CASE DlStep
  <2>1. CASE CycleStep
    BY <1>1, <2>1, CycleSteps DEF Starting
  <2>2. CASE DlModeHandler
    BY <1>1, <2>2, ModeHandlerSteps DEF Starting, GivesUp, Operates, Looks, ConfirmsLost
  <2>3. CASE StartupAction
    <3>1. UNCHANGED dlMode
      BY <2>3, StartupSteps
    <3>2. mdh = "ESTCOM_1" \/ UNCHANGED mdh
      BY <2>3 DEF StartupAction, DlWurq, DlStartupReply
    <3> QED BY <1>1, <3>1, <3>2 DEF Starting
  <2> QED BY <1>2, <2>1, <2>2, <2>3, DlKinds
<1>3. CASE SmSetPortConfig
  BY <1>3, HeadHas DEF SmSetPortConfig, CfgJobs, Unconfigured, Starting
<1>4. CASE PortAction /\ ~SmSetPortConfig
  <2>1. UNCHANGED mdh /\ dlMode' \in {dlMode, "OPERATE", "INACTIVE"}
    BY <1>4 DEF PortAction, CmCfgChange, SmModeStartup, SmReadCnf, SmModeOperate,
                SmModeComlost, SmModeInactive, CmOperate, CmComlost, SmComlost, SmIgnore, PortStep,
                ModeUnchanged, DL_SetMode_req
  <2> QED BY <1>1, <2>1 DEF Starting
<1>5. CASE OdeAction \/ AlRequest \/ AlConfirm \/ DlRequest
  BY <1>1, <1>5, ServiceUnchanged DEF Starting
<1>6. CASE Application
  <2>1. UNCHANGED <<mdh, dlMode>>
    BY <1>6 DEF Application, SMI_DeviceRW_req, SMI_PortConfiguration_req, AL_Abort, DsRead, dlVars
  <2> QED BY <1>1, <2>1 DEF Starting
<1> QED BY <1>2, <1>3, <1>4, <1>5, <1>6
       DEF Next, MainThread, PortAction, OdeAction, AlRequest, AlConfirm, DlRequest

LEMMA ModeHandlerPosts ==
  ASSUME TypeInv, GivesUp("MODE_COMLOST") \/ GivesUp("MODE_INACTIVE") \/ Looks \/ ConfirmsLost
  PROVE  Posts({"MODE_COMLOST", "MODE_INACTIVE", "ISDU_CNF"})
<1>1. CASE GivesUp("MODE_COMLOST") \/ GivesUp("MODE_INACTIVE")
  BY <1>1 DEF GivesUp, ModeReport, Posts
<1>2. CASE Looks
  BY <1>2, PostsNothing, PostsMore DEF Looks
<1>3. CASE ConfirmsLost
  <2>1. /\ DlCnf("ISDU_CNF", "ERR", "none") \in Job
        /\ DlCnf("ISDU_CNF", "ERR", "none").type = "ISDU_CNF"
    BY CnfJob DEF DlCnfTypes, Results, Tags
  <2>2. Posts({"ISDU_CNF"})
    BY <1>3, <2>1, PostsOne DEF ConfirmsLost
  <2> QED BY <2>2, PostsMore
<1> QED BY <1>1, <1>2, <1>3

LEMMA StartupPosts ==
  ASSUME TypeInv, StartupAction
  PROVE  Posts({"MODE_STARTUP", "MODE_INACTIVE", "DL_READ_CNF"})
<1>1. PICK j \in Job : Post(j) /\ j.type \in {"MODE_STARTUP", "MODE_INACTIVE", "DL_READ_CNF"}
  BY StartupSteps
<1>2. Posts({j.type})
  BY <1>1, PostsOne
<1> QED BY <1>1, <1>2, PostsMore

LEMMA DlNotYet ==
  ASSUME TypeInv, Control, Control', NotYet, DlStep, Starting, Starting'
  PROVE  NotYet'
<1>1. ode = "Inactive" /\ ode' = "Inactive" /\ ~Has(UpJobs) /\ rwcmd # "ISDUTRANSPORT"
  BY DlKinds DEF NotYet, odeVars
<1>2. CASE CycleStep
  <2>1. mdh = "OPERATE_4" /\ ~Unconfigured /\ dlMode = "OPERATE"
    BY <1>2, CycleSteps DEF Control, ModeInv
  <2> QED BY <2>1 DEF Starting
<1>3. CASE DlModeHandler
  <2>1. ~Operates
    <3>1. Operates => mdh' = "OPERATE_4" /\ ~Unconfigured' /\ dlMode' = "OPERATE"
      BY DEF Operates, Control, ModeInv
    <3> QED BY <3>1 DEF Starting
  <2>2. Posts({"MODE_COMLOST", "MODE_INACTIVE", "ISDU_CNF"}) /\ UNCHANGED rwcmd
    BY <1>3, <2>1, ModeHandlerSteps, ModeHandlerPosts
  <2>3. UpJobs \cap {"MODE_COMLOST", "MODE_INACTIVE", "ISDU_CNF"} = {}
    BY DEF UpJobs
  <2>4. ~Has(UpJobs)'
    BY <1>1, <2>2, <2>3, PostsKeep
  <2> QED BY <1>1, <2>2, <2>4 DEF NotYet
<1>4. CASE StartupAction
  <2>1. Posts({"MODE_STARTUP", "MODE_INACTIVE", "DL_READ_CNF"}) /\ rwcmd' # "ISDUTRANSPORT"
    BY <1>1, <1>4, StartupPosts, StartupSteps
  <2>2. UpJobs \cap {"MODE_STARTUP", "MODE_INACTIVE", "DL_READ_CNF"} = {}
    BY DEF UpJobs
  <2>3. ~Has(UpJobs)'
    BY <1>1, <2>1, <2>2, PostsKeep
  <2> QED BY <1>1, <2>1, <2>3 DEF NotYet
<1> QED BY <1>2, <1>3, <1>4, DlKinds

LEMMA ApplicationTypes ==
  ASSUME OneClient, TypeInv, Application
  PROVE  Posts({"SMI_RW", "SMI_CFG", "AL_ABORT"})
<1>1. \A r \in Reqs, k \in Kinds :
         /\ MkJob("SMI_RW", "ODE", r, k, "OK", "none") \in Job
         /\ MkJob("SMI_RW", "ODE", r, k, "OK", "none").type = "SMI_RW"
  BY OnRequestAssumption, MkJobType DEF JobTypes, Clients, Results, Tags, Ids, MkJob
<1>2. \A t \in {"SMI_CFG", "AL_ABORT"} : Signal(t) \in Job /\ Signal(t).type = t
  BY PlainSignal
<1>3. PICK j \in Job : Post(j) /\ j.type \in {"SMI_RW", "SMI_CFG", "AL_ABORT"}
  BY <1>1, <1>2
     DEF OneClient, Application, SMI_DeviceRW_req, SMI_PortConfiguration_req, AL_Abort
<1>4. Posts({j.type})
  BY <1>3, PostsOne
<1> QED BY <1>3, <1>4, PostsMore

LEMMA NextNotYet ==
  ASSUME OneClient, TypeInv, Control, Control', NotYet, Next,
         dlCall = "isdu" => ode = "ODblocked"
  PROVE  NotYet'
<1> SUFFICES ASSUME Starting' PROVE NotYet'
  BY DEF NotYet
<1>1. Starting /\ ode = "Inactive" /\ ~Has(UpJobs) /\ rwcmd # "ISDUTRANSPORT"
  BY StartingKept DEF NotYet
<1>2. \A type \in UpJobs : ~Take(type)
  BY <1>1, HeadHas
<1>3. CASE DlStep
  BY <1>1, <1>3, DlNotYet
<1>4. CASE PortAction
  <2>1. ~PortUps
    BY <1>2 DEF PortUps, SmModeOperate, CmOperate, UpJobs
  <2>2. Posts(PortDown) /\ UpJobs \cap PortDown = {}
    BY <1>4, <2>1, PortDownPosts DEF UpJobs, PortDown
  <2>3. ~Has(UpJobs)'
    BY <1>1, <2>2, PostsKeep
  <2>4. UNCHANGED ode /\ rwcmd' \in {rwcmd, "READ"}
    BY <1>4 DEF PortAction, CmCfgChange, SmSetPortConfig, SmModeStartup, SmReadCnf, SmModeOperate,
                SmModeComlost, SmModeInactive, CmOperate, CmComlost, PortStep, odeVars
  <2> QED BY <1>1, <2>3, <2>4 DEF NotYet
<1>5. CASE OdeAction \/ AlRequest \/ AlConfirm \/ DlRequest
  <2>1. UpJobs \cap ServiceJobs = {}
    BY DEF UpJobs, ServiceJobs, DlCnfTypes
  <2>2. ~Has(UpJobs)'
    BY <1>1, <1>5, <2>1, ServicePosts, PostsKeep
  <2>3. ~OdeStart
    BY <1>2 DEF OdeStart, UpJobs
  <2>4. ode' = "Inactive"
    BY <1>1, <1>5, <2>3
       DEF OdeAction, OdeReject, OdeAccept, OdeConfirm, OdeStop, DsConfirm, AlRequest, AlBusy,
           AlArgErr, AlParam, AlIsdu, AlConfirm, AlReadParamCnf, AlWriteParamCnf, AlIsduCnf,
           AlAbort, DlRequest, DlParamReq, DlIsduReq, odeVars
  <2>5. ~DlIsduReq
    BY <1>1 DEF DlIsduReq
  <2>6. rwcmd' # "ISDUTRANSPORT"
    BY <1>1, <1>5, <2>5
       DEF OdeAction, OdeReject, OdeAccept, OdeConfirm, OdeStart, OdeStop, DsConfirm, AlRequest,
           AlBusy, AlArgErr, AlParam, AlIsdu, AlConfirm, AlReadParamCnf, AlWriteParamCnf,
           AlIsduCnf, AlAbort, DlRequest, DlParamReq, dlVars
  <2> QED BY <2>2, <2>4, <2>6 DEF NotYet
<1>6. CASE Application
  <2>1. Posts({"SMI_RW", "SMI_CFG", "AL_ABORT"}) /\ UpJobs \cap {"SMI_RW", "SMI_CFG", "AL_ABORT"} = {}
    BY <1>6, ApplicationTypes DEF UpJobs
  <2>2. UNCHANGED <<ode, rwcmd>>
    BY <1>6 DEF Application, SMI_DeviceRW_req, SMI_PortConfiguration_req, AL_Abort, DsRead, odeVars,
                dlVars, OneClient
  <2>3. ~Has(UpJobs)'
    BY <1>1, <2>1, PostsKeep
  <2> QED BY <1>1, <2>2, <2>3 DEF NotYet
<1> QED BY <1>3, <1>4, <1>5, <1>6
       DEF Next, MainThread, PortAction, OdeAction, AlRequest, AlConfirm, DlRequest

-----------------------------------------------------------------------------
(* One service at a time: the ODE's request, its service in the AL and the *)
(* jobs between them are the same one.                                     *)

AlJobs == {"AL_REQ", "AL_CNF"}

Mine(j) == j.req = odeReq /\ j.kind = asked[odeReq]

OneService ==
    /\ ~Has({"AL_ABORT"})
    /\ Sole(AlJobs)
    /\ \A j \in Jobs : j.type \in AlJobs => ode = "ODblocked" /\ Mine(j)
    /\ \A j \in Jobs : j.type = "SMI_RW" => j.kind = asked[j.req]
    /\ alState # "OnReq_Idle" => ~Has(AlJobs) /\ ode = "ODblocked" /\ Mine(alSvc)
    /\ alState = "Await_DL_ISDU_cnf" => alSvc.kind \in IsduKinds
    /\ alState = "Await_DL_param_cnf" => alSvc.kind \notin IsduKinds
    /\ dlCall = "isdu" => alState = "Await_DL_ISDU_cnf"
    /\ dlCall = "param" => alState = "Await_DL_param_cnf"

(* What the requests of the application and the aborts need. *)
LEMMA AskedKept ==
  ASSUME TypeInv, OneService, UNCHANGED asked, NEW P, Posts(P),
         P \cap {"SMI_RW", "AL_ABORT"} = {}
  PROVE  /\ ~Has({"AL_ABORT"})'
         /\ \A j \in Jobs' : j.type = "SMI_RW" => j.kind = asked'[j.req]
<1>1. {"AL_ABORT"} \cap P = {}
  OBVIOUS
<1>2. ~Has({"AL_ABORT"})'
  BY <1>1, PostsKeep DEF OneService
<1>3. \A j \in Jobs' : j \in Jobs \/ j.type \in P
  BY PostsOld
<1> QED BY <1>2, <1>3 DEF OneService

LEMMA ServiceKept ==
  ASSUME TypeInv, OneService, UNCHANGED <<alState, alSvc, asked>>, dlCall' \in {dlCall, NoCall},
         UNCHANGED <<ode, odeReq>> \/ ode # "ODblocked",
         NEW P, Posts(P), P \cap (AlJobs \cup {"SMI_RW", "AL_ABORT"}) = {}
  PROVE  OneService'
<1>1. AlJobs \cap P = {} /\ P \cap {"SMI_RW", "AL_ABORT"} = {}
  OBVIOUS
<1>2. (Has(AlJobs)' => Has(AlJobs)) /\ Order(AlJobs, AlJobs)'
  BY <1>1, PostsKeep DEF OneService, Sole
<1>3. \A j \in Jobs' : j.type \in AlJobs => j \in Jobs
  BY <1>1, PostsOld
<1>4. /\ ~Has({"AL_ABORT"})'
      /\ \A j \in Jobs' : j.type = "SMI_RW" => j.kind = asked'[j.req]
  BY <1>1, AskedKept
<1>5. Sole(AlJobs)'
  BY <1>2 DEF Sole
<1>6. \A j \in Jobs' : j.type \in AlJobs => ode' = "ODblocked" /\ Mine(j)'
  BY <1>3 DEF OneService, Mine
<1>7. alState' # "OnReq_Idle" => ~Has(AlJobs)' /\ ode' = "ODblocked" /\ Mine(alSvc)'
  BY <1>2 DEF OneService, Mine
<1>8. dlCall' = "isdu" \/ dlCall' = "param" => dlCall' = dlCall
  BY DEF NoCall
<1> QED BY <1>4, <1>5, <1>6, <1>7, <1>8 DEF OneService

(* The AL takes a request, or the ODE a confirmation: nothing is left of   *)
(* the service in the mailbox.                                             *)
LEMMA TakeService ==
  ASSUME TypeInv, OneService, NEW type \in AlJobs, Take(type),
         NEW s \in Seq(Job), TakeAndPost(s), \A j \in Range(s) : j.type \notin AlJobs
  PROVE  /\ ~Has(AlJobs)' /\ Sole(AlJobs)'
         /\ Head(mbox) \in Jobs /\ Head(mbox).type = type
         /\ ode = "ODblocked" /\ Mine(Head(mbox))
         /\ alState = "OnReq_Idle"
<1>1. Has(AlJobs) /\ Head(mbox) \in Jobs /\ Head(mbox).type = type
  BY HeadHas
<1>2. Order(AlJobs, AlJobs)
  BY DEF OneService, Sole
<1>3. ~Has(AlJobs)'
  BY <1>2, TakeSole
<1>4. Sole(AlJobs)'
  <2>1. \A A : Order(A, A)' \/ Has(A)'
    <3>1. Range(mbox') = Jobs' /\ \A i \in 1 .. Len(mbox') : mbox'[i] \in Jobs'
      <4>1. mbox' \in Seq(Job)
        BY TakeJobs, TypeFacts DEF Take
      <4> QED BY <4>1, RangeEquality DEF Jobs
    <3> QED BY <3>1 DEF Order, NotAfter, Has
  <2> QED BY <1>3, <2>1 DEF Sole
<1> QED BY <1>1, <1>3, <1>4 DEF OneService

LEMMA OdeAcceptService ==
  ASSUME TypeInv, OneService, OdeAccept
  PROVE  OneService'
<1>1. /\ Take("SMI_RW") /\ ode = "ODactive" /\ odeReq' = Head(mbox).req
      /\ UNCHANGED <<alState, alSvc, asked, dlCall>>
  BY DEF OdeAccept, alVars, appVars
<1>2. Head(mbox) \in Jobs /\ Head(mbox) \in Job /\ Head(mbox).kind = asked[Head(mbox).req]
  BY <1>1, HeadJob DEF OneService
<1>3. CASE Head(mbox).kind = "Batch"
  <2>1. TakeAndPost(<<>>) /\ mbox # <<>> /\ ode # "ODblocked"
    BY <1>1, <1>3 DEF OdeAccept, Take
  <2>2. Posts({})
    BY <2>1, PostsNothing
  <2> QED BY <1>1, <2>1, <2>2, ServiceKept
<1>4. CASE Head(mbox).kind # "Batch"
  <2> DEFINE job == MkJob("AL_REQ", "ODE", Head(mbox).req, Head(mbox).kind, "OK", "none")
  <2>1. job.type = "AL_REQ" /\ job.req = Head(mbox).req /\ job.kind = Head(mbox).kind
    BY DEF MkJob
  <2>2. job \in Job
    <3>1. Head(mbox).req \in Ids \cup {NoReq} /\ Head(mbox).kind \in AllKinds
      BY <1>2 DEF Job
    <3> QED BY <3>1, MkJobType DEF JobTypes, Clients, Results, Tags
  <2>3. ode' = "ODblocked" /\ TakeAndPost(<<job>>)
    BY <1>4 DEF OdeAccept
  <2> HIDE DEF job
  <2>4. <<job>> \in Seq(Job) /\ Range(<<job>>) = {job} /\ Moves(<<job>>)
    BY <1>1, <2>2, <2>3, OneJob DEF Moves, Take
  <2>5. ~Has(AlJobs) /\ alState = "OnReq_Idle"
    BY <1>1 DEF OneService, Has
  <2>6. Sole(AlJobs)'
    <3>1. Order(AlJobs, AlJobs)'
      BY <2>4, <2>5, ShortOrder, MovesOrder DEF OneService, Sole
    <3> QED BY <3>1 DEF Sole
  <2>7. \A j \in Jobs' : j.type \in AlJobs => j = job
    BY <2>4, <2>5, MovesJobs DEF Has
  <2>8. Posts({"AL_REQ"})
    BY <1>1, <2>1, <2>2, <2>3, PostsOne DEF Take
  <2>9. /\ ~Has({"AL_ABORT"})'
        /\ \A j \in Jobs' : j.type = "SMI_RW" => j.kind = asked'[j.req]
    <3>1. {"AL_REQ"} \cap {"SMI_RW", "AL_ABORT"} = {}
      OBVIOUS
    <3> QED BY <1>1, <2>8, <3>1, AskedKept
  <2>10. \A j \in Jobs' : j.type \in AlJobs => ode' = "ODblocked" /\ Mine(j)'
    BY <1>1, <1>2, <2>1, <2>3, <2>7 DEF Mine
  <2> QED BY <1>1, <2>5, <2>6, <2>9, <2>10 DEF OneService
<1> QED BY <1>3, <1>4

LEMMA OdeConfirmService ==
  ASSUME TypeInv, OneService, OdeConfirm
  PROVE  OneService'
<1>1. Take("AL_CNF") /\ TakeAndPost(<<>>) /\ UNCHANGED <<alState, alSvc, asked, dlCall, odeReq>>
  BY DEF OdeConfirm, alVars, appVars
<1>2. <<>> \in Seq(Job) /\ Range(<<>>) = {} /\ "AL_CNF" \in AlJobs
  BY NoJobs DEF AlJobs
<1>3. ~Has(AlJobs)' /\ Sole(AlJobs)' /\ alState = "OnReq_Idle"
  BY <1>1, <1>2, TakeService
<1>4. Posts({})
  BY <1>1, PostsNothing DEF Take
<1>5. /\ ~Has({"AL_ABORT"})'
      /\ \A j \in Jobs' : j.type = "SMI_RW" => j.kind = asked'[j.req]
  BY <1>1, <1>4, AskedKept
<1> QED BY <1>1, <1>3, <1>5 DEF OneService, Has

LEMMA StoppedInactive ==
  ASSUME TypeInv, Control, NotYet, Take("OD_STOP")
  PROVE  ode = "Inactive"
<1>1. Has({"SM_CFG"})
  BY HeadHas DEF Control, ConfigInv, StopJob
<1> QED BY <1>1 DEF Has, CfgJobs, Unconfigured, Starting, NotYet

LEMMA OdeService ==
  ASSUME TypeInv, Control, NotYet, OneService, OdeAction
  PROVE  OneService'
<1>1. CASE OdeReject \/ OdeStart \/ OdeStop \/ DsConfirm
  <2>1. UNCHANGED <<alState, alSvc, asked, dlCall, odeReq>> /\ mbox # <<>> /\ TakeAndPost(<<>>)
    BY <1>1 DEF OdeReject, OdeStart, OdeStop, DsConfirm, alVars, appVars, odeVars, Take
  <2>2. UNCHANGED <<ode, odeReq>> \/ ode # "ODblocked"
    BY <1>1, StoppedInactive DEF OdeReject, OdeStart, OdeStop, DsConfirm, odeVars
  <2>3. Posts({})
    BY <2>1, PostsNothing
  <2> QED BY <2>1, <2>2, <2>3, ServiceKept
<1> QED BY <1>1, OdeAcceptService, OdeConfirmService DEF OdeAction

LEMMA AlRequestService ==
  ASSUME TypeInv, OneService, AlRequest
  PROVE  OneService' /\ alState = "OnReq_Idle" /\ Mine(Head(mbox))
<1>1. /\ Take("AL_REQ") /\ "AL_REQ" \in AlJobs
      /\ UNCHANGED <<asked, ode, odeReq>>
  BY DEF AlRequest, AlBusy, AlArgErr, AlParam, AlIsdu, appVars, odeVars, AlJobs
<1>2. Has(AlJobs) /\ Head(mbox) \in Jobs /\ Head(mbox) \in Job
  BY <1>1, HeadHas, HeadJob
<1>3. alState = "OnReq_Idle" /\ ode = "ODblocked" /\ Mine(Head(mbox))
  BY <1>1, <1>2 DEF OneService, Take
<1>4. /\ ServiceOf(Head(mbox)) \in Service
      /\ ServiceOf(Head(mbox)).req = Head(mbox).req
      /\ ServiceOf(Head(mbox)).kind = Head(mbox).kind
  BY <1>1, HeadService
<1>5. Posts({"AL_CNF", "ISDU_CNF"})
  BY AlPosts
<1>6. /\ ~Has({"AL_ABORT"})'
      /\ \A j \in Jobs' : j.type = "SMI_RW" => j.kind = asked'[j.req]
  <2>1. {"AL_CNF", "ISDU_CNF"} \cap {"SMI_RW", "AL_ABORT"} = {}
    OBVIOUS
  <2> QED BY <1>1, <1>5, <2>1, AskedKept
<1>7. CASE AlArgErr
  <2> DEFINE cnf == AlCnf(ServiceOf(Head(mbox)), "ERR", "none")
  <2>1. cnf \in Job /\ cnf.type = "AL_CNF"
    BY <1>4, AlCnfJob DEF Results, Tags
  <2>2. cnf.req = Head(mbox).req /\ cnf.kind = Head(mbox).kind
    BY <1>4 DEF AlCnf, MkJob
  <2>3. TakeAndPost(<<cnf>>) /\ UNCHANGED <<alState, dlCall>>
    BY <1>7 DEF AlArgErr
  <2> HIDE DEF cnf
  <2>4. <<cnf>> \in Seq(Job) /\ Range(<<cnf>>) = {cnf} /\ Moves(<<cnf>>)
    BY <1>1, <2>1, <2>3, OneJob DEF Moves, Take
  <2>5. Sole(AlJobs)'
    <3>1. Order(AlJobs, AlJobs) /\ NotAfter(<<cnf>>, AlJobs, AlJobs)
      BY ShortOrder DEF OneService, Sole
    <3>2. Order(AlJobs, AlJobs)'
      BY <1>1, <2>3, <2>4, <3>1, TakeSole
    <3> QED BY <3>2 DEF Sole
  <2>6. \A j \in Jobs' : j \in Jobs \/ j = cnf
    BY <2>4, MovesJobs
  <2>7. \A j \in Jobs' : j.type \in AlJobs => ode' = "ODblocked" /\ Mine(j)'
    BY <1>1, <1>3, <2>2, <2>6 DEF OneService, Mine
  <2>8. OneService'
    BY <1>3, <1>6, <2>3, <2>5, <2>7 DEF OneService, Take
  <2> QED BY <1>3, <2>8
<1>8. CASE AlParam \/ AlIsdu
  <2>1. PICK s \in Seq(Job) : TakeAndPost(s) /\ \A j \in Range(s) : j.type \notin AlJobs
    <3>1. /\ DlCnf("ISDU_CNF", "ERR", "none") \in Job
          /\ DlCnf("ISDU_CNF", "ERR", "none").type = "ISDU_CNF"
      BY CnfJob DEF DlCnfTypes, Results, Tags
    <3>2. TakeAndPost(<<>>) \/ TakeAndPost(<<DlCnf("ISDU_CNF", "ERR", "none")>>)
      BY <1>8 DEF AlParam, AlIsdu
    <3>3. "ISDU_CNF" \notin AlJobs
      BY DEF AlJobs
    <3> QED BY <3>1, <3>2, <3>3, NoJobs, OneJob
  <2>2. ~Has(AlJobs)' /\ Sole(AlJobs)'
    BY <1>1, <2>1, TakeService
  <2>3. alSvc' = ServiceOf(Head(mbox)) /\ Mine(alSvc)'
    BY <1>1, <1>3, <1>4, <1>8 DEF AlParam, AlIsdu, AlBuild, Mine
  <2>4. \A j \in Jobs' : j.type \notin AlJobs
    BY <2>2 DEF Has
  <2>5. CASE AlParam
    <3>1. /\ alState' = "Await_DL_param_cnf" /\ dlCall' = "param"
          /\ Head(mbox).kind \in {"ReadParam", "WriteParam"}
      BY <2>5 DEF AlParam
    <3>2. alSvc'.kind \notin IsduKinds
      BY <1>4, <2>3, <3>1 DEF IsduKinds
    <3> QED BY <1>1, <1>3, <1>6, <2>2, <2>3, <2>4, <3>1, <3>2 DEF OneService
  <2>6. CASE AlIsdu
    <3>1. /\ alState' = "Await_DL_ISDU_cnf" /\ dlCall' \in {"isdu", NoCall}
          /\ Head(mbox).kind \in {"ReadIsdu", "WriteIsdu"}
      BY <2>6 DEF AlIsdu, Take
    <3>2. alSvc'.kind \in IsduKinds
      BY <1>4, <2>3, <3>1 DEF IsduKinds
    <3> QED BY <1>1, <1>3, <1>6, <2>2, <2>3, <2>4, <3>1, <3>2 DEF OneService, NoCall
  <2> QED BY <1>3, <1>8, <2>5, <2>6
<1>9. ~AlBusy
  BY <1>3 DEF AlBusy
<1> QED BY <1>7, <1>8, <1>9 DEF AlRequest

(* The service in progress is confirmed. *)
LEMMA ConfirmService ==
  ASSUME TypeInv, OneService, alState # "OnReq_Idle", NEW type, Take(type), type \notin AlJobs,
         NEW res \in Results, NEW val \in Tags \cup Pointers, Confirm(res, val),
         UNCHANGED <<asked, ode, odeReq, dlCall>>
  PROVE  /\ OneService' /\ alState' = "OnReq_Idle"
         /\ \A j \in Jobs' : j.type \in AlJobs => j = AlCnf(alSvc, res, val)
<1> DEFINE cnf == AlCnf(alSvc, res, val)
<1>1. cnf \in Job /\ cnf.type = "AL_CNF"
  BY TypeFacts, AlCnfJob
<1>2. cnf.req = alSvc.req /\ cnf.kind = alSvc.kind
  BY DEF AlCnf, MkJob
<1>3. TakeAndPost(<<cnf>>) /\ alState' = "OnReq_Idle" /\ UNCHANGED alSvc
  BY DEF Confirm
<1>4. ~Has(AlJobs) /\ ode = "ODblocked" /\ Mine(alSvc)
  BY DEF OneService
<1> HIDE DEF cnf
<1>5. <<cnf>> \in Seq(Job) /\ Range(<<cnf>>) = {cnf} /\ Moves(<<cnf>>)
  BY <1>1, <1>3, OneJob DEF Moves, Take
<1>6. Sole(AlJobs)'
  <2>1. Order(AlJobs, AlJobs)'
    BY <1>4, <1>5, ShortOrder, MovesOrder DEF OneService, Sole
  <2> QED BY <2>1 DEF Sole
<1>7. \A j \in Jobs' : j.type \in AlJobs => j = cnf
  BY <1>4, <1>5, MovesJobs DEF Has
<1>8. \A j \in Jobs' : j.type \in AlJobs => ode' = "ODblocked" /\ Mine(j)'
  BY <1>2, <1>4, <1>7 DEF Mine
<1>9. /\ ~Has({"AL_ABORT"})'
      /\ \A j \in Jobs' : j.type = "SMI_RW" => j.kind = asked'[j.req]
  <2>1. Posts({"AL_CNF"})
    BY <1>1, <1>3, PostsOne DEF Take
  <2>2. {"AL_CNF"} \cap {"SMI_RW", "AL_ABORT"} = {}
    OBVIOUS
  <2> QED BY <2>1, <2>2, AskedKept
<1>10. OneService'
  BY <1>3, <1>6, <1>8, <1>9 DEF OneService, Take, NoCall
<1> QED BY <1>3, <1>7, <1>10 DEF cnf

(* What the AL does with a confirmation of the DL. *)
LEMMA AlConfirmSteps ==
  ASSUME TypeInv, OneService, AlConfirm
  PROVE  /\ UNCHANGED <<asked, ode, odeReq, ans, dlCall, dlVars>>
         /\ \/ /\ \E type \in DlCnfTypes : Take(type)
               /\ TakeAndPost(<<>>) /\ UNCHANGED <<alState, alSvc>>
               /\ alLen # "none" => UNCHANGED alData /\ alLen' # "none"
               /\ Take("ISDU_CNF") => alState # "Await_DL_ISDU_cnf"
            \/ /\ \E type \in ParamCnfs : Take(type)
               /\ alState = "Await_DL_param_cnf"
               /\ \E res \in Results, val \in Tags \cup Pointers : Confirm(res, val)
            \/ /\ Take("ISDU_CNF") /\ alState = "Await_DL_ISDU_cnf" /\ UNCHANGED <<alData, alLen>>
               /\ Confirm(Head(mbox).res, IF alSvc.kind \in ReadKinds THEN ReadData(alLen) ELSE "none")
<1>1. ~AlAbort
  BY HeadHas DEF AlAbort, OneService
<1>2. PICK type \in DlCnfTypes : Take(type)
  BY <1>1 DEF AlConfirm, AlReadParamCnf, AlWriteParamCnf, AlIsduCnf, DlCnfTypes
<1>3. Head(mbox).res \in Results /\ {"OK", "ERR"} \subseteq Results
      /\ {"none", "wild"} \subseteq Tags \cup Pointers
  BY <1>2, HeadJob DEF Job, Results, Tags
<1>4. UNCHANGED <<asked, ode, odeReq, ans, dlCall, dlVars>>
  BY <1>1 DEF AlConfirm, AlReadParamCnf, AlWriteParamCnf, AlIsduCnf, appVars, odeVars
<1>5. CASE AlReadParamCnf
  <2>1. CASE alState = "Await_DL_param_cnf"
    <3>1. \E res \in Results, val \in Tags \cup Pointers : Confirm(res, val)
      <4>1. ReadData(alLen') \in Tags \cup Pointers
        BY <1>5 DEF AlReadParamCnf, ReadData, Pointers
      <4> QED BY <1>3, <1>5, <2>1, <4>1 DEF AlReadParamCnf
    <3> QED BY <1>4, <1>5, <2>1, <3>1 DEF AlReadParamCnf, ParamCnfs
  <2>2. CASE alState # "Await_DL_param_cnf"
    <3>1. alLen # "none" => UNCHANGED alData /\ alLen' # "none"
      BY <1>5 DEF AlReadParamCnf
    <3> QED BY <1>2, <1>4, <1>5, <2>2, <3>1 DEF AlReadParamCnf, Take
  <2> QED BY <2>1, <2>2
<1>6. CASE AlWriteParamCnf
  <2>1. CASE alState = "Await_DL_param_cnf"
    BY <1>3, <1>4, <1>6, <2>1 DEF AlWriteParamCnf, ParamCnfs
  <2>2. CASE alState # "Await_DL_param_cnf"
    BY <1>2, <1>4, <1>6, <2>2 DEF AlWriteParamCnf, Take
  <2> QED BY <2>1, <2>2
<1>7. CASE AlIsduCnf
  <2>1. CASE alState = "Await_DL_ISDU_cnf"
    BY <1>4, <1>7, <2>1 DEF AlIsduCnf
  <2>2. CASE alState # "Await_DL_ISDU_cnf"
    BY <1>2, <1>4, <1>7, <2>2 DEF AlIsduCnf
  <2> QED BY <2>1, <2>2
<1> QED BY <1>1, <1>5, <1>6, <1>7 DEF AlConfirm

LEMMA AlConfirmService ==
  ASSUME TypeInv, OneService, AlConfirm
  PROVE  OneService'
<1>1. UNCHANGED <<asked, ode, odeReq, dlCall>>
  BY AlConfirmSteps
<1>2. CASE /\ \E type \in DlCnfTypes : Take(type)
           /\ TakeAndPost(<<>>) /\ UNCHANGED <<alState, alSvc>>
  <2>1. Posts({})
    BY <1>2, PostsNothing DEF Take
  <2> QED BY <1>1, <1>2, <2>1, ServiceKept
<1>3. ASSUME NEW type \in DlCnfTypes, Take(type), alState # "OnReq_Idle",
             NEW res \in Results, NEW val \in Tags \cup Pointers, Confirm(res, val)
      PROVE  OneService'
  <2>1. type \notin AlJobs
    BY DEF DlCnfTypes, AlJobs
  <2> QED BY <1>1, <1>3, <2>1, ConfirmService
<1>4. CASE /\ Take("ISDU_CNF") /\ alState = "Await_DL_ISDU_cnf"
           /\ Confirm(Head(mbox).res, IF alSvc.kind \in ReadKinds THEN ReadData(alLen) ELSE "none")
  <2>1. Head(mbox).res \in Results
    BY <1>4, HeadJob DEF Job
  <2>2. (IF alSvc.kind \in ReadKinds THEN ReadData(alLen) ELSE "none") \in Tags \cup Pointers
    <3>1. alLen \in Lengths
      BY DEF TypeInv, TypeOK, JobsTypeOK
    <3> QED BY <3>1 DEF ReadData, Lengths, Tags, Pointers
  <2>3. "ISDU_CNF" \in DlCnfTypes /\ alState # "OnReq_Idle"
    BY <1>4 DEF DlCnfTypes
  <2> QED BY <1>3, <1>4, <2>1, <2>2, <2>3
<1>5. CASE /\ \E type \in ParamCnfs : Take(type)
           /\ alState = "Await_DL_param_cnf"
           /\ \E res \in Results, val \in Tags \cup Pointers : Confirm(res, val)
  <2>1. ParamCnfs \subseteq DlCnfTypes /\ alState # "OnReq_Idle"
    BY <1>5 DEF DlCnfTypes, ParamCnfs
  <2> QED BY <1>3, <1>5, <2>1
<1> QED BY <1>2, <1>4, <1>5, AlConfirmSteps

LEMMA ApplicationService ==
  ASSUME OneClient, TypeInv, OneService, Application
  PROVE  OneService'
<1>1. UNCHANGED <<alState, alSvc, alData, alLen, dlCall, ode, odeReq>>
  BY DEF Application, SMI_DeviceRW_req, SMI_PortConfiguration_req, AL_Abort, DsRead, alVars, odeVars,
         OneClient
<1>2. ASSUME NEW r \in Reqs, NEW k \in Kinds, SMI_DeviceRW_req(r, k) PROVE OneService'
  <2> DEFINE job == MkJob("SMI_RW", "ODE", r, k, "OK", "none")
  <2>1. job \in Job /\ job.type = "SMI_RW" /\ job.req = r /\ job.kind = k
    BY OnRequestAssumption, MkJobType DEF JobTypes, Clients, Results, Tags, Ids, MkJob
  <2>2. Post(job) /\ asked[r] = "none" /\ asked' = [asked EXCEPT ![r] = k]
    BY <1>2 DEF SMI_DeviceRW_req
  <2> HIDE DEF job
  <2>3. Jobs' = Jobs \cup {job}
    BY <2>1, <2>2, PostOne, TypeFacts
  <2>4. r \in Ids /\ asked' \in [Ids -> AllKinds \cup {"none"}] /\ asked'[r] = k
        /\ \A q \in Ids : asked[q] # "none" => asked'[q] = asked[q]
    <3>1. asked \in [Ids -> AllKinds \cup {"none"}] /\ r \in Ids /\ k \in AllKinds
      BY OnRequestAssumption DEF TypeInv, TypeOK, OdTypeOK, Ids
    <3> QED BY <2>2, <3>1
  <2>5. "none" \notin AllKinds /\ \A j \in Jobs : j.kind \in AllKinds
    <3>1. Jobs \subseteq Job
      BY RangeOfSeq, TypeFacts DEF Jobs
    <3> QED BY <3>1 DEF Job, AllKinds, ReadKinds, WriteKinds
  <2>6. alSvc.kind \in AllKinds
    BY TypeFacts DEF Service
  <2>7. Posts({"SMI_RW"})
    BY <2>1, <2>2, PostsOne
  <2>8. (Has(AlJobs)' => Has(AlJobs)) /\ Order(AlJobs, AlJobs)' /\ ~Has({"AL_ABORT"})'
    <3>1. AlJobs \cap {"SMI_RW"} = {} /\ {"AL_ABORT"} \cap {"SMI_RW"} = {}
      BY DEF AlJobs
    <3> QED BY <2>7, <3>1, PostsKeep DEF OneService, Sole
  <2>9. ode = "ODblocked" => odeReq \in Ids
    BY DEF TypeInv, JobsWellFormed, Ids
  <2>10. \A j \in Jobs' : j.type \in AlJobs => ode' = "ODblocked" /\ Mine(j)'
    <3> SUFFICES ASSUME NEW j \in Jobs', j.type \in AlJobs PROVE ode' = "ODblocked" /\ Mine(j)'
      OBVIOUS
    <3>1. j \in Jobs /\ ode = "ODblocked" /\ Mine(j)
      BY <2>1, <2>3 DEF OneService, AlJobs
    <3> QED BY <1>1, <2>4, <2>5, <2>9, <3>1 DEF Mine
  <2>11. \A j \in Jobs' : j.type = "SMI_RW" => j.kind = asked'[j.req]
    <3> SUFFICES ASSUME NEW j \in Jobs', j.type = "SMI_RW" PROVE j.kind = asked'[j.req]
      OBVIOUS
    <3>1. CASE j = job
      BY <2>1, <2>4, <3>1
    <3>2. CASE j \in Jobs
      <4>1. j.req \in Ids
        BY <3>2 DEF TypeInv, JobsWellFormed, WellFormed, Ids
      <4>2. j.kind = asked[j.req] /\ j.kind # "none"
        BY <2>5, <3>2 DEF OneService
      <4> QED BY <2>4, <4>1, <4>2
    <3> QED BY <2>3, <3>1, <3>2
  <2>12. alState' # "OnReq_Idle" => ~Has(AlJobs)' /\ ode' = "ODblocked" /\ Mine(alSvc)'
    <3> SUFFICES ASSUME alState # "OnReq_Idle"
                 PROVE  ~Has(AlJobs)' /\ ode' = "ODblocked" /\ Mine(alSvc)'
      BY <1>1
    <3>1. ~Has(AlJobs) /\ ode = "ODblocked" /\ Mine(alSvc)
      BY DEF OneService
    <3> QED BY <1>1, <2>4, <2>5, <2>6, <2>8, <2>9, <3>1 DEF Mine
  <2>13. Sole(AlJobs)'
    BY <2>8 DEF Sole
  <2> QED BY <1>1, <2>8, <2>10, <2>11, <2>12, <2>13 DEF OneService
<1>3. CASE SMI_PortConfiguration_req
  <2>1. Signal("SMI_CFG") \in Job /\ Signal("SMI_CFG").type = "SMI_CFG"
    BY PlainSignal
  <2>2. Posts({"SMI_CFG"}) /\ UNCHANGED asked
    BY <1>3, <2>1, PostsOne DEF SMI_PortConfiguration_req
  <2>3. {"SMI_CFG"} \cap (AlJobs \cup {"SMI_RW", "AL_ABORT"}) = {}
    BY DEF AlJobs
  <2> QED BY <1>1, <2>2, <2>3, ServiceKept
<1>4. CASE AL_Abort \/ \E r \in DsReqs : DsRead(r)
  BY <1>4 DEF OneClient, AL_Abort, TypeInv, TypeOK, OdTypeOK
<1> QED BY <1>2, <1>3, <1>4 DEF Application

LEMMA NextService ==
  ASSUME OneClient, TypeInv, Control, NotYet, OneService, Next
  PROVE  OneService'
<1>1. CASE DlRequest
  <2>1. Posts(ParamCnfs) /\ ParamCnfs \cap (AlJobs \cup {"SMI_RW", "AL_ABORT"}) = {}
    BY <1>1, DlRequestPosts DEF ParamCnfs, AlJobs
  <2>2. UNCHANGED <<alState, alSvc, asked, ode, odeReq>> /\ dlCall' \in {dlCall, NoCall}
    BY <1>1 DEF DlRequest, DlParamReq, DlIsduReq, alVars, odeVars, appVars
  <2> QED BY <2>1, <2>2, ServiceKept
<1>2. CASE PortAction
  <2>1. Posts(PortTypes) /\ PortTypes \cap (AlJobs \cup {"SMI_RW", "AL_ABORT"}) = {}
    BY <1>2, PortTypesPosted DEF PortTypes, PortDown, PortSignals, AlJobs
  <2>2. UNCHANGED <<alState, alSvc, asked, ode, odeReq, dlCall>>
    BY <1>2 DEF PortAction, CmCfgChange, SmSetPortConfig, SmModeStartup, SmReadCnf, SmModeOperate,
                SmModeComlost, SmModeInactive, CmOperate, CmComlost, PortStep, alVars, odeVars,
                appVars
  <2> QED BY <2>1, <2>2, ServiceKept
<1>3. CASE DlStep
  <2>1. Posts(DlTypes) /\ DlTypes \cap (AlJobs \cup {"SMI_RW", "AL_ABORT"}) = {}
    BY <1>3, DlTypesPosted DEF DlTypes, AlJobs
  <2>2. UNCHANGED <<alState, alSvc, asked, ode, odeReq, dlCall>>
    BY <1>3, DlStepType DEF DlStep, odeVars, appVars
  <2> QED BY <2>1, <2>2, ServiceKept
<1> QED BY <1>1, <1>2, <1>3, OdeService, AlRequestService, AlConfirmService, ApplicationService
       DEF Next, MainThread, PortAction, OdeAction, AlRequest, AlConfirm, DlRequest

-----------------------------------------------------------------------------
(* One confirmation: a transfer that the DL holds, and the confirmation    *)
(* that ends it, belong to the service the AL awaits.                      *)

OneConfirmation ==
    /\ Sole(IsduCnf)
    /\ Has(IsduCnf) => alState = "Await_DL_ISDU_cnf" /\ dlCall = NoCall
    /\ Held => /\ alState = "Await_DL_ISDU_cnf" /\ dlCall = NoCall
               /\ isduReq = alSvc.req
               /\ ~Has(IsduCnf)

LEMMA ConfirmationKept ==
  ASSUME TypeInv, OneConfirmation, Held' => Held, NEW P, Posts(P), "ISDU_CNF" \notin P,
         \/ UNCHANGED <<alState, alSvc, dlCall, isduReq>>
         \/ alState # "Await_DL_ISDU_cnf"
  PROVE  OneConfirmation'
<1>1. IsduCnf \cap P = {}
  BY DEF IsduCnf
<1>2. (Has(IsduCnf)' => Has(IsduCnf)) /\ Order(IsduCnf, IsduCnf)'
  BY <1>1, PostsKeep DEF OneConfirmation, Sole
<1>3. Sole(IsduCnf)'
  BY <1>2 DEF Sole
<1> QED BY <1>2, <1>3 DEF OneConfirmation

(* A confirmation is posted where there was none and no transfer is left.  *)
LEMMA ConfirmationPosted ==
  ASSUME TypeInv, ~Has(IsduCnf), Sole(IsduCnf), ~Held',
         alState' = "Await_DL_ISDU_cnf", dlCall' = NoCall,
         NEW s \in Seq(Job), Moves(s), NotAfter(s, IsduCnf, IsduCnf)
  PROVE  OneConfirmation'
<1>1. Order(IsduCnf, IsduCnf)'
  BY MovesOrder DEF Sole
<1> QED BY <1>1 DEF OneConfirmation, Sole

(* While a confirmed transfer is to be cleared nothing is loaded.          *)
Window ==
    dlPc \in CycleClears /\ isdu # "IDLE_1" =>
        /\ totSeg = 0 \/ (dlPc = "clearReply" /\ isdu \in {"ISDUWAIT_3", "ISDURESPONSE_5"})
        /\ dlCall # "isdu"

LEMMA MasterConfirms ==
  ASSUME OdMaster, mbox' # mbox
  PROVE  totSeg' = 0
  BY DEF OdMaster, IsduMaster, IsduMasterIdle, IsduError4, NextMessage

LEMMA OdWindow ==
  ASSUME TypeInv, Control, OneConfirmation, OdActions, UNCHANGED dlCall
  PROVE  Window'
<1> SUFFICES ASSUME dlPc' \in CycleClears, isdu' # "IDLE_1" PROVE Window'
  BY DEF Window
<1>1. mbox' # mbox /\ IsduStep /\ (IsduConfirms => Held)
  <2>1. mbox' # mbox
    BY DEF OdActions, DlReply, DlNextMessage, DlSendWriteParam, DlReply9, DlGetOd7,
           DlFirstMessage, ClearFirst, CycleClears, Clears
  <2> QED BY <2>1, OdActionsStep
<1>2. IsduConfirms /\ Held
  BY <1>1 DEF IsduStep, IsduGoesOn
<1>3. dlCall' # "isdu"
  BY <1>2 DEF OneConfirmation, NoCall
<1>4. CASE DlReply \/ DlReply9
  <2>1. dlPc' = "clearReply"
    BY <1>4 DEF DlReply, DlReply9, ClearFirst, CycleClears, Clears
  <2> QED BY <1>2, <1>3, <2>1, DlAssumption DEF IsduConfirms, Window
<1>5. CASE ~(DlReply \/ DlReply9)
  BY <1>1, <1>3, <1>5, MasterConfirms
     DEF OdActions, DlNextMessage, DlSendWriteParam, DlGetOd7, DlFirstMessage, Window
<1> QED BY <1>4, <1>5

LEMMA NextWindow ==
  ASSUME TypeInv, Control, OneConfirmation, Window, Next
  PROVE  Window'
<1>1. CASE OdActions /\ UNCHANGED dlCall
  BY <1>1, OdWindow
<1>2. CASE DlClear \/ RxFailures \/ IsduTimer \/ DlModeHandler \/ StartupAction
  <2>1. CASE DlClear \/ RxFailures \/ IsduTimer
    <3>1. dlPc' \notin CycleClears
      BY <2>1 DEF DlClear, RxFailures, DlRxError16, DlRxError9, DlComLost, DlErrorHandling10,
                  InCycle, IsduTimer, CycleClears, Clears
    <3> QED BY <3>1 DEF Window
  <2>2. CASE DlModeHandler
    <3>1. dlPc' \notin CycleClears
      <4>1. CASE ModeConfirm \/ ModeLeave
        <5>1. dlMode \in {"INACTIVE", "STARTUP", "OPERATE"}
          BY DEF TypeInv, TypeOK, DlTypeOK, DlModes
        <5> QED BY <4>1, <5>1 DEF ModeConfirm, ModeLeave, Leave, CycleClears, Clears
      <4>2. CASE ~(ModeConfirm \/ ModeLeave)
        <5>1. dlPc = "wait" /\ dlPc' = dlPc
          BY <2>2, <4>2 DEF DlModeHandler, ModeIdle, ModeEstCom, ModeStartup, ModeOperate, ModeStep
        <5> QED BY <5>1 DEF CycleClears, Clears
      <4> QED BY <4>1, <4>2
    <3> QED BY <3>1 DEF Window
  <2>3. CASE StartupAction
    <3>1. dlPc' \notin CycleClears
      BY <2>3 DEF StartupAction, DlWurq, DlStartupReply, CycleClears, Clears
    <3> QED BY <3>1 DEF Window
  <2> QED BY <1>2, <2>1, <2>2, <2>3
<1>3. CASE UNCHANGED <<dlPc, isdu, totSeg>> /\ (dlCall' = "isdu" => dlCall = "isdu" \/ isdu = "IDLE_1")
  BY <1>3 DEF Window
<1>4. CASE DlIsduReq
  BY <1>4 DEF DlIsduReq, Window, NoCall
<1>5. CASE PortAction \/ Application
  BY <1>3, <1>5
     DEF PortAction, CmCfgChange, SmSetPortConfig, SmModeStartup, SmReadCnf, SmModeOperate,
         SmModeComlost, SmModeInactive, CmOperate, CmComlost, PortStep, isduVars,
         Application, SMI_DeviceRW_req, SMI_PortConfiguration_req, AL_Abort, DsRead, dlVars
<1>6. CASE OdeAction \/ AlRequest \/ AlConfirm \/ DlParamReq
  BY <1>3, <1>6
     DEF OdeAction, OdeReject, OdeAccept, OdeConfirm, OdeStart, OdeStop, DsConfirm, AlRequest,
         AlBusy, AlArgErr, AlParam, AlIsdu, AlConfirm, AlReadParamCnf, AlWriteParamCnf, AlIsduCnf,
         AlAbort, DlParamReq, dlVars, isduVars, NoCall
<1> QED BY <1>1, <1>2, <1>4, <1>5, <1>6, DlKinds
       DEF Next, MainThread, PortAction, OdeAction, AlRequest, AlConfirm, CycleStep

LEMMA CycleConfirmation ==
  ASSUME TypeInv, Control, OneConfirmation, Window, CycleStep, UNCHANGED dlCall
  PROVE  OneConfirmation'
<1>1. /\ UNCHANGED <<alState, alSvc>>
      /\ \/ IsduStep /\ (IsduGoesOn => (Held' => Held)) /\ (IsduConfirms => Held /\ ~Held')
         \/ NotRun /\ (Held' => Held)
         \/ DlClear
  BY CycleSteps
<1>2. CASE IsduConfirms /\ Held /\ ~Held'
  <2>1. PICK j \in Job : Post(j) /\ j.type = "ISDU_CNF"
    BY <1>2 DEF IsduConfirms
  <2>2. <<j>> \in Seq(Job) /\ Moves(<<j>>) /\ NotAfter(<<j>>, IsduCnf, IsduCnf)
    BY <2>1, PostOne, OneJob, TypeFacts, ShortOrder DEF Moves
  <2>3. Held /\ ~Held'
    BY <1>2
  <2>4. ~Has(IsduCnf) /\ Sole(IsduCnf) /\ alState = "Await_DL_ISDU_cnf" /\ dlCall = NoCall
    BY <2>3 DEF OneConfirmation
  <2> QED BY <1>1, <2>2, <2>3, <2>4, ConfirmationPosted
<1>3. CASE (IsduGoesOn \/ NotRun) /\ (Held' => Held)
  <2>1. Posts(ParamCnfs)
    <3>1. UNCHANGED mbox \/ \E j \in Job : Post(j) /\ j.type \in ParamCnfs
      BY <1>3 DEF IsduGoesOn, NotRun
    <3>2. CASE UNCHANGED mbox
      BY <3>2, PostsNothing, PostsMore
    <3>3. ASSUME NEW j \in Job, Post(j), j.type \in ParamCnfs PROVE Posts(ParamCnfs)
      <4>1. Posts({j.type})
        BY <3>3, PostsOne
      <4> QED BY <3>3, <4>1, PostsMore
    <3> QED BY <3>1, <3>2, <3>3
  <2>2. UNCHANGED isduReq /\ (Held' => Held)
    BY <1>3 DEF IsduGoesOn, NotRun
  <2>3. "ISDU_CNF" \notin ParamCnfs
    BY DEF ParamCnfs
  <2> QED BY <1>1, <2>1, <2>2, <2>3, ConfirmationKept
<1>4. CASE DlClear
  <2>1. Posts({}) /\ UNCHANGED isduReq
    BY <1>4, PostsNothing DEF DlClear
  <2>2. Held' => Held
    <3>1. CASE isdu = "IDLE_1"
      BY <1>4, <3>1 DEF DlClear, Held, Carries, Confirmed, CycleClears, Clears, Leaves
    <3>2. CASE isdu # "IDLE_1"
      BY <1>4, <3>2 DEF DlClear, Held, Carries, Window, CycleClears
    <3> QED BY <3>1, <3>2
  <2> QED BY <1>1, <2>1, <2>2, ConfirmationKept
<1> QED BY <1>1, <1>2, <1>3, <1>4 DEF IsduStep

LEMMA ModeHandlerConfirmation ==
  ASSUME TypeInv, Control, NotYet, OneConfirmation, DlModeHandler, UNCHANGED dlCall
  PROVE  OneConfirmation'
<1>1. UNCHANGED <<alState, alSvc, rwcmd, isduReq>>
  BY ModeHandlerSteps DEF GivesUp, Operates, Looks, ConfirmsLost
<1>2. ASSUME NEW type \in {"MODE_COMLOST", "MODE_INACTIVE"}, GivesUp(type)
      PROVE  OneConfirmation'
  <2>1. PICK s \in Seq(Job) :
        /\ Moves(s)
        /\ \A j \in Range(s) : j.type = type \/ (j.type = "ISDU_CNF" /\ j.res = "ERR" /\ Held)
        /\ NotAfter(s, IsduCnf, IsduCnf)
    BY <1>2 DEF GivesUp, ModeReport
  <2>2. ~Held'
    BY <1>2 DEF GivesUp, Held, Carries
  <2>3. CASE Held
    <3>1. ~Has(IsduCnf) /\ Sole(IsduCnf) /\ alState = "Await_DL_ISDU_cnf" /\ dlCall = NoCall
      BY <2>3 DEF OneConfirmation
    <3> QED BY <1>1, <2>1, <2>2, <3>1, ConfirmationPosted
  <2>4. CASE ~Held
    <3>1. Posts({type}) /\ "ISDU_CNF" \notin {type}
      BY <2>1, <2>4 DEF Posts
    <3> QED BY <1>1, <2>2, <3>1, ConfirmationKept
  <2> QED BY <2>3, <2>4
<1>3. CASE Operates
  <2>1. Signal("MODE_OPERATE") \in Job /\ Signal("MODE_OPERATE").type = "MODE_OPERATE"
    BY SignalIsDlJob DEF DlJob, Signal, MkJob
  <2>2. Posts({"MODE_OPERATE"})
    BY <1>3, <2>1, PostsOne DEF Operates
  <2>3. rwcmd # "ISDUTRANSPORT"
    BY <1>3 DEF Operates, Starting, NotYet
  <2>4. ~Held'
    BY <1>1, <1>3, <2>3 DEF Operates, Held, Carries
  <2> QED BY <1>1, <2>2, <2>4, ConfirmationKept
<1>4. CASE Looks
  <2>1. Posts({})
    BY <1>4, PostsNothing DEF Looks
  <2>2. Held' => Held
    BY <1>1, <1>4 DEF Looks, Held, Carries, Confirmed
  <2> QED BY <1>1, <2>1, <2>2, ConfirmationKept
<1>5. CASE ConfirmsLost
  <2> DEFINE cnf == DlCnf("ISDU_CNF", "ERR", "none")
  <2>1. cnf \in Job
    BY CnfJob DEF DlCnfTypes, Results, Tags
  <2>2. Post(cnf)
    BY <1>5 DEF ConfirmsLost
  <2> HIDE DEF cnf
  <2>3. <<cnf>> \in Seq(Job) /\ Moves(<<cnf>>) /\ NotAfter(<<cnf>>, IsduCnf, IsduCnf)
    BY <2>1, <2>2, PostOne, OneJob, TypeFacts, ShortOrder DEF Moves
  <2>4. ~Held' /\ ~Has(IsduCnf) /\ Sole(IsduCnf) /\ alState = "Await_DL_ISDU_cnf" /\ dlCall = NoCall
    BY <1>5 DEF ConfirmsLost, OneConfirmation
  <2> QED BY <1>1, <2>3, <2>4, ConfirmationPosted
<1> QED BY <1>2, <1>3, <1>4, <1>5, ModeHandlerSteps

LEMMA DlConfirmation ==
  ASSUME TypeInv, Control, NotYet, OneConfirmation, Window, DlStep
  PROVE  OneConfirmation'
<1>1. UNCHANGED dlCall
  BY DlKinds
<1>2. CASE StartupAction
  <2>1. Posts({"MODE_STARTUP", "MODE_INACTIVE", "DL_READ_CNF"})
    BY <1>2, StartupPosts
  <2>2. UNCHANGED <<isduReq, alState, alSvc>> /\ (Held' => Held)
    BY <1>2, StartupSteps DEF Held, Carries, Confirmed
  <2> QED BY <1>1, <2>1, <2>2, ConfirmationKept
<1> QED BY <1>1, <1>2, DlKinds, CycleConfirmation, ModeHandlerConfirmation

LEMMA AlRequestConfirmation ==
  ASSUME TypeInv, OneService, OneConfirmation, AlRequest
  PROVE  OneConfirmation'
<1>1. Take("AL_REQ") /\ alState = "OnReq_Idle"
  BY AlRequestService DEF AlRequest, AlBusy, AlArgErr, AlParam, AlIsdu
<1>2. ~Has(IsduCnf) /\ Sole(IsduCnf) /\ ~Held
  BY <1>1 DEF OneConfirmation
<1>3. ~Held'
  BY <1>2 DEF AlRequest, AlBusy, AlArgErr, AlParam, AlIsdu, dlVars, isduVars, AlBuild, Held, Carries, Confirmed
<1>4. CASE AlArgErr
  <2> DEFINE cnf == AlCnf(ServiceOf(Head(mbox)), "ERR", "none")
  <2>1. cnf \in Job /\ cnf.type = "AL_CNF"
    BY <1>1, HeadService, AlCnfJob DEF Results, Tags
  <2>2. TakeAndPost(<<cnf>>)
    BY <1>4 DEF AlArgErr
  <2> HIDE DEF cnf
  <2>3. Posts({"AL_CNF"})
    BY <1>1, <2>1, <2>2, PostsOne DEF Take
  <2> QED BY <1>1, <1>3, <2>3, ConfirmationKept
<1>5. CASE (AlParam \/ AlIsdu) /\ TakeAndPost(<<>>)
  <2>1. Posts({})
    BY <1>1, <1>5, PostsNothing DEF Take
  <2> QED BY <1>1, <1>3, <2>1, ConfirmationKept
<1>6. CASE AlIsdu /\ ~TakeAndPost(<<>>)
  <2> DEFINE cnf == DlCnf("ISDU_CNF", "ERR", "none")
  <2>1. cnf \in Job
    BY CnfJob DEF DlCnfTypes, Results, Tags
  <2>2. TakeAndPost(<<cnf>>) /\ dlCall' = NoCall /\ alState' = "Await_DL_ISDU_cnf"
    BY <1>1, <1>6 DEF AlIsdu, Take
  <2> HIDE DEF cnf
  <2>3. <<cnf>> \in Seq(Job) /\ Moves(<<cnf>>) /\ NotAfter(<<cnf>>, IsduCnf, IsduCnf)
    BY <1>1, <2>1, <2>2, OneJob, ShortOrder DEF Moves, Take
  <2> QED BY <1>2, <1>3, <2>2, <2>3, ConfirmationPosted
<1>7. ~AlBusy
  BY <1>1 DEF AlBusy
<1>8. AlParam => TakeAndPost(<<>>)
  BY DEF AlParam
<1> QED BY <1>4, <1>5, <1>6, <1>7, <1>8 DEF AlRequest

LEMMA ConfirmPosts ==
  ASSUME TypeInv, NEW type, Take(type), NEW res \in Results, NEW val \in Tags \cup Pointers,
         Confirm(res, val)
  PROVE  Posts({"AL_CNF"})
<1>1. AlCnf(alSvc, res, val) \in Job /\ AlCnf(alSvc, res, val).type = "AL_CNF"
  BY TypeFacts, AlCnfJob
<1> QED BY <1>1, PostsOne DEF Confirm, Take

LEMMA AlConfirmConfirmation ==
  ASSUME TypeInv, OneService, OneConfirmation, AlConfirm
  PROVE  OneConfirmation'
<1>1. UNCHANGED <<dlCall, isduReq>> /\ (Held' <=> Held)
  BY AlConfirmSteps DEF dlVars, isduVars, AlBuild, Held, Carries, Confirmed
<1>2. CASE /\ \E type \in DlCnfTypes : Take(type)
           /\ TakeAndPost(<<>>) /\ UNCHANGED <<alState, alSvc>>
  <2>1. Posts({})
    BY <1>2, PostsNothing DEF Take
  <2> QED BY <1>1, <1>2, <2>1, ConfirmationKept
<1>3. CASE /\ \E type \in ParamCnfs : Take(type)
           /\ alState = "Await_DL_param_cnf"
           /\ \E res \in Results, val \in Tags \cup Pointers : Confirm(res, val)
  <2>1. Posts({"AL_CNF"})
    BY <1>3, ConfirmPosts
  <2> QED BY <1>1, <1>3, <2>1, ConfirmationKept
<1>4. CASE /\ Take("ISDU_CNF") /\ alState = "Await_DL_ISDU_cnf"
           /\ Confirm(Head(mbox).res, IF alSvc.kind \in ReadKinds THEN ReadData(alLen) ELSE "none")
  <2> DEFINE val == IF alSvc.kind \in ReadKinds THEN ReadData(alLen) ELSE "none"
             cnf == AlCnf(alSvc, Head(mbox).res, val)
  <2>1. Head(mbox).res \in Results
    BY <1>4, HeadJob DEF Job
  <2>2. cnf \in Job /\ cnf.type = "AL_CNF"
    <3>1. alLen \in Lengths
      BY DEF TypeInv, TypeOK, JobsTypeOK
    <3>2. val \in Tags \cup Pointers
      BY <3>1 DEF ReadData, Lengths, Tags, Pointers
    <3> QED BY <2>1, <3>2, TypeFacts, AlCnfJob
  <2>3. TakeAndPost(<<cnf>>)
    BY <1>4 DEF Confirm
  <2> HIDE DEF cnf
  <2>4. <<cnf>> \in Seq(Job) /\ Range(<<cnf>>) = {cnf} /\ NotAfter(<<cnf>>, IsduCnf, IsduCnf)
    BY <2>2, OneJob, ShortOrder
  <2>5. "ISDU_CNF" \in IsduCnf /\ Order(IsduCnf, IsduCnf) /\ \A j \in Range(<<cnf>>) : j.type \notin IsduCnf
    BY <2>2, <2>4 DEF IsduCnf, OneConfirmation, Sole
  <2>6. ~Has(IsduCnf)' /\ Order(IsduCnf, IsduCnf)'
    BY <1>4, <2>3, <2>4, <2>5, TakeSole
  <2>7. ~Held'
    <3>1. Has(IsduCnf)
      BY <1>4, HeadHas DEF IsduCnf
    <3> QED BY <1>1, <3>1 DEF OneConfirmation
  <2> QED BY <2>6, <2>7 DEF OneConfirmation, Sole
<1> QED BY <1>2, <1>3, <1>4, AlConfirmSteps

LEMMA DlRequestConfirmation ==
  ASSUME TypeInv, OneService, OneConfirmation, DlRequest
  PROVE  OneConfirmation'
<1>1. UNCHANGED <<alState, alSvc>>
  BY DEF DlRequest, DlParamReq, DlIsduReq, alVars
<1>2. CASE DlParamReq
  <2>1. alState # "Await_DL_ISDU_cnf" /\ (Held' => Held)
    BY <1>2 DEF DlParamReq, OneService, isduVars, Held, Carries, Confirmed
  <2>2. Posts(ParamCnfs) /\ "ISDU_CNF" \notin ParamCnfs
    BY <1>2, DlRequestPosts DEF DlRequest, ParamCnfs
  <2> QED BY <2>1, <2>2, ConfirmationKept
<1>3. CASE DlIsduReq
  <2>1. /\ alState = "Await_DL_ISDU_cnf" /\ dlCall' = NoCall /\ isduReq' = alSvc.req
        /\ UNCHANGED mbox /\ dlCall # NoCall
    BY <1>3 DEF DlIsduReq, OneService, NoCall
  <2>2. ~Has(IsduCnf) /\ Sole(IsduCnf)
    BY <2>1 DEF OneConfirmation
  <2>3. ~Has(IsduCnf)' /\ Sole(IsduCnf)'
    BY <2>1, <2>2 DEF Has, Jobs, Sole, Order
  <2> QED BY <1>1, <2>1, <2>3 DEF OneConfirmation
<1> QED BY <1>2, <1>3 DEF DlRequest

LEMMA NextConfirmation ==
  ASSUME OneClient, TypeInv, Control, NotYet, OneService, OneConfirmation, Window, Next
  PROVE  OneConfirmation'
<1>1. CASE OdeAction
  <2>1. UNCHANGED <<alState, alSvc, dlCall, isduReq>> /\ (Held' => Held)
    BY <1>1 DEF OdeAction, OdeReject, OdeAccept, OdeConfirm, OdeStart, OdeStop, DsConfirm, alVars,
                dlVars, isduVars, AlBuild, Held, Carries, Confirmed
  <2>2. Posts({"AL_REQ"})
    BY <1>1, OdePosts
  <2> QED BY <2>1, <2>2, ConfirmationKept
<1>2. CASE PortAction
  <2>1. Posts(PortTypes) /\ "ISDU_CNF" \notin PortTypes
    BY <1>2, PortTypesPosted DEF PortTypes, PortDown, PortSignals
  <2>2. UNCHANGED <<alState, alSvc, dlCall, isduReq, isdu, totSeg, dlPc>> /\ rwcmd' \in {rwcmd, "READ"}
    BY <1>2 DEF PortAction, CmCfgChange, SmSetPortConfig, SmModeStartup, SmReadCnf, SmModeOperate,
                SmModeComlost, SmModeInactive, CmOperate, CmComlost, PortStep, alVars, isduVars
  <2>3. Held' => Held
    BY <2>2 DEF Held, Carries, Confirmed
  <2> QED BY <2>1, <2>2, <2>3, ConfirmationKept
<1>3. CASE Application
  <2>1. Posts({"SMI_RW", "SMI_CFG", "AL_ABORT"})
    BY <1>3, ApplicationTypes
  <2>2. UNCHANGED <<alState, alSvc, dlCall, isduReq, isdu, totSeg, rwcmd, dlPc>>
    BY <1>3 DEF Application, SMI_DeviceRW_req, SMI_PortConfiguration_req, AL_Abort, DsRead, alVars,
                dlVars
  <2>3. Held' => Held
    BY <2>2 DEF Held, Carries, Confirmed
  <2> QED BY <2>1, <2>2, <2>3, ConfirmationKept
<1> QED BY <1>1, <1>2, <1>3, DlConfirmation, AlRequestConfirmation, AlConfirmConfirmation,
           DlRequestConfirmation
       DEF Next, MainThread, PortAction, OdeAction, AlRequest, AlConfirm, DlRequest

-----------------------------------------------------------------------------
(* The data are those of the service: from the device to the confirmation  *)
(* of the DL, from there to that of the AL, and into the answer.           *)

DataInv ==
    /\ \A j \in Jobs : j.type = "ISDU_CNF" /\ j.res = "OK" =>
          /\ alSvc.kind = "ReadIsdu" => alLen # "none"
          /\ Own(alSvc.kind, alSvc.req, alData)
    /\ \A j \in Jobs : j.type = "AL_CNF" /\ j.res = "OK" /\ j.kind \in IsduKinds =>
          /\ j.kind = "ReadIsdu" => j.val \in Pointers /\ alLen # "none"
          /\ Own(j.kind, j.req, alData)

(* A job that confirms no ISDU positively. *)
Harmless(j) == j.res = "OK" => j.type # "ISDU_CNF" /\ (j.type = "AL_CNF" => j.kind \notin IsduKinds)

LEMMA DataKept ==
  ASSUME DataInv, served \subseteq served', UNCHANGED alSvc \/ ~Has(IsduCnf),
         alLen # "none" => UNCHANGED alData /\ alLen' # "none",
         \A j \in Jobs' : j \in Jobs \/ Harmless(j)
  PROVE  DataInv'
<1>1. \A kind, req : Own(kind, req, alData) /\ (kind = "ReadIsdu" => alLen # "none")
                        => Own(kind, req, alData)' /\ (kind = "ReadIsdu" => alLen' # "none")
  BY DEF Own
<1>2. ASSUME NEW j \in Jobs', j.type = "ISDU_CNF", j.res = "OK"
      PROVE  (alSvc.kind = "ReadIsdu" => alLen # "none")' /\ Own(alSvc.kind, alSvc.req, alData)'
  <2>1. j \in Jobs /\ UNCHANGED alSvc
    BY <1>2 DEF Harmless, Has, IsduCnf
  <2>2. (alSvc.kind = "ReadIsdu" => alLen # "none") /\ Own(alSvc.kind, alSvc.req, alData)
    BY <1>2, <2>1 DEF DataInv
  <2>3. Own(alSvc.kind, alSvc.req, alData)'
    BY <1>1, <2>1, <2>2 DEF Own
  <2> QED BY <1>1, <2>1, <2>2, <2>3
<1>3. ASSUME NEW j \in Jobs', j.type = "AL_CNF", j.res = "OK", j.kind \in IsduKinds
      PROVE  (j.kind = "ReadIsdu" => j.val \in Pointers /\ alLen' # "none")
             /\ Own(j.kind, j.req, alData)'
  <2>1. j \in Jobs
    BY <1>3 DEF Harmless
  <2>2. (j.kind = "ReadIsdu" => j.val \in Pointers /\ alLen # "none") /\ Own(j.kind, j.req, alData)
    BY <1>3, <2>1 DEF DataInv
  <2> QED BY <1>1, <2>2
<1> QED BY <1>2, <1>3 DEF DataInv

LEMMA PostsHarmless ==
  ASSUME TypeInv, NEW P, Posts(P), P \cap {"ISDU_CNF", "AL_CNF"} = {}
  PROVE  \A j \in Jobs' : j \in Jobs \/ Harmless(j)
<1>1. \A j \in Jobs' : j \in Jobs \/ j.type \in P
  BY PostsOld
<1> QED BY <1>1 DEF Harmless

LEMMA CycleData ==
  ASSUME TypeInv, Control, OneService, OneConfirmation, DataInv, CycleStep
  PROVE  DataInv' /\ served \subseteq served'
<1>1. /\ UNCHANGED <<alState, alSvc>>
      /\ IsduStep \/ NotRun \/ DlClear
      /\ IsduConfirms => Held \/ NotRun \/ DlClear
  BY CycleSteps
<1>2. CASE IsduConfirms /\ Held
  <2>1. PICK j \in Job :
          /\ Post(j) /\ j.type = "ISDU_CNF"
          /\ j.res = "OK" /\ isduReq # NoReq =>
                IF alSvc.kind = "ReadIsdu" THEN alData' = isduReq /\ alLen' = "data"
                                           ELSE isduReq \in served'
    BY <1>2 DEF IsduConfirms
  <2>2. Held /\ served \subseteq served'
    BY <1>2 DEF IsduConfirms
  <2>3. /\ ~Has(IsduCnf) /\ ~Has(AlJobs)
        /\ isduReq = alSvc.req /\ isduReq # NoReq
    <3>1. alState = "Await_DL_ISDU_cnf" /\ isduReq = alSvc.req /\ ~Has(IsduCnf)
      BY <2>2 DEF OneConfirmation
    <3>2. ~Has(AlJobs) /\ ode = "ODblocked" /\ alSvc.req = odeReq
      BY <3>1 DEF OneService, Mine
    <3>3. odeReq \in Reqs
      BY <3>2 DEF TypeInv, JobsWellFormed
    <3> QED BY <3>1, <3>2, <3>3, RequestsAssumption
  <2>4. Jobs' = Jobs \cup {j}
    BY <2>1, PostOne, TypeFacts
  <2>5. \A k \in Jobs' : k.type \in {"ISDU_CNF", "AL_CNF"} => k = j
    BY <2>3, <2>4 DEF Has, IsduCnf, AlJobs
  <2>6. j.res = "OK" => /\ (alSvc.kind = "ReadIsdu" => alLen # "none")'
                        /\ Own(alSvc.kind, alSvc.req, alData)'
    BY <1>1, <2>1, <2>3 DEF Own
  <2> QED BY <2>1, <2>2, <2>5, <2>6 DEF DataInv
<1>3. CASE IsduGoesOn \/ NotRun \/ DlClear
  <2>1. UNCHANGED <<alData, alLen>> /\ served \subseteq served'
    BY <1>3 DEF IsduGoesOn, NotRun, DlClear
  <2>2. \A j \in Jobs' : j \in Jobs \/ Harmless(j)
    <3>1. UNCHANGED mbox \/ \E j \in Job : Post(j) /\ j.type \in ParamCnfs
      BY <1>3 DEF IsduGoesOn, NotRun, DlClear
    <3>2. \A j \in Jobs' : j \in Jobs \/ j.type \in ParamCnfs
      BY <3>1, PostOne, TypeFacts DEF Jobs
    <3> QED BY <3>2 DEF Harmless, ParamCnfs
  <2> QED BY <1>1, <2>1, <2>2, DataKept
<1> QED BY <1>1, <1>2, <1>3 DEF IsduStep

LEMMA DlData ==
  ASSUME TypeInv, Control, OneService, OneConfirmation, DataInv, DlStep
  PROVE  DataInv' /\ served \subseteq served'
<1>1. CASE DlModeHandler
  <2>1. UNCHANGED <<served, alSvc, alData, alLen>>
    BY <1>1, ModeHandlerSteps
  <2>2. \A j \in Jobs' : j \in Jobs \/ Harmless(j)
    <3>1. ASSUME NEW type \in {"MODE_COMLOST", "MODE_INACTIVE"}, GivesUp(type)
          PROVE  \A j \in Jobs' : j \in Jobs \/ Harmless(j)
      <4>1. PICK s \in Seq(Job) :
               /\ Moves(s)
               /\ \A j \in Range(s) : j.type = type \/ (j.type = "ISDU_CNF" /\ j.res = "ERR" /\ Held)
        BY <3>1 DEF GivesUp, ModeReport
      <4> QED BY <4>1, MovesJobs DEF Harmless
    <3>2. CASE Operates
      <4>1. Signal("MODE_OPERATE") \in Job /\ Signal("MODE_OPERATE").type = "MODE_OPERATE"
        BY SignalIsDlJob DEF DlJob, Signal, MkJob
      <4>2. Jobs' = Jobs \cup {Signal("MODE_OPERATE")}
        BY <3>2, <4>1, PostOne, TypeFacts DEF Operates
      <4> QED BY <4>1, <4>2 DEF Harmless
    <3>3. CASE Looks
      BY <3>3 DEF Looks, Jobs
    <3>4. CASE ConfirmsLost
      <4> DEFINE cnf == DlCnf("ISDU_CNF", "ERR", "none")
      <4>1. cnf \in Job /\ cnf.res = "ERR"
        <5>1. cnf \in Job
          BY CnfJob DEF DlCnfTypes, Results, Tags
        <5> QED BY <5>1 DEF DlCnf, MkJob
      <4>2. Post(cnf)
        BY <3>4 DEF ConfirmsLost
      <4> HIDE DEF cnf
      <4>3. Jobs' = Jobs \cup {cnf}
        BY <4>1, <4>2, PostOne, TypeFacts
      <4> QED BY <4>1, <4>3 DEF Harmless
    <3> QED BY <1>1, <3>1, <3>2, <3>3, <3>4, ModeHandlerSteps
  <2> QED BY <2>1, <2>2, DataKept
<1>2. CASE StartupAction
  <2>1. UNCHANGED <<served, alSvc, alData, alLen>>
    BY <1>2, StartupSteps
  <2>2. Posts({"MODE_STARTUP", "MODE_INACTIVE", "DL_READ_CNF"})
    BY <1>2, StartupPosts
  <2>3. {"MODE_STARTUP", "MODE_INACTIVE", "DL_READ_CNF"} \cap {"ISDU_CNF", "AL_CNF"} = {}
    OBVIOUS
  <2>4. \A j \in Jobs' : j \in Jobs \/ Harmless(j)
    BY <2>2, <2>3, PostsHarmless
  <2> QED BY <2>1, <2>4, DataKept
<1> QED BY <1>1, <1>2, CycleData, DlKinds

LEMMA AlRequestData ==
  ASSUME TypeInv, OneService, OneConfirmation, DataInv, AlRequest
  PROVE  DataInv'
<1>1. Take("AL_REQ") /\ alState = "OnReq_Idle"
  BY AlRequestService DEF AlRequest, AlBusy, AlArgErr, AlParam, AlIsdu, alVars, dlVars
<1>2. ~Has(IsduCnf)
  BY <1>1 DEF OneConfirmation
<1>3. PICK s \in Seq(Job) : TakeAndPost(s) /\ \A j \in Range(s) : j.res # "OK"
  <2>1. /\ DlCnf("ISDU_CNF", "ERR", "none") \in Job
        /\ DlCnf("ISDU_CNF", "ERR", "none").res = "ERR"
    BY CnfJob DEF DlCnfTypes, Results, Tags
  <2>2. /\ AlCnf(ServiceOf(Head(mbox)), "ERR", "none") \in Job
        /\ AlCnf(ServiceOf(Head(mbox)), "ERR", "none").res = "ERR"
    <3>1. AlCnf(ServiceOf(Head(mbox)), "ERR", "none") \in Job
      BY <1>1, HeadService, AlCnfJob DEF Results, Tags
    <3> QED BY <3>1 DEF AlCnf, MkJob
  <2>3. \/ TakeAndPost(<<>>)
        \/ TakeAndPost(<<DlCnf("ISDU_CNF", "ERR", "none")>>)
        \/ TakeAndPost(<<AlCnf(ServiceOf(Head(mbox)), "ERR", "none")>>)
    BY <1>1 DEF AlRequest, AlBusy, AlArgErr, AlParam, AlIsdu
  <2> QED BY <2>1, <2>2, <2>3, NoJobs, OneJob
<1>4. Moves(s)
  BY <1>1, <1>3 DEF Moves, Take
<1>5. ASSUME NEW j \in Jobs', j.res = "OK", j.type \in {"ISDU_CNF", "AL_CNF"} PROVE FALSE
  <2>1. mbox \in Seq(Job) /\ mbox # <<>> /\ Head(mbox).type \in AlJobs
    BY <1>1, TypeFacts DEF Take, AlJobs
  <2>2. j \in Range(Tail(mbox)) \cup Range(s) /\ Range(Tail(mbox)) \subseteq Jobs
    BY <1>3, <2>1, TakeJobs
  <2>3. j \in Range(Tail(mbox)) /\ j \in Jobs
    BY <1>3, <1>5, <2>2
  <2>4. j.type \notin AlJobs
    BY <2>1, <2>3, TailOrder DEF OneService, Sole, Order
  <2> QED BY <1>2, <1>5, <2>3, <2>4 DEF Has, IsduCnf, AlJobs
<1> QED BY <1>5 DEF DataInv

LEMMA AlConfirmData ==
  ASSUME TypeInv, OneService, OneConfirmation, OneConfirmation', DataInv, AlConfirm
  PROVE  DataInv'
<1>1. UNCHANGED <<asked, ode, odeReq, dlCall, dlVars, served>>
  BY AlConfirmSteps DEF dlVars
<1>2. CASE /\ \E type \in DlCnfTypes : Take(type)
           /\ TakeAndPost(<<>>) /\ UNCHANGED <<alState, alSvc>>
           /\ alLen # "none" => UNCHANGED alData /\ alLen' # "none"
  <2>1. Posts({})
    BY <1>2, PostsNothing DEF Take
  <2>2. \A j \in Jobs' : j \in Jobs \/ Harmless(j)
    BY <2>1, PostsHarmless
  <2> QED BY <1>1, <1>2, <2>2, DataKept
<1>3. ASSUME NEW type \in DlCnfTypes, Take(type), alState # "OnReq_Idle",
             NEW res \in Results, NEW val \in Tags \cup Pointers, Confirm(res, val),
             alSvc.kind \in IsduKinds /\ res = "OK" =>
                /\ alSvc.kind = "ReadIsdu" => val \in Pointers /\ alLen' # "none"
                /\ Own(alSvc.kind, alSvc.req, alData)',
             UNCHANGED alSvc
      PROVE  DataInv'
  <2>1. type \notin AlJobs
    BY DEF DlCnfTypes, AlJobs
  <2>2. alState' = "OnReq_Idle" /\ \A j \in Jobs' : j.type \in AlJobs => j = AlCnf(alSvc, res, val)
    BY <1>1, <1>3, <2>1, ConfirmService
  <2>3. \A j \in Jobs' : j.type # "ISDU_CNF"
    BY <2>2 DEF OneConfirmation, Has, IsduCnf
  <2>4. /\ AlCnf(alSvc, res, val).kind = alSvc.kind /\ AlCnf(alSvc, res, val).req = alSvc.req
        /\ AlCnf(alSvc, res, val).res = res /\ AlCnf(alSvc, res, val).val = val
    BY DEF AlCnf, MkJob
  <2>5. \A j \in Jobs' : j.type = "AL_CNF" => j = AlCnf(alSvc, res, val)
    BY <2>2 DEF AlJobs
  <2> QED BY <1>3, <2>3, <2>4, <2>5 DEF DataInv
<1>4. CASE /\ \E type \in ParamCnfs : Take(type)
           /\ alState = "Await_DL_param_cnf"
           /\ \E res \in Results, val \in Tags \cup Pointers : Confirm(res, val)
  <2>1. ParamCnfs \subseteq DlCnfTypes /\ alState # "OnReq_Idle" /\ alSvc.kind \notin IsduKinds
    BY <1>4 DEF DlCnfTypes, ParamCnfs, OneService
  <2>2. UNCHANGED alSvc
    BY <1>4 DEF Confirm
  <2> QED BY <1>3, <1>4, <2>1, <2>2
<1>5. CASE /\ Take("ISDU_CNF") /\ alState = "Await_DL_ISDU_cnf" /\ UNCHANGED <<alData, alLen>>
           /\ Confirm(Head(mbox).res, IF alSvc.kind \in ReadKinds THEN ReadData(alLen) ELSE "none")
  <2> DEFINE val == IF alSvc.kind \in ReadKinds THEN ReadData(alLen) ELSE "none"
  <2>1. Head(mbox).res \in Results /\ Head(mbox) \in Jobs /\ Head(mbox).type = "ISDU_CNF"
    BY <1>5, HeadJob DEF Job
  <2>2. /\ val \in Tags \cup Pointers
        /\ alSvc.kind = "ReadIsdu" /\ alLen # "none" => val \in Pointers
    <3>1. alLen \in Lengths
      BY DEF TypeInv, TypeOK, JobsTypeOK
    <3> QED BY <3>1 DEF ReadData, Lengths, Pointers, Tags, ReadKinds
  <2>3. "ISDU_CNF" \in DlCnfTypes /\ alState # "OnReq_Idle" /\ UNCHANGED alSvc
    BY <1>5 DEF DlCnfTypes, Confirm
  <2>4. Head(mbox).res = "OK" => /\ alSvc.kind = "ReadIsdu" => alLen # "none"
                                 /\ Own(alSvc.kind, alSvc.req, alData)
    BY <2>1 DEF DataInv
  <2>5. Own(alSvc.kind, alSvc.req, alData) => Own(alSvc.kind, alSvc.req, alData)'
    BY <1>1, <1>5, <2>3 DEF Own
  <2> HIDE DEF val
  <2>6. Confirm(Head(mbox).res, val)
    BY <1>5 DEF val
  <2>7. \A kind, req : Own(kind, req, alData) => Own(kind, req, alData)'
    BY <1>1, <1>5 DEF Own
  <2> QED BY <1>3, <1>5, <2>1, <2>2, <2>3, <2>4, <2>6, <2>7
<1> QED BY <1>2, <1>4, <1>5, AlConfirmSteps

LEMMA NextData ==
  ASSUME OneClient, TypeInv, Control, OneService, OneConfirmation, OneConfirmation', DataInv, Next
  PROVE  DataInv' /\ served \subseteq served'
<1>1. CASE OdeAction
  <2>1. UNCHANGED <<alSvc, alData, alLen>>
    BY <1>1 DEF OdeAction, OdeReject, OdeAccept, OdeConfirm, OdeStart, OdeStop, DsConfirm, alVars
  <2>2. Posts({"AL_REQ"}) /\ UNCHANGED served
    BY <1>1, OdePosts, ServiceUnchanged
  <2>3. \A j \in Jobs' : j \in Jobs \/ Harmless(j)
    BY <2>2, PostsHarmless
  <2> QED BY <2>1, <2>2, <2>3, DataKept
<1>2. CASE DlRequest
  <2>1. UNCHANGED <<alSvc, alData, alLen>>
    BY <1>2 DEF DlRequest, DlParamReq, DlIsduReq, alVars
  <2>2. Posts(ParamCnfs) /\ UNCHANGED served /\ ParamCnfs \cap {"ISDU_CNF", "AL_CNF"} = {}
    BY <1>2, DlRequestPosts, ServiceUnchanged DEF ParamCnfs
  <2>3. \A j \in Jobs' : j \in Jobs \/ Harmless(j)
    BY <2>2, PostsHarmless
  <2> QED BY <2>1, <2>2, <2>3, DataKept
<1>3. CASE PortAction
  <2>1. UNCHANGED <<alSvc, alData, alLen, served>>
    BY <1>3 DEF PortAction, CmCfgChange, SmSetPortConfig, SmModeStartup, SmReadCnf, SmModeOperate,
                SmModeComlost, SmModeInactive, CmOperate, CmComlost, PortStep, alVars
  <2>2. Posts(PortTypes) /\ PortTypes \cap {"ISDU_CNF", "AL_CNF"} = {}
    BY <1>3, PortTypesPosted DEF PortTypes, PortDown, PortSignals
  <2>3. \A j \in Jobs' : j \in Jobs \/ Harmless(j)
    BY <2>2, PostsHarmless
  <2> QED BY <2>1, <2>3, DataKept
<1>4. CASE Application
  <2>1. UNCHANGED <<alSvc, alData, alLen, served>>
    BY <1>4 DEF Application, SMI_DeviceRW_req, SMI_PortConfiguration_req, AL_Abort, DsRead, alVars,
                dlVars
  <2>2. Posts({"SMI_RW", "SMI_CFG", "AL_ABORT"})
    BY <1>4, ApplicationTypes
  <2>3. {"SMI_RW", "SMI_CFG", "AL_ABORT"} \cap {"ISDU_CNF", "AL_CNF"} = {}
    OBVIOUS
  <2>4. \A j \in Jobs' : j \in Jobs \/ Harmless(j)
    BY <2>2, <2>3, PostsHarmless
  <2> QED BY <2>1, <2>4, DataKept
<1>5. CASE AlRequest \/ AlConfirm
  <2>1. DataInv'
    BY <1>5, AlRequestData, AlConfirmData
  <2> QED BY <1>5, <2>1, ServiceUnchanged
<1> QED BY <1>1, <1>2, <1>3, <1>4, <1>5, DlData
       DEF Next, MainThread, PortAction, OdeAction, AlRequest, AlConfirm, DlRequest

(* Where no direct parameters are read, nothing is stored behind the data  *)
(* of another read.                                                        *)
ParamReadAsked == \E q \in Ids : asked[q] = "ReadParam"

Short(j) ==
    /\ j.type # "READPARAM_CNF"
    /\ j.type \in {"SMI_RW", "AL_REQ"} => j.kind # "ReadParam"
    /\ j.type = "AL_CNF" => j.val # "data_read_longer"

NothingBehind ==
    /\ rwcmd # "READPARAM" /\ alSvc.kind # "ReadParam" /\ alLen # "more"
    /\ \A j \in Jobs : Short(j)

LengthInv == ParamReadAsked \/ NothingBehind

LongJobs == {"READPARAM_CNF", "SMI_RW", "AL_REQ", "AL_CNF"}

LEMMA ShortKept ==
  ASSUME NothingBehind, NEW P, Posts(P), P \cap LongJobs = {}, TypeInv
  PROVE  \A j \in Jobs' : Short(j)
<1>1. \A j \in Jobs' : j \in Jobs \/ j.type \in P
  BY PostsOld
<1> QED BY <1>1 DEF NothingBehind, Short, LongJobs

LEMMA ShortMoves ==
  ASSUME NothingBehind, TypeInv, NEW s \in Seq(Job), Moves(s), \A j \in Range(s) : Short(j)
  PROVE  \A j \in Jobs' : Short(j)
  BY MovesJobs DEF NothingBehind

(* A confirmation the DL posts where no direct parameter is read. *)
ShortCnf ==
    \/ UNCHANGED mbox
    \/ \E type \in {"ISDU_CNF", "WRITEPARAM_CNF"}, res \in Results : Post(DlCnf(type, res, "none"))

LEMMA ShortCnfPosts == ASSUME TypeInv, ShortCnf PROVE Posts({"ISDU_CNF", "WRITEPARAM_CNF"})
<1>1. CASE UNCHANGED mbox
  BY <1>1, PostsNothing, PostsMore
<1>2. ASSUME NEW type \in {"ISDU_CNF", "WRITEPARAM_CNF"}, NEW res \in Results,
             Post(DlCnf(type, res, "none"))
      PROVE  Posts({"ISDU_CNF", "WRITEPARAM_CNF"})
  <2>1. DlCnf(type, res, "none") \in Job /\ DlCnf(type, res, "none").type = type
    BY CnfJob DEF DlCnfTypes, Tags
  <2>2. Posts({type})
    BY <1>2, <2>1, PostsOne
  <2> QED BY <2>2, PostsMore
<1> QED BY <1>1, <1>2 DEF ShortCnf

LEMMA OdLength ==
  ASSUME OdMaster \/ \E flag \in BOOLEAN : OdDevice(flag), rwcmd # "READPARAM"
  PROVE  rwcmd' # "READPARAM" /\ alLen' \in {alLen, "data"} /\ ShortCnf
<1>1. \A outcome \in {"POS", "NEG", "ERROR"} :
         DL_ISDUTransport_cnf(outcome) => alLen' \in {alLen, "data"} /\ ShortCnf
  BY DEF DL_ISDUTransport_cnf, ShortCnf, Results
<1>2. CASE IsduQuiet \/ \E m : NextMessage(m)
  BY <1>2 DEF IsduQuiet, NextMessage, ShortCnf
<1>3. CASE IsduMaster
  BY <1>1, <1>3 DEF IsduMaster, IsduMasterIdle, NextMessage, IsduError4, After, ShortCnf
<1>4. CASE IsduDeviceIdle \/ IsduDeviceRequest
  BY <1>4 DEF IsduDeviceIdle, IsduDeviceRequest, IsduQuiet, After, ShortCnf, Results
<1>5. CASE IsduDeviceWait \/ IsduDeviceResponse
  BY <1>1, <1>5 DEF IsduDeviceWait, IsduDeviceResponse, IsduQuiet, EnterIsduError4,
                    ReceptionComplete, After, ShortCnf
<1>6. CASE IsduError4 \/ EnterIsduError4
  BY <1>1, <1>6 DEF IsduError4, EnterIsduError4, After, ShortCnf
<1> QED BY <1>2, <1>3, <1>4, <1>5, <1>6 DEF OdMaster, OdDevice, IsduDevice

LEMMA DlLength ==
  ASSUME TypeInv, Control, NothingBehind, DlStep
  PROVE  NothingBehind'
<1>1. rwcmd # "READPARAM"
  BY DEF NothingBehind
<1>2. CASE OdActions
  <2>1. OdMaster \/ \E flag \in BOOLEAN : OdDevice(flag)
    BY <1>2 DEF OdActions, DlReply, DlNextMessage, DlSendWriteParam, DlReply9, DlGetOd7,
                DlFirstMessage
  <2>2. UNCHANGED alSvc
    BY <1>2 DEF OdActions, DlReply, DlNextMessage, DlSendWriteParam, DlReply9, DlGetOd7,
                DlFirstMessage
  <2>3. Posts({"ISDU_CNF", "WRITEPARAM_CNF"})
    BY <1>1, <2>1, OdLength, ShortCnfPosts
  <2>4. {"ISDU_CNF", "WRITEPARAM_CNF"} \cap LongJobs = {}
    BY DEF LongJobs
  <2>5. \A j \in Jobs' : Short(j)
    BY <2>3, <2>4, ShortKept
  <2> QED BY <1>1, <2>1, <2>2, <2>5, OdLength DEF NothingBehind
<1>3. CASE DlClear \/ RxFailures \/ IsduTimer
  <2>1. UNCHANGED <<alSvc, alLen>> /\ rwcmd' \in {rwcmd, "NONE"}
    BY <1>3 DEF DlClear, RxFailures, DlRxError16, DlRxError9, DlComLost, DlErrorHandling10,
                HandleComLost, IsduTimer
  <2>2. ShortCnf
    BY <1>1, <1>3 DEF DlClear, RxFailures, DlRxError16, DlRxError9, DlComLost, DlErrorHandling10,
                      IsduTimer, ShortCnf, Results
  <2>3. {"ISDU_CNF", "WRITEPARAM_CNF"} \cap LongJobs = {}
    BY DEF LongJobs
  <2>4. \A j \in Jobs' : Short(j)
    BY <2>2, <2>3, ShortCnfPosts, ShortKept
  <2> QED BY <1>1, <2>1, <2>4 DEF NothingBehind
<1>4. CASE DlModeHandler \/ StartupAction
  <2>1. UNCHANGED <<alSvc, alLen>> /\ rwcmd' \in {rwcmd, "NONE"}
    <3>1. CASE DlModeHandler
      BY <3>1, ModeHandlerSteps
    <3>2. CASE StartupAction
      BY <3>2 DEF StartupAction, DlWurq, DlStartupReply
    <3> QED BY <1>4, <3>1, <3>2
  <2>2. Posts({"MODE_COMLOST", "MODE_INACTIVE", "MODE_STARTUP", "MODE_OPERATE", "ISDU_CNF", "DL_READ_CNF"})
    <3>1. CASE DlModeHandler /\ ~Operates
      BY <3>1, ModeHandlerSteps, ModeHandlerPosts, PostsMore
    <3>3. CASE Operates
      <4>1. Signal("MODE_OPERATE") \in Job /\ Signal("MODE_OPERATE").type = "MODE_OPERATE"
        BY SignalIsDlJob DEF DlJob, Signal, MkJob
      <4>2. Posts({"MODE_OPERATE"})
        BY <3>3, <4>1, PostsOne DEF Operates
      <4> QED BY <4>2, PostsMore
    <3>2. CASE StartupAction
      BY <3>2, StartupPosts, PostsMore
    <3> QED BY <1>4, <3>1, <3>2, <3>3
  <2>3. {"MODE_COMLOST", "MODE_INACTIVE", "MODE_STARTUP", "MODE_OPERATE", "ISDU_CNF", "DL_READ_CNF"}
           \cap LongJobs = {}
    BY DEF LongJobs
  <2>4. \A j \in Jobs' : Short(j)
    BY <2>2, <2>3, ShortKept
  <2> QED BY <1>1, <2>1, <2>4 DEF NothingBehind
<1> QED BY <1>2, <1>3, <1>4, DlKinds DEF CycleStep

LEMMA AlLength ==
  ASSUME TypeInv, OneService, NothingBehind, AlRequest \/ AlConfirm
  PROVE  NothingBehind'
<1>1. ~AlReadParamCnf /\ ~AlAbort
  <2>1. ~AlReadParamCnf
    BY HeadJob DEF AlReadParamCnf, Take, NothingBehind, Short
  <2>2. ~AlAbort
    BY HeadHas DEF AlAbort, OneService
  <2> QED BY <2>1, <2>2
<1>2. PICK type \in {"AL_REQ", "WRITEPARAM_CNF", "ISDU_CNF"} : Take(type)
  BY <1>1 DEF AlRequest, AlBusy, AlArgErr, AlParam, AlIsdu, AlConfirm, AlWriteParamCnf, AlIsduCnf
<1>3. Head(mbox) \in Jobs /\ Head(mbox) \in Job /\ (AlRequest => Head(mbox).type = "AL_REQ")
  BY <1>2, HeadJob DEF Take, AlRequest, AlBusy, AlArgErr, AlParam, AlIsdu
<1>4. AlRequest => Head(mbox).kind # "ReadParam"
  BY <1>3 DEF NothingBehind, Short
<1>5. /\ alSvc' = alSvc \/ (AlRequest /\ alSvc' = ServiceOf(Head(mbox)))
      /\ alLen' \in {alLen, "none", "data"}
      /\ rwcmd' \in {rwcmd, "WRITEPARAM"}
  BY <1>1, <1>4 DEF AlRequest, AlBusy, AlArgErr, AlParam, AlIsdu, AlConfirm, AlWriteParamCnf,
           AlIsduCnf, AlBuild, Confirm, alVars, dlVars
<1>6. PICK s \in Seq(Job) : TakeAndPost(s) /\ \A j \in Range(s) : Short(j)
  <2>1. TakeAndPost(<<>>) => <<>> \in Seq(Job) /\ \A j \in Range(<<>>) : Short(j)
    BY NoJobs
  <2>2. ASSUME NEW j \in Job, Short(j)
        PROVE  <<j>> \in Seq(Job) /\ \A k \in Range(<<j>>) : Short(k)
    BY <2>2, OneJob
  <2>3. DlCnf("ISDU_CNF", "ERR", "none") \in Job /\ Short(DlCnf("ISDU_CNF", "ERR", "none"))
    <3>1. DlCnf("ISDU_CNF", "ERR", "none") \in Job
      BY CnfJob DEF DlCnfTypes, Results, Tags
    <3> QED BY <3>1 DEF Short, DlCnf, MkJob
  <2>4. ASSUME NEW svc \in Service, NEW res \in Results, NEW val \in Tags \cup Pointers,
               val # "data_read_longer"
        PROVE  AlCnf(svc, res, val) \in Job /\ Short(AlCnf(svc, res, val))
    <3>1. AlCnf(svc, res, val) \in Job
      BY AlCnfJob
    <3> QED BY <2>4, <3>1 DEF Short, AlCnf, MkJob
  <2>5. CASE AlRequest
    <3>1. ServiceOf(Head(mbox)) \in Service /\ {"BUSY", "ERR"} \subseteq Results
          /\ "none" \in Tags \cup Pointers
      BY <1>2, HeadService, <1>3, <2>5 DEF Results, Tags, AlRequest, AlBusy, AlArgErr, AlParam, AlIsdu
    <3>2. \/ TakeAndPost(<<>>)
          \/ TakeAndPost(<<DlCnf("ISDU_CNF", "ERR", "none")>>)
          \/ \E res \in {"BUSY", "ERR"} : TakeAndPost(<<AlCnf(ServiceOf(Head(mbox)), res, "none")>>)
      BY <2>5 DEF AlRequest, AlBusy, AlArgErr, AlParam, AlIsdu
    <3> QED BY <2>1, <2>2, <2>3, <2>4, <3>1, <3>2
  <2>6. CASE AlConfirm
    <3>1. Head(mbox).res \in Results /\ {"OK", "ERR"} \subseteq Results /\ alSvc \in Service
      BY <1>3, TypeFacts DEF Job, Results, TypeInv, TypeOK, JobsTypeOK
    <3>2. ReadData(alLen) \in Tags \cup Pointers /\ ReadData(alLen) # "data_read_longer"
          /\ {"none", "wild"} \subseteq Tags \cup Pointers
      <4>1. alLen \in {"none", "data"}
        BY DEF NothingBehind, TypeInv, TypeOK, JobsTypeOK, Lengths
      <4> QED BY <4>1 DEF ReadData, Tags, Pointers
    <3>3. \/ TakeAndPost(<<>>)
          \/ \E res \in Results, val \in {"none", "wild", ReadData(alLen)} :
                TakeAndPost(<<AlCnf(alSvc, res, val)>>)
      BY <1>1, <2>6, <3>1 DEF AlConfirm, AlWriteParamCnf, AlIsduCnf, Confirm
    <3> QED BY <2>1, <2>2, <2>4, <3>1, <3>2, <3>3
  <2> QED BY <2>5, <2>6
<1>7. Moves(s)
  BY <1>2, <1>6 DEF Moves, Take
<1>8. \A j \in Jobs' : Short(j)
  BY <1>6, <1>7, ShortMoves
<1> QED BY <1>3, <1>4, <1>5, <1>8 DEF NothingBehind, ServiceOf

LEMMA NextLength ==
  ASSUME OneClient, TypeInv, Control, OneService, LengthInv, Next
  PROVE  LengthInv'
<1> USE DEF LengthInv
<1>1. CASE ParamReadAsked
  <2>1. PICK q \in Ids : asked[q] = "ReadParam"
    BY <1>1 DEF ParamReadAsked
  <2>2. CASE \E r \in Reqs, k \in Kinds : SMI_DeviceRW_req(r, k)
    <3>1. asked \in [Ids -> AllKinds \cup {"none"}]
      BY DEF TypeInv, TypeOK, OdTypeOK
    <3>2. asked'[q] = asked[q]
      BY <2>1, <2>2, <3>1 DEF SMI_DeviceRW_req
    <3> QED BY <2>1, <3>2 DEF ParamReadAsked
  <2>3. CASE UNCHANGED asked
    BY <2>1, <2>3 DEF ParamReadAsked
  <2>4. ~ \E r \in DsReqs : DsRead(r)
    BY DEF OneClient
  <2>5. Application => UNCHANGED asked \/ \E r \in Reqs, k \in Kinds : SMI_DeviceRW_req(r, k)
    BY <2>4 DEF Application, SMI_PortConfiguration_req, AL_Abort
  <2>6. PortAction => UNCHANGED asked
    BY DEF PortAction, CmCfgChange, SmSetPortConfig, SmModeStartup, SmReadCnf, SmModeOperate,
           SmModeComlost, SmModeInactive, CmOperate, CmComlost, PortStep, appVars
  <2> QED BY <2>2, <2>3, <2>5, <2>6, ServiceUnchanged
          DEF Next, MainThread, PortAction, OdeAction, AlRequest, AlConfirm, DlRequest, DlStep, appVars
<1>2. CASE NothingBehind
  <2>1. CASE OdeAction
    <3>1. UNCHANGED <<rwcmd, alSvc, alLen>>
      BY <2>1 DEF OdeAction, OdeReject, OdeAccept, OdeConfirm, OdeStart, OdeStop, DsConfirm, alVars,
                  dlVars
    <3>2. CASE OdeAccept /\ ~TakeAndPost(<<>>)
      <4> DEFINE req == MkJob("AL_REQ", "ODE", Head(mbox).req, Head(mbox).kind, "OK", "none")
      <4>1. Head(mbox) \in Jobs /\ Head(mbox) \in Job /\ Head(mbox).type = "SMI_RW" /\ mbox # <<>>
        BY <3>2, HeadJob DEF OdeAccept, Take
      <4>2. Head(mbox).kind # "ReadParam" /\ Head(mbox).kind \in AllKinds /\ Head(mbox).req \in Ids \cup {NoReq}
        BY <1>2, <4>1 DEF NothingBehind, Short, Job
      <4>3. req \in Job
        BY <4>2 DEF Job, MkJob, JobTypes, Clients, Results, Tags
      <4>4. Short(req)
        BY <4>2 DEF Short, MkJob
      <4>5. TakeAndPost(<<req>>)
        BY <3>2 DEF OdeAccept
      <4> HIDE DEF req
      <4>6. <<req>> \in Seq(Job) /\ Range(<<req>>) = {req} /\ Moves(<<req>>)
        BY <4>1, <4>3, <4>5, OneJob DEF Moves
      <4>7. \A j \in Jobs' : Short(j)
        BY <1>2, <4>4, <4>6, ShortMoves
      <4> QED BY <1>2, <3>1, <4>7 DEF NothingBehind
    <3>3. CASE TakeAndPost(<<>>)
      <4>1. mbox # <<>>
        BY <2>1 DEF OdeAction, OdeReject, OdeAccept, OdeConfirm, OdeStart, OdeStop, DsConfirm, Take
      <4>2. Posts({})
        BY <3>3, <4>1, PostsNothing
      <4>3. \A j \in Jobs' : Short(j)
        BY <1>2, <4>2, ShortKept
      <4> QED BY <1>2, <3>1, <4>3 DEF NothingBehind
    <3> QED BY <2>1, <3>2, <3>3 DEF OdeAction, OdeReject, OdeConfirm, OdeStart, OdeStop, DsConfirm
  <2>2. CASE DlRequest
    <3>1. UNCHANGED <<alSvc, alLen>> /\ rwcmd' \in {rwcmd, "ISDUTRANSPORT"}
      BY <2>2 DEF DlRequest, DlParamReq, DlIsduReq, alVars
    <3>2. ShortCnf
      BY <1>2, <2>2 DEF DlRequest, DlParamReq, DlIsduReq, ShortCnf, NothingBehind, Results
    <3>3. {"ISDU_CNF", "WRITEPARAM_CNF"} \cap LongJobs = {}
      BY DEF LongJobs
    <3>4. \A j \in Jobs' : Short(j)
      BY <1>2, <3>2, <3>3, ShortCnfPosts, ShortKept
    <3> QED BY <1>2, <3>1, <3>4 DEF NothingBehind
  <2>3. CASE PortAction
    <3>1. UNCHANGED <<alSvc, alLen>> /\ rwcmd' \in {rwcmd, "READ"}
      BY <2>3 DEF PortAction, CmCfgChange, SmSetPortConfig, SmModeStartup, SmReadCnf, SmModeOperate,
                  SmModeComlost, SmModeInactive, CmOperate, CmComlost, PortStep, alVars
    <3>2. Posts(PortTypes) /\ PortTypes \cap LongJobs = {}
      BY <2>3, PortTypesPosted DEF PortTypes, PortDown, PortSignals, LongJobs
    <3>3. \A j \in Jobs' : Short(j)
      BY <1>2, <3>2, ShortKept
    <3> QED BY <1>2, <3>1, <3>3 DEF NothingBehind
  <2>4. CASE SMI_PortConfiguration_req \/ AL_Abort
    <3>1. UNCHANGED <<alSvc, alLen, rwcmd>>
      BY <2>4 DEF SMI_PortConfiguration_req, AL_Abort, alVars, dlVars
    <3>2. PICK type \in {"SMI_CFG", "AL_ABORT"} : Post(Signal(type))
      BY <2>4 DEF SMI_PortConfiguration_req, AL_Abort
    <3>3. Signal(type) \in Job /\ Signal(type).type = type
      BY PlainSignal
    <3>4. Posts({type}) /\ {type} \cap LongJobs = {}
      BY <3>2, <3>3, PostsOne DEF LongJobs
    <3>5. \A j \in Jobs' : Short(j)
      BY <1>2, <3>4, ShortKept
    <3> QED BY <1>2, <3>1, <3>5 DEF NothingBehind
  <2>5. ASSUME NEW r \in Reqs, NEW k \in Kinds, SMI_DeviceRW_req(r, k) PROVE LengthInv'
    <3>1. asked \in [Ids -> AllKinds \cup {"none"}] /\ r \in Ids
      BY DEF TypeInv, TypeOK, OdTypeOK, Ids
    <3>2. CASE k = "ReadParam"
      <4>1. asked'[r] = "ReadParam"
        BY <2>5, <3>1, <3>2 DEF SMI_DeviceRW_req
      <4> QED BY <3>1, <4>1 DEF ParamReadAsked
    <3>3. CASE k # "ReadParam"
      <4> DEFINE req == MkJob("SMI_RW", "ODE", r, k, "OK", "none")
      <4>1. req \in Job
        BY <3>1, OnRequestAssumption DEF Job, MkJob, JobTypes, Clients, Results, Tags
      <4>2. Short(req)
        BY <3>3 DEF Short, MkJob
      <4>3. Post(req) /\ UNCHANGED <<alSvc, alLen, rwcmd>>
        BY <2>5 DEF SMI_DeviceRW_req, alVars, dlVars
      <4> HIDE DEF req
      <4>4. Jobs' = Jobs \cup {req}
        BY <4>1, <4>3, PostOne, TypeFacts
      <4> QED BY <1>2, <4>2, <4>3, <4>4 DEF NothingBehind
    <3> QED BY <3>2, <3>3
  <2>6. ~ \E r \in DsReqs : DsRead(r)
    BY DEF OneClient
  <2> QED BY <1>2, <2>1, <2>2, <2>3, <2>4, <2>5, <2>6, DlLength, AlLength
          DEF Next, MainThread, Application, PortAction, OdeAction, AlRequest, AlConfirm, DlRequest
<1> QED BY <1>1, <1>2

(* A request that was not made yet has no positive answer. *)
AnswerInv ==
    /\ \A r \in Reqs : asked[r] = "none" => ans[r].res # "OK"
    /\ AnswerIsOwn

LEMMA AnswersKept ==
  ASSUME AnswerInv, UNCHANGED <<asked, ans>>, served \subseteq served'
  PROVE  AnswerInv'
  BY DEF AnswerInv, AnswerIsOwn

(* One more answer. *)
LEMMA OneMoreAnswer ==
  ASSUME TypeInv, AnswerInv, UNCHANGED <<asked, served>>, NEW r \in Reqs, NEW res, NEW val,
         NEW longer \in BOOLEAN, AnswerWith(r, res, val, longer),
         longer => ParamReadAsked,
         res = "OK" => /\ asked[r] # "none"
                       /\ asked[r] \in IsduKinds =>
                             IF asked[r] = "ReadIsdu" THEN val = r ELSE r \in served
  PROVE  AnswerInv'
<1>1. ans \in [Reqs -> Answers]
  BY DEF TypeInv, TypeOK, OdTypeOK
<1>2. /\ ans'[r].res = res /\ ans'[r].val = val /\ ans'[r].longer = longer
      /\ \A q \in Reqs : q # r => ans'[q] = ans[q]
  BY <1>1 DEF AnswerWith
<1> QED BY <1>2 DEF AnswerInv, AnswerIsOwn, ParamReadAsked

LEMMA OdeRejectAnswer ==
  ASSUME TypeInv, AnswerInv, OdeReject
  PROVE  AnswerInv'
<1>1. Head(mbox) \in Jobs /\ Head(mbox).type = "SMI_RW"
  BY HeadJob DEF OdeReject, Take
<1>2. Head(mbox).req \in Reqs
  BY <1>1 DEF TypeInv, JobsWellFormed, WellFormed
<1>3. UNCHANGED <<asked, served>>
  BY DEF OdeReject, appVars, dlVars
<1>4. PICK res \in {"BUSY", "ERR"} : AnswerWith(Head(mbox).req, res, "none", FALSE)
  BY DEF OdeReject, AnswerReq
<1> QED BY <1>2, <1>3, <1>4, OneMoreAnswer

LEMMA OdeAcceptAnswer ==
  ASSUME TypeInv, AnswerInv, OdeAccept
  PROVE  AnswerInv'
<1>1. Head(mbox) \in Jobs /\ Head(mbox).type = "SMI_RW"
  BY HeadJob DEF OdeAccept, Take
<1>2. Head(mbox).req \in Reqs
  BY <1>1 DEF TypeInv, JobsWellFormed, WellFormed
<1>3. UNCHANGED <<asked, served>>
  BY DEF OdeAccept, appVars, dlVars
<1>4. AnswerWith(Head(mbox).req, "ERR", "none", FALSE) \/ UNCHANGED ans
  BY DEF OdeAccept, AnswerReq
<1> QED BY <1>2, <1>3, <1>4, OneMoreAnswer, AnswersKept

(* What the application gets is what the confirmation of its request says. *)
LEMMA OdeConfirmAnswer ==
  ASSUME TypeInv, OneService, DataInv, LengthInv, AnswerInv, OdeConfirm
  PROVE  AnswerInv'
<1>1. Take("AL_CNF") /\ Head(mbox) \in Jobs /\ Head(mbox).type = "AL_CNF"
  BY HeadJob DEF OdeConfirm, Take
<1>2. UNCHANGED <<asked, served>>
  BY DEF OdeConfirm, appVars, dlVars
<1>3. ode = "ODblocked" /\ Mine(Head(mbox)) /\ odeReq \in Reqs
  BY <1>1 DEF OneService, AlJobs, TypeInv, JobsWellFormed
<1>4. asked[odeReq] # "none"
  <2>1. Head(mbox).kind \in AllKinds /\ "none" \notin AllKinds
    BY <1>1, HeadJob DEF Job, AllKinds, ReadKinds, WriteKinds
  <2> QED BY <1>3, <2>1 DEF Mine
<1>5. CASE AnswerReq(odeReq, "ERR", "none")
  BY <1>2, <1>3, <1>5, OneMoreAnswer DEF AnswerReq
<1>6. CASE /\ AnswerReq(odeReq, Head(mbox).res, "none")
           /\ Head(mbox).res # "OK" \/ asked[odeReq] \notin ReadKinds
  <2>1. Head(mbox).res = "OK" /\ asked[odeReq] \in IsduKinds => odeReq \in served
    BY <1>1, <1>3, <1>6 DEF DataInv, Mine, Own, ReadKinds, IsduKinds
  <2> QED BY <1>2, <1>3, <1>4, <1>6, <2>1, OneMoreAnswer DEF AnswerReq, ReadKinds
<1>7. CASE /\ Head(mbox).res = "OK"
           /\ asked[odeReq] \in ReadKinds
           /\ AnswerWith(odeReq, "OK", CopiedData, Head(mbox).val = "data_read_longer")
  <2>1. Head(mbox).val = "data_read_longer" => ParamReadAsked
    BY <1>1 DEF LengthInv, NothingBehind, Short
  <2>2. asked[odeReq] \in IsduKinds => asked[odeReq] = "ReadIsdu" /\ CopiedData = odeReq
    <3> SUFFICES ASSUME asked[odeReq] \in IsduKinds
                 PROVE  asked[odeReq] = "ReadIsdu" /\ CopiedData = odeReq
      OBVIOUS
    <3>1. asked[odeReq] = "ReadIsdu" /\ Head(mbox).kind = "ReadIsdu" /\ Head(mbox).req = odeReq
      BY <1>3, <1>7 DEF ReadKinds, IsduKinds, Mine
    <3>2. Head(mbox).val \in Pointers /\ Own(Head(mbox).kind, Head(mbox).req, alData)
      BY <1>1, <1>7, <3>1 DEF DataInv, IsduKinds
    <3> QED BY <3>1, <3>2 DEF Own, CopiedData
  <2>3. "OK" = "OK" => /\ asked[odeReq] # "none"
                       /\ asked[odeReq] \in IsduKinds =>
                             IF asked[odeReq] = "ReadIsdu" THEN CopiedData = odeReq ELSE odeReq \in served
    BY <1>4, <2>2
  <2>4. CASE Head(mbox).val = "data_read_longer"
    <3>1. AnswerWith(odeReq, "OK", CopiedData, TRUE)
      BY <1>7, <2>4 DEF AnswerWith
    <3> QED BY <1>2, <1>3, <2>1, <2>3, <2>4, <3>1, OneMoreAnswer
  <2>5. CASE Head(mbox).val # "data_read_longer"
    <3>1. AnswerWith(odeReq, "OK", CopiedData, FALSE)
      BY <1>7, <2>5 DEF AnswerWith
    <3> QED BY <1>2, <1>3, <2>3, <3>1, OneMoreAnswer
  <2> QED BY <2>4, <2>5
<1>8. CASE Head(mbox).res = "OK" /\ asked[odeReq] \in ReadKinds
  <2>1. \/ AnswerWith(odeReq, "OK", CopiedData, Head(mbox).val = "data_read_longer")
        \/ AnswerReq(odeReq, "ERR", "none")
    BY <1>3, <1>8, Zenon DEF OdeConfirm
  <2> QED BY <1>5, <1>7, <1>8, <2>1, Zenon
<1>9. CASE ~(Head(mbox).res = "OK" /\ asked[odeReq] \in ReadKinds)
  <2>1. AnswerReq(odeReq, Head(mbox).res, "none")
    BY <1>3, <1>9, Zenon DEF OdeConfirm
  <2>2. Head(mbox).res # "OK" \/ asked[odeReq] \notin ReadKinds
    BY <1>9
  <2> QED BY <1>6, <2>1, <2>2
<1> QED BY <1>8, <1>9

LEMMA RequestAnswer ==
  ASSUME TypeInv, AnswerInv, NEW r \in Reqs, NEW k \in Kinds, SMI_DeviceRW_req(r, k)
  PROVE  AnswerInv'
<1>1. asked[r] = "none" /\ asked' = [asked EXCEPT ![r] = k] /\ UNCHANGED <<ans, served>>
  BY DEF SMI_DeviceRW_req, odeVars, dlVars
<1>2. asked \in [Ids -> AllKinds \cup {"none"}] /\ Reqs \subseteq Ids
  BY DEF TypeInv, TypeOK, OdTypeOK, Ids
<1>3. \A q \in Reqs : q # r => asked'[q] = asked[q]
  BY <1>1, <1>2
<1>4. ans[r].res # "OK"
  BY <1>1 DEF AnswerInv
<1>5. \A q \in Reqs : asked'[q] = "none" => ans'[q].res # "OK"
  BY <1>1, <1>3, <1>4 DEF AnswerInv
<1>6. AnswerIsOwn'
  BY <1>1, <1>3, <1>4 DEF AnswerInv, AnswerIsOwn
<1> QED BY <1>5, <1>6 DEF AnswerInv

LEMMA NextAnswers ==
  ASSUME OneClient, TypeInv, OneService, DataInv, LengthInv, AnswerInv, served \subseteq served', Next
  PROVE  AnswerInv'
<1>1. CASE OdeStart \/ OdeStop \/ DsConfirm \/ AlRequest \/ AlConfirm \/ DlRequest
  <2>1. UNCHANGED <<asked, ans>>
    BY <1>1, AlConfirmSteps
       DEF OdeStart, OdeStop, DsConfirm, AlRequest, AlBusy, AlArgErr, AlParam, AlIsdu, DlRequest,
           DlParamReq, DlIsduReq, odeVars, appVars
  <2> QED BY <2>1, AnswersKept
<1>2. CASE PortAction
  <2>1. UNCHANGED <<asked, ans>>
    BY <1>2 DEF PortAction, CmCfgChange, SmSetPortConfig, SmModeStartup, SmReadCnf, SmModeOperate,
                SmModeComlost, SmModeInactive, CmOperate, CmComlost, PortStep, odeVars, appVars
  <2> QED BY <2>1, AnswersKept
<1>3. CASE DlStep
  <2>1. UNCHANGED <<asked, ans>>
    BY <1>3, DlKinds DEF odeVars, appVars
  <2> QED BY <2>1, AnswersKept
<1>4. CASE SMI_PortConfiguration_req \/ AL_Abort
  <2>1. UNCHANGED <<asked, ans>>
    BY <1>4 DEF SMI_PortConfiguration_req, AL_Abort, odeVars
  <2> QED BY <2>1, AnswersKept
<1>5. ~ \E r \in DsReqs : DsRead(r)
  BY DEF OneClient
<1> QED BY <1>1, <1>2, <1>3, <1>4, <1>5, OdeRejectAnswer, OdeAcceptAnswer, OdeConfirmAnswer,
           RequestAnswer
       DEF Next, MainThread, Application, PortAction, AlRequest, AlConfirm, DlRequest

-----------------------------------------------------------------------------
(* All parts together.                                                     *)

AnswersInv ==
    Control /\ NotYet /\ OneService /\ OneConfirmation /\ Window /\ DataInv /\ LengthInv /\ AnswerInv

LEMMA InitAnswers == Init => AnswersInv
<1> SUFFICES ASSUME Init PROVE AnswersInv
  OBVIOUS
<1>1. Jobs = {} /\ mbox = <<>>
  BY NoJobs DEF Init, JobsInit, Jobs
<1>2. \A T : ~Has(T)
  BY <1>1 DEF Has
<1>3. \A A, B : Order(A, B)
  BY <1>1, ShortOrder DEF Order
<1>4. NotYet
  BY <1>2 DEF Init, DlInit, NotYet
<1>5. OneService
  BY <1>1, <1>2, <1>3 DEF Init, JobsInit, OneService, Sole, NoCall
<1>6. OneConfirmation
  BY <1>2, <1>3 DEF Init, DlInit, OneConfirmation, Sole, Held, Carries
<1>7. DataInv
  BY <1>1 DEF DataInv
<1>8. AnswerInv
  <2>1. \A r \in Reqs : ans[r].res = "none"
    BY DEF Init
  <2> QED BY <2>1 DEF AnswerInv, AnswerIsOwn
<1>9. Window /\ LengthInv
  BY <1>1 DEF Init, JobsInit, DlInit, Window, CycleClears, Clears, LengthInv, NothingBehind
<1> QED BY <1>4, <1>5, <1>6, <1>7, <1>8, <1>9, InitControl DEF AnswersInv

LEMMA StutterAnswers ==
  ASSUME AnswersInv, UNCHANGED vars
  PROVE  AnswersInv'
<1>1. UNCHANGED <<mbox, alState, alSvc, alData, alLen, dlCall, ode, odeReq, ans, asked, cfgs, sm>>
  BY DEF vars, alVars, odeVars, portVars, appVars
<1>2. UNCHANGED <<mdh, dlMode, mhinfo, mdhEv, mh, isdu, isduReq, totSeg, rwcmd, served, dlPc>>
  BY DEF vars, dlVars
<1>3. Jobs' = Jobs /\ (\A T : Has(T)' <=> Has(T)) /\ (\A A, B : Order(A, B)' <=> Order(A, B))
  BY <1>1 DEF Jobs, Has, Order
<1>4. Control'
  BY <1>1, <1>2, <1>3 DEF AnswersInv, Control, ConfigInv, Sole, ModeInv, Unconfigured, Opening,
                          PortQuiet
<1>5. NotYet'
  BY <1>1, <1>2, <1>3 DEF AnswersInv, NotYet, Starting, Unconfigured
<1>6. OneService'
  BY <1>1, <1>3 DEF AnswersInv, OneService, Sole, Mine
<1>7. OneConfirmation'
  BY <1>1, <1>2, <1>3 DEF AnswersInv, OneConfirmation, Sole, Held, Carries, Confirmed
<1>8. DataInv'
  BY <1>1, <1>2, <1>3 DEF AnswersInv, DataInv, Own
<1>9. AnswerInv'
  BY <1>1, <1>2, AnswersKept DEF AnswersInv
<1>10. Window' /\ LengthInv'
  BY <1>1, <1>2, <1>3 DEF AnswersInv, Window, LengthInv, ParamReadAsked, NothingBehind
<1> QED BY <1>4, <1>5, <1>6, <1>7, <1>8, <1>9, <1>10 DEF AnswersInv

LEMMA NextAnswersInv ==
  ASSUME OneClient, TypeInv, AnswersInv, [Next]_vars
  PROVE  AnswersInv'
<1>1. CASE Next
  <2>1. /\ Control /\ NotYet /\ OneService /\ OneConfirmation /\ Window
        /\ DataInv /\ LengthInv /\ AnswerInv
    BY DEF AnswersInv
  <2>2. Control'
    BY <1>1, <2>1, NextControl
  <2>3. dlCall = "isdu" => ode = "ODblocked"
    BY <2>1 DEF OneService
  <2>4. NotYet'
    BY <1>1, <2>1, <2>2, <2>3, NextNotYet
  <2>5. OneService' /\ OneConfirmation'
    BY <1>1, <2>1, NextService, NextConfirmation
  <2>6. DataInv' /\ served \subseteq served'
    BY <1>1, <2>1, <2>5, NextData
  <2>7. AnswerInv'
    BY <1>1, <2>1, <2>6, NextAnswers
  <2>8. Window' /\ LengthInv'
    BY <1>1, <2>1, NextWindow, NextLength
  <2> QED BY <2>2, <2>4, <2>5, <2>6, <2>7, <2>8 DEF AnswersInv
<1>2. CASE UNCHANGED vars
  BY <1>2, StutterAnswers
<1> QED BY <1>1, <1>2

LEMMA AnswersInvariance == OneClient => (Spec => []AnswersInv)
<1> SUFFICES ASSUME OneClient PROVE Spec => []AnswersInv
  OBVIOUS
<1>1. TypeInv /\ AnswersInv /\ [Next]_vars => AnswersInv'
  BY NextAnswersInv
<1> QED BY <1>1, InitAnswers, TypeInvariance, PTL DEF Spec

(* The ISDU handler of the DL (iolink_dl.c) confirms a transfer to the AL  *)
(* while the AL waits for it and only once, whatever direct parameters,    *)
(* retries, receive errors, events and losses of communication there were: *)
(* al_dl_isdu_transport_cnf_cb never meets the service of another request. *)
THEOREM ConfirmedOnce == OneClient => (Spec => []NoStrayConfirmation)
<1> SUFFICES ASSUME OneClient PROVE Spec => []NoStrayConfirmation
  OBVIOUS
<1>1. TypeInv /\ AnswersInv => NoStrayConfirmation
  <2> SUFFICES ASSUME TypeInv, AnswersInv, NEW i \in 1 .. Len(mbox), mbox[i].type = "ISDU_CNF"
               PROVE  /\ alState = "Await_DL_ISDU_cnf"
                      /\ \A j \in 1 .. Len(mbox) : mbox[j].type = "ISDU_CNF" => j = i
    BY DEF NoStrayConfirmation
  <2>1. NotAfter(mbox, IsduCnf, IsduCnf) /\ (Has(IsduCnf) => alState = "Await_DL_ISDU_cnf")
    BY DEF AnswersInv, OneConfirmation, Sole, Order
  <2>2. mbox[i] \in Jobs
    BY TypeFacts, RangeEquality DEF Jobs
  <2>3. alState = "Await_DL_ISDU_cnf"
    BY <2>1, <2>2 DEF Has, IsduCnf
  <2>4. \A j \in 1 .. Len(mbox) : mbox[j].type = "ISDU_CNF" => i <= j /\ j <= i
    BY <2>1 DEF NotAfter, IsduCnf
  <2>5. Len(mbox) \in Nat
    BY TypeFacts
  <2> QED BY <2>3, <2>4, <2>5
<1> QED BY <1>1, TypeInvariance, AnswersInvariance, PTL

(* A positive answer that iolink_smi_cnf hands to the application for an   *)
(* ISDU request (ode_read_cnf_cb, ode_write_cnf_cb) is the answer to that  *)
(* request: the data read are the device's for it although the AL hands    *)
(* over a pointer into its own service record, and what was written has    *)
(* reached the device.                                                     *)
THEOREM AnswersAreOwn == OneClient => (Spec => []AnswerIsOwn)
<1> SUFFICES ASSUME OneClient PROVE Spec => []AnswerIsOwn
  OBVIOUS
<1>1. AnswersInv => AnswerIsOwn
  BY DEF AnswersInv, AnswerInv
<1> QED BY <1>1, AnswersInvariance, PTL

-----------------------------------------------------------------------------
(* No service is lost: without a loss of communication the port stays in   *)
(* OPERATE, and what the DL was asked to do it does.                       *)

(* There are no more receive errors than retries, and the main thread does *)
(* not run between the steps of a handler of the DL thread.                *)
NoLoss == OneClient /\ MaxErrors <= MaxRetry /\ ~Parallel

ReadJobs  == {"MODE_STARTUP", "DL_READ_CNF"}
ParamCmds == {"READPARAM", "WRITEPARAM"}

(* The start-up reads the device once. *)
ReadInv ==
    /\ Sole(ReadJobs)
    /\ rwcmd = "READ" => ~Has(ReadJobs) /\ dlMode # "OPERATE"
    /\ Unconfigured \/ Opening => rwcmd # "READ"
    /\ \A j \in Jobs : j.type = "DL_READ_CNF" /\ j.res = "OK" => mhinfo = "NONE"

NoLossInv ==
    /\ dlMode = "OPERATE" => mhinfo = "NONE"
    /\ dlPc # "comlost"
    /\ retry <= errs
    /\ mh = "ERRORHANDLING_10" => retry < errs

NotLost ==
    /\ alState = "Await_DL_ISDU_cnf" =>
          Has(IsduCnf) \/ Loaded \/ (dlCall = "isdu" /\ isdu # "INACTIVE_0")
    /\ alState = "Await_DL_param_cnf" => Has(ParamCnfs) \/ rwcmd \in ParamCmds

(* The ISDU handler neither gives commands nor goes out of service.        *)
LEMMA OdCommand ==
  ASSUME OdMaster \/ \E flag \in BOOLEAN : OdDevice(flag)
  PROVE  rwcmd' \in {rwcmd, "NONE"} /\ (isdu # "INACTIVE_0" => isdu' # "INACTIVE_0")
<1>1. CASE IsduQuiet \/ \E m : NextMessage(m)
  BY <1>1 DEF IsduQuiet, NextMessage
<1>2. CASE IsduMaster
  BY <1>2 DEF IsduMaster, IsduMasterIdle, NextMessage, IsduError4, After
<1>3. CASE IsduDeviceIdle \/ IsduDeviceRequest
  BY <1>3 DEF IsduDeviceIdle, IsduDeviceRequest, IsduQuiet, After
<1>4. CASE IsduDeviceWait \/ IsduDeviceResponse
  BY <1>4 DEF IsduDeviceWait, IsduDeviceResponse, IsduQuiet, EnterIsduError4, ReceptionComplete,
                    After
<1>5. CASE IsduError4 \/ EnterIsduError4
  BY <1>5 DEF IsduError4, EnterIsduError4, After
<1> QED BY <1>1, <1>2, <1>3, <1>4, <1>5 DEF OdMaster, OdDevice, IsduDevice

LEMMA CycleNoLoss ==
  ASSUME NoLoss, TypeInv, Control, NoLossInv, CycleStep
  PROVE  /\ NoLossInv' /\ UNCHANGED mhinfo
         /\ rwcmd' \in {rwcmd, "NONE"} /\ (isdu # "INACTIVE_0" => isdu' # "INACTIVE_0")
         /\ (IsduStep /\ (IsduConfirms => Held)) \/ (NotRun /\ UNCHANGED rwcmd)
<1>1. /\ errs \in Nat /\ retry \in Nat /\ MaxErrors \in Nat /\ MaxRetry \in Nat
      /\ retry <= errs /\ errs <= MaxErrors /\ MaxErrors <= MaxRetry
  BY DlAssumption DEF TypeInv, TypeOK, DlTypeOK, NoLossInv, NoLoss
<1>2. CASE OdActions
  <2>1. UNCHANGED <<dlMode, mhinfo, errs>> /\ retry' \in {retry, 0} /\ mh' # "ERRORHANDLING_10"
        /\ dlPc' \in {dlPc, "master", "wait"}
    BY <1>2 DEF OdActions, DlReply, DlNextMessage, DlSendWriteParam, DlReply9, DlGetOd7,
                DlFirstMessage, ClearFirst, NoLoss, modeVars, boundVars, TypeInv, RetryBounded
  <2>2. OdMaster \/ \E flag \in BOOLEAN : OdDevice(flag)
    BY <1>2 DEF OdActions, DlReply, DlNextMessage, DlSendWriteParam, DlReply9, DlGetOd7,
                DlFirstMessage
  <2>3. NoLossInv'
    BY <1>1, <2>1 DEF NoLossInv
  <2> QED BY <1>2, <2>1, <2>2, <2>3, OdActionsStep, OdCommand
<1>3. CASE RxFailures \/ IsduTimer
  <2>1. UNCHANGED <<dlMode, mhinfo, rwcmd, isdu, dlPc>> /\ NoLossInv'
    <3>1. ~DlComLost
      BY DEF DlComLost, NoLossInv, NoLoss, TypeInv, RetryBounded, Clears
    <3>2. CASE DlRxError16
      <4>1. retry < MaxRetry /\ errs' = errs + 1 /\ InCycle
        BY <1>1, <3>2 DEF DlRxError16, RxError
      <4>2. UNCHANGED <<dlMode, mhinfo, rwcmd, isdu>> /\ dlPc' = "wait" /\ retry' = retry + 1
            /\ mh' = "AW_REPLY_16"
        BY <1>1, <3>2, <4>1 DEF DlRxError16, modeVars, isduVars
      <4> QED BY <1>1, <4>1, <4>2 DEF NoLossInv, InCycle
    <3>3. CASE DlRxError9
      <4>1. UNCHANGED <<dlMode, mhinfo, rwcmd, isdu, dlPc, retry>> /\ errs' = errs + 1
        BY <3>3 DEF DlRxError9, modeVars, isduVars, RxError
      <4> QED BY <1>1, <4>1 DEF NoLossInv
    <3>4. CASE DlErrorHandling10
      <4>1. retry < errs /\ retry < MaxRetry
        BY <1>1, <3>4 DEF DlErrorHandling10, NoLossInv
      <4>2. UNCHANGED <<dlMode, mhinfo, rwcmd, isdu, dlPc, errs>> /\ mh' = "AW_REPLY_9"
            /\ retry' = retry + 1
        BY <1>1, <3>4, <4>1 DEF DlErrorHandling10, modeVars, isduVars, boundVars
      <4> QED BY <1>1, <4>1, <4>2 DEF NoLossInv
    <3>5. CASE IsduTimer
      BY <3>5 DEF IsduTimer, modeVars, boundVars, NoLossInv
    <3> QED BY <1>3, <3>1, <3>2, <3>3, <3>4, <3>5 DEF RxFailures
  <2>2. UNCHANGED <<alData, alLen, isdu, isduReq, totSeg, served>>
    BY <1>3, <2>1 DEF RxFailures, DlRxError16, DlRxError9, DlComLost, DlErrorHandling10, IsduTimer,
                isduVars
  <2>3. UNCHANGED mbox \/ \E type \in ParamCnfs : Post(DlCnf(type, "ERR", "none"))
    BY <1>3 DEF RxFailures, DlRxError16, DlRxError9, DlComLost, DlErrorHandling10, IsduTimer,
                ParamCnfs
  <2>4. \A type \in ParamCnfs :
          DlCnf(type, "ERR", "none") \in Job /\ DlCnf(type, "ERR", "none").type = type
    BY CnfJob DEF DlCnfTypes, Results, Tags, ParamCnfs
  <2>5. NotRun
    BY <2>1, <2>2, <2>3, <2>4 DEF NotRun
  <2> QED BY <2>1, <2>5
<1>4. ~DlClear
  BY DEF DlClear, NoLoss, TypeInv, RetryBounded
<1> QED BY <1>2, <1>3, <1>4 DEF CycleStep

-----------------------------------------------------------------------------
LEMMA OpeningKept ==
  ASSUME OneClient, TypeInv, Control, Next, Unconfigured' \/ Opening'
  PROVE  Unconfigured \/ Opening
<1>1. CASE Unconfigured'
  BY <1>1, UnconfiguredKept
<1>2. CASE DlStep
  <2>1. CASE CycleStep
    BY <1>1, <2>1, CycleSteps DEF Opening
  <2>2. CASE DlModeHandler
    BY <1>1, <2>2, ModeHandlerSteps DEF Opening, GivesUp, Operates, Looks, ConfirmsLost
  <2>3. CASE StartupAction
    <3>1. CASE DlWurq
      BY <3>1 DEF DlWurq, Opening
    <3>2. CASE DlStartupReply
      <4>1. mdh = "STARTUP_2" /\ UNCHANGED mdh
        BY <3>2 DEF DlStartupReply, Control, ModeInv
      <4> QED BY <1>1, <4>1 DEF Opening
    <3> QED BY <2>3, <3>1, <3>2 DEF StartupAction
  <2> QED BY <1>2, <2>1, <2>2, <2>3, DlKinds
<1>3. CASE SmSetPortConfig
  BY <1>3, HeadHas DEF SmSetPortConfig, CfgJobs, Unconfigured
<1>4. CASE PortAction /\ ~SmSetPortConfig
  <2>1. UNCHANGED mdh /\ (UNCHANGED <<dlMode, mdhEv>> \/ dlMode' \in {"OPERATE", "INACTIVE"})
    BY <1>4 DEF PortAction, CmCfgChange, SmModeStartup, SmReadCnf, SmModeOperate,
                SmModeComlost, SmModeInactive, CmOperate, CmComlost, SmComlost, SmIgnore, PortStep,
                ModeUnchanged, DL_SetMode_req
  <2> QED BY <1>1, <2>1 DEF Opening
<1>5. CASE OdeAction \/ AlRequest \/ AlConfirm \/ DlRequest
  BY <1>1, <1>5, ServiceUnchanged DEF Opening
<1>6. CASE Application
  <2>1. UNCHANGED <<mdh, dlMode, mdhEv>>
    BY <1>6 DEF Application, SMI_DeviceRW_req, SMI_PortConfiguration_req, AL_Abort, DsRead, dlVars
  <2> QED BY <1>1, <2>1 DEF Opening
<1> QED BY <1>2, <1>3, <1>4, <1>5, <1>6
       DEF Next, MainThread, PortAction, OdeAction, AlRequest, AlConfirm, DlRequest

LEMMA ReadKept ==
  ASSUME TypeInv, ReadInv, NEW P, Posts(P), P \cap ReadJobs = {},
         rwcmd' = "READ" => rwcmd = "READ", mhinfo' \in {mhinfo, "NONE"},
         dlMode' = "OPERATE" => dlMode = "OPERATE" \/ rwcmd # "READ",
         Unconfigured' \/ Opening' => Unconfigured \/ Opening
  PROVE  ReadInv'
<1>1. ReadJobs \cap P = {}
  OBVIOUS
<1>2. (Has(ReadJobs)' => Has(ReadJobs)) /\ Order(ReadJobs, ReadJobs)'
  BY <1>1, PostsKeep DEF ReadInv, Sole
<1>3. \A j \in Jobs' : j.type = "DL_READ_CNF" => j \in Jobs
  BY <1>1, PostsOld DEF ReadJobs
<1>4. Sole(ReadJobs)'
  BY <1>2 DEF Sole
<1>5. rwcmd' = "READ" => ~Has(ReadJobs)' /\ dlMode' # "OPERATE"
  BY <1>2 DEF ReadInv
<1>6. Unconfigured' \/ Opening' => rwcmd' # "READ"
  BY DEF ReadInv
<1>7. \A j \in Jobs' : j.type = "DL_READ_CNF" /\ j.res = "OK" => mhinfo' = "NONE"
  BY <1>3 DEF ReadInv
<1> QED BY <1>4, <1>5, <1>6, <1>7 DEF ReadInv

(* The port control but for the read of the device. *)
LEMMA PortRead ==
  ASSUME TypeInv, Control, ReadInv, PortAction, ~SmModeStartup,
         Unconfigured' \/ Opening' => Unconfigured \/ Opening
  PROVE  ReadInv'
<1>1. Posts(PortSignals \cup {"OD_STOP", "SM_CFG"})
  <2>1. CASE CmCfgChange
    BY <2>1, CfgChangePosts, PostsMore
  <2>2. CASE ~CmCfgChange
    <3>1. mbox # <<>> /\ (TakeAndPost(<<>>) \/ \E t \in PortSignals : TakeAndPost(<<Signal(t)>>))
      BY <2>2 DEF PortAction, SmSetPortConfig, SmReadCnf, SmModeOperate, SmModeComlost,
                  SmModeInactive, CmOperate, CmComlost, SmComlost, SmIgnore, Take, PortSignals
    <3> QED BY <3>1, PortSignalPosts, PostsMore
  <2> QED BY <2>1, <2>2
<1>2. (PortSignals \cup {"OD_STOP", "SM_CFG"}) \cap ReadJobs = {}
  BY DEF PortSignals, ReadJobs
<1>3. UNCHANGED <<rwcmd, mhinfo>>
  BY DEF PortAction, CmCfgChange, SmSetPortConfig, SmReadCnf, SmModeOperate, SmModeComlost,
         SmModeInactive, CmOperate, CmComlost, PortStep
<1>4. dlMode' = "OPERATE" => dlMode = "OPERATE" \/ rwcmd # "READ"
  <2>1. SmReadCnf => rwcmd # "READ"
    BY HeadHas DEF SmReadCnf, ReadJobs, ReadInv
  <2> QED
    BY <2>1 DEF PortAction, CmCfgChange, SmSetPortConfig, SmModeOperate, SmModeComlost,
                SmModeInactive, CmOperate, CmComlost, SmComlost, SmIgnore, ModeUnchanged,
                DL_SetMode_req
<1> QED BY <1>1, <1>2, <1>3, <1>4, ReadKept

LEMMA ModeStartupRead ==
  ASSUME TypeInv, Control, ReadInv, SmModeStartup,
         Unconfigured' \/ Opening' => Unconfigured \/ Opening
  PROVE  ReadInv'
<1>1. Take("MODE_STARTUP") /\ UNCHANGED <<dlMode, mhinfo>> /\ rwcmd' \in {rwcmd, "READ"}
  BY DEF SmModeStartup, PortStep, ModeUnchanged
<1>2. "MODE_STARTUP" \in ReadJobs /\ Order(ReadJobs, ReadJobs)
  BY DEF ReadJobs, ReadInv, Sole
<1>3. rwcmd # "READ" /\ ~Unconfigured /\ ~Opening
  <2>1. "MODE_STARTUP" \in DownJobs
    BY DEF DownJobs
  <2> QED BY <1>1, <1>2, <2>1, Down, HeadHas DEF ReadInv
<1>4. CASE TakeAndPost(<<>>)
  <2>1. <<>> \in Seq(Job) /\ Range(<<>>) = {}
    BY NoJobs
  <2>2. \A j \in Range(<<>>) : j.type \notin ReadJobs
    BY <2>1
  <2>3. ~Has(ReadJobs)'
    BY <1>1, <1>2, <1>4, <2>1, <2>2, TakeSole
  <2>4. Sole(ReadJobs)'
    BY <1>1, <1>2, <1>4, <2>1, ShortOrder, TakeSole DEF Sole
  <2>5. rwcmd' = "READ" => dlMode # "OPERATE"
    BY <1>3 DEF SmModeStartup, Control, ModeInv
  <2>6. \A j \in Jobs' : j.type # "DL_READ_CNF"
    BY <2>3 DEF Has, ReadJobs
  <2> QED BY <1>1, <1>3, <2>3, <2>4, <2>5, <2>6 DEF ReadInv
<1>5. CASE TakeAndPost(<<DlCnf("DL_READ_CNF", "ERR", "none")>>) /\ UNCHANGED rwcmd
  <2> DEFINE cnf == DlCnf("DL_READ_CNF", "ERR", "none")
  <2>1. cnf \in Job /\ cnf.type = "DL_READ_CNF" /\ cnf.res = "ERR"
    BY DlCnfWellFormed DEF Results, DlCnf, MkJob
  <2>2. TakeAndPost(<<cnf>>)
    BY <1>5
  <2> HIDE DEF cnf
  <2>3. <<cnf>> \in Seq(Job) /\ Range(<<cnf>>) = {cnf}
    BY <2>1, OneJob
  <2>4. Sole(ReadJobs)'
    BY <1>1, <1>2, <2>2, <2>3, ShortOrder, TakeSole DEF Sole
  <2>5. \A j \in Jobs' : j \in Jobs \/ j = cnf
    BY <1>1, <2>2, <2>3, MovesJobs DEF Moves, Take
  <2>6. \A j \in Jobs' : j.type = "DL_READ_CNF" /\ j.res = "OK" => mhinfo' = "NONE"
    BY <1>1, <2>1, <2>5 DEF ReadInv
  <2> QED BY <1>3, <1>5, <2>4, <2>6 DEF ReadInv
<1> QED BY <1>4, <1>5 DEF SmModeStartup

LEMMA StartupRead ==
  ASSUME TypeInv, Control, ReadInv, NoLossInv, StartupAction,
         Unconfigured' \/ Opening' => Unconfigured \/ Opening
  PROVE  ReadInv' /\ NoLossInv'
<1>1. UNCHANGED <<dlMode, retry, dlPc>> /\ rwcmd' \in {rwcmd, "NONE"}
  BY StartupSteps DEF StartupAction, DlWurq, DlStartupReply
<1>2. errs \in Nat /\ errs' \in {errs, errs + 1} /\ retry \in Nat
  BY DEF StartupAction, DlWurq, DlStartupReply, RxError, TypeInv, TypeOK, DlTypeOK
<1>3. PICK j \in Job :
               /\ Post(j)
               /\ \/ /\ DlWurq /\ mdh = "ESTCOM_1" /\ UNCHANGED mdhEv
                     /\ \/ /\ j.type = "MODE_STARTUP"
                           /\ mdh' = "STARTUP_2" /\ mh' = "STARTUP_2" /\ UNCHANGED mhinfo
                        \/ /\ j.type = "MODE_INACTIVE"
                           /\ mdh' = "IDLE_0" /\ mhinfo' = "NONE" /\ UNCHANGED mh
                  \/ /\ DlStartupReply /\ mh = "STARTUP_2" /\ UNCHANGED mdh
                     /\ j.type = "DL_READ_CNF"
                     /\ \/ j.res = "OK" /\ UNCHANGED <<mhinfo, mdhEv, mh>>
                        \/ mhinfo' = "COMLOST" /\ mh' = "INACTIVE_0"
  BY StartupSteps
<1>4. ~Has(ReadJobs) /\ rwcmd' # "READ"
  <2>1. CASE DlWurq
    <3>1. Opening
      BY <2>1 DEF DlWurq, Opening
    <3>2. ~Has(DownJobs) /\ rwcmd # "READ"
      BY <3>1 DEF Control, ModeInv, PortQuiet, ReadInv
    <3> QED BY <1>1, <3>2 DEF Has, DownJobs, ReadJobs
  <2>2. CASE DlStartupReply
    BY <2>2 DEF DlStartupReply, ReadInv
  <2> QED BY <2>1, <2>2 DEF StartupAction
<1>5. <<j>> \in Seq(Job) /\ Moves(<<j>>) /\ NotAfter(<<j>>, ReadJobs, ReadJobs)
  BY <1>3, OneJob, PostOne, ShortOrder, TypeFacts DEF Moves
<1>6. Sole(ReadJobs)'
  <2>1. Order(ReadJobs, ReadJobs)'
    BY <1>4, <1>5, MovesOrder DEF ReadInv, Sole
  <2> QED BY <2>1 DEF Sole
<1>7. \A k \in Jobs' : k.type = "DL_READ_CNF" /\ k.res = "OK" => mhinfo' = "NONE"
  <2>1. \A k \in Jobs' : k.type = "DL_READ_CNF" => k = j
    <3>1. Jobs' = Jobs \cup {j}
      BY <1>3, PostOne, TypeFacts
    <3> QED BY <1>4, <3>1 DEF Has, ReadJobs
  <2>2. mh = "STARTUP_2" => mhinfo = "NONE"
    BY DEF Control, ModeInv, TypeInv, TypeOK, DlTypeOK
  <2>3. ASSUME j.type = "DL_READ_CNF", j.res = "OK" PROVE mhinfo' = "NONE"
    <3>1. DlStartupReply /\ mh = "STARTUP_2"
      BY <1>3, <2>3
    <3>2. UNCHANGED mhinfo
      <4>1. mbox' = Append(mbox, j) /\ mbox \in Seq(Job) /\ mbox'[Len(mbox) + 1] = j
        BY <1>3, TypeFacts, AppendProperties DEF Post
      <4>2. CASE Post(DlCnf("DL_READ_CNF", "ERR", "none"))
        <5>1. DlCnf("DL_READ_CNF", "ERR", "none") \in Job /\ DlCnf("DL_READ_CNF", "ERR", "none").res = "ERR"
          BY DlCnfWellFormed DEF Results, DlCnf, MkJob
        <5>2. mbox'[Len(mbox) + 1] = DlCnf("DL_READ_CNF", "ERR", "none")
          BY <4>1, <4>2, <5>1, AppendProperties DEF Post
        <5> QED BY <2>3, <4>1, <5>1, <5>2
      <4> QED BY <3>1, <4>2 DEF DlStartupReply
    <3> QED BY <2>2, <3>1, <3>2
  <2> QED BY <2>1, <2>3
<1>8. ReadInv'
  BY <1>4, <1>6, <1>7 DEF ReadInv
<1>9. dlMode' = "OPERATE" => mhinfo' = "NONE"
  <2>1. CASE DlWurq
    BY <1>1, <1>3, <2>1 DEF NoLossInv, DlWurq, Opening, Control, ModeInv
  <2>2. CASE DlStartupReply
    BY <1>1, <2>2 DEF DlStartupReply, ReadInv
  <2> QED BY <2>1, <2>2 DEF StartupAction
<1>10. mh' \in {mh, "STARTUP_2", "INACTIVE_0"}
  BY <1>3
<1>11. NoLossInv'
  BY <1>1, <1>2, <1>9, <1>10 DEF NoLossInv
<1> QED BY <1>8, <1>11

LEMMA ModeHandlerRead ==
  ASSUME NoLoss, TypeInv, Control, ReadInv, NoLossInv, DlModeHandler,
         Unconfigured' \/ Opening' => Unconfigured \/ Opening
  PROVE  ReadInv' /\ NoLossInv'
<1>1. UNCHANGED <<rwcmd, retry, errs>>
      /\ (GivesUp("MODE_COMLOST") \/ GivesUp("MODE_INACTIVE") \/ Operates \/ Looks)
  BY ModeHandlerSteps DEF ConfirmsLost, ConfirmsFirst, NoLoss
<1>2. UNCHANGED dlMode /\ mhinfo' \in {mhinfo, "NONE"}
      /\ mh' \in {mh, "INACTIVE_0", "OPERATE_12"} /\ dlPc' \in {dlPc, "wait"}
  BY <1>1 DEF GivesUp, Operates, Looks
<1>3. Posts({"MODE_OPERATE", "MODE_COMLOST", "MODE_INACTIVE", "ISDU_CNF"})
  <2>1. CASE Operates
    <3>1. Signal("MODE_OPERATE") \in Job /\ Signal("MODE_OPERATE").type = "MODE_OPERATE"
      BY SignalIsDlJob DEF DlJob, Signal, MkJob
    <3>2. Posts({"MODE_OPERATE"})
      BY <2>1, <3>1, PostsOne DEF Operates
    <3> QED BY <3>2, PostsMore
  <2> QED BY <1>1, <2>1, ModeHandlerPosts, PostsMore
<1>4. {"MODE_OPERATE", "MODE_COMLOST", "MODE_INACTIVE", "ISDU_CNF"} \cap ReadJobs = {}
  BY DEF ReadJobs
<1>5. ReadInv'
  BY <1>1, <1>2, <1>3, <1>4, ReadKept
<1>6. NoLossInv'
  BY <1>1, <1>2 DEF NoLossInv
<1> QED BY <1>5, <1>6

LEMMA NextRead ==
  ASSUME NoLoss, TypeInv, Control, ReadInv, NoLossInv, Next
  PROVE  ReadInv' /\ NoLossInv'
<1>1. OneClient /\ (Unconfigured' \/ Opening' => Unconfigured \/ Opening)
  BY OpeningKept DEF NoLoss
<1>2. CASE CycleStep
  <2>1. NoLossInv' /\ UNCHANGED <<mhinfo, dlMode>> /\ rwcmd' \in {rwcmd, "NONE"}
    BY <1>2, CycleNoLoss, CycleSteps
  <2>2. Posts(DlCnfTypes) /\ DlCnfTypes \cap ReadJobs = {}
    BY <1>2, CycleSteps, CyclePosts DEF DlCnfTypes, ReadJobs
  <2> QED BY <1>1, <2>1, <2>2, ReadKept
<1>3. CASE DlStep
  BY <1>1, <1>2, <1>3, DlKinds, ModeHandlerRead, StartupRead
<1>4. ASSUME UNCHANGED <<retry, errs, dlPc, mh, mhinfo>>,
             dlMode' = "OPERATE" => dlMode = "OPERATE" \/ mhinfo = "NONE"
      PROVE  NoLossInv'
  BY <1>4 DEF NoLossInv
<1>5. CASE OdeAction \/ AlRequest \/ AlConfirm \/ DlRequest
  <2>1. UNCHANGED <<retry, errs, dlPc, mh, mhinfo, dlMode>>
    BY <1>5 DEF OdeAction, OdeReject, OdeAccept, OdeConfirm, OdeStart, OdeStop, DsConfirm, AlRequest,
         AlBusy, AlArgErr, AlParam, AlIsdu, AlConfirm, AlReadParamCnf, AlWriteParamCnf, AlIsduCnf,
         AlAbort, DlRequest, DlParamReq, DlIsduReq, dlVars, modeVars, boundVars
  <2>2. rwcmd' = "READ" => rwcmd = "READ"
    BY <1>5 DEF OdeAction, OdeReject, OdeAccept, OdeConfirm, OdeStart, OdeStop, DsConfirm, AlRequest,
         AlBusy, AlArgErr, AlParam, AlIsdu, AlConfirm, AlReadParamCnf, AlWriteParamCnf, AlIsduCnf,
         AlAbort, DlRequest, DlParamReq, DlIsduReq, dlVars
  <2>3. Posts(ServiceJobs) /\ ServiceJobs \cap ReadJobs = {}
    BY <1>5, ServicePosts DEF ServiceJobs, DlCnfTypes, ReadJobs
  <2> QED BY <1>1, <1>4, <2>1, <2>2, <2>3, ReadKept
<1>6. CASE Application
  <2>1. UNCHANGED <<retry, errs, dlPc, mh, mhinfo, dlMode, rwcmd>>
    BY <1>6 DEF Application, SMI_DeviceRW_req, SMI_PortConfiguration_req, AL_Abort, DsRead, dlVars
  <2>2. Posts({"SMI_RW", "SMI_CFG", "AL_ABORT"}) /\ {"SMI_RW", "SMI_CFG", "AL_ABORT"} \cap ReadJobs = {}
    BY <1>1, <1>6, ApplicationTypes DEF ReadJobs
  <2> QED BY <1>1, <1>4, <2>1, <2>2, ReadKept
<1>7. CASE PortAction
  <2>1. UNCHANGED <<retry, errs, dlPc, mh, mhinfo>>
    BY <1>7 DEF PortAction, CmCfgChange, SmSetPortConfig, SmModeStartup, SmReadCnf, SmModeOperate,
         SmModeComlost, SmModeInactive, CmOperate, CmComlost, PortStep, boundVars
  <2>2. dlMode' = "OPERATE" => dlMode = "OPERATE" \/ mhinfo = "NONE"
    <3>1. SmReadCnf => Head(mbox).res # "OK" \/ mhinfo = "NONE"
      BY HeadHas DEF SmReadCnf, ReadInv
    <3> QED
      BY <1>7, <3>1 DEF PortAction, CmCfgChange, SmSetPortConfig, SmModeStartup, SmReadCnf,
                SmModeOperate, SmModeComlost, SmModeInactive, CmOperate, CmComlost, SmComlost,
                SmIgnore, ModeUnchanged, DL_SetMode_req
  <2> QED BY <1>1, <1>4, <1>7, <2>1, <2>2, PortRead, ModeStartupRead
<1> QED BY <1>3, <1>5, <1>6, <1>7
       DEF Next, MainThread, PortAction, OdeAction, AlRequest, AlConfirm, DlRequest

-----------------------------------------------------------------------------
LEMMA AppendKeeps == ASSUME TypeInv, NEW j, Post(j) PROVE Jobs \subseteq Jobs'
<1>1. mbox \in Seq(Job)
  BY TypeFacts
<1>2. Len(mbox) \in Nat /\ DOMAIN mbox = 1 .. Len(mbox)
  BY <1>1
<1>3. mbox' = Append(mbox, j)
  BY DEF Post
<1>4. DOMAIN mbox' = 1 .. Len(mbox) + 1 /\ \A i \in 1 .. Len(mbox) : mbox'[i] = mbox[i]
  BY <1>1, <1>2, <1>3
<1> QED BY <1>2, <1>4 DEF Jobs, Range

LEMMA DlKeepsJobs == ASSUME TypeInv, DlStep PROVE Jobs \subseteq Jobs'
<1>1. PICK s \in Seq(DlJob) : mbox' = mbox \o s
  BY DlStepType DEF DlPosts
<1>2. s \in Seq(Job)
  BY DlJobIsJob
<1> QED BY <1>1, <1>2, PostJobs, TypeFacts

(* A job of another type is taken. *)
LEMMA HasKept ==
  ASSUME TypeInv, NEW P, Posts(P), NEW T, mbox # <<>> => Head(mbox).type \notin T
  PROVE  Has(T) => Has(T)'
<1>1. PICK s \in Seq(Job) : Moves(s)
  BY DEF Posts
<1> QED BY <1>1, MovesJobs DEF Has

LEMMA NotLostKept ==
  ASSUME NotLost, UNCHANGED <<alState, dlCall, isdu, totSeg>>,
         alState = "Await_DL_ISDU_cnf" /\ Has(IsduCnf) => Has(IsduCnf)',
         alState = "Await_DL_param_cnf" =>
            /\ Has(ParamCnfs) => Has(ParamCnfs)'
            /\ rwcmd \in ParamCmds => rwcmd' = rwcmd
  PROVE  NotLost'
  BY DEF NotLost, Loaded

LEMMA CycleNotLost ==
  ASSUME NoLoss, TypeInv, Control, NoLossInv, OneConfirmation, NotLost, DlStep, CycleStep
  PROVE  NotLost'
<1>1. UNCHANGED <<alState, dlCall>> /\ Jobs \subseteq Jobs'
  BY CycleSteps, DlKinds, DlKeepsJobs
<1>2. \A T : Has(T) => Has(T)'
  BY <1>1 DEF Has
<1>3. isdu # "INACTIVE_0" => isdu' # "INACTIVE_0"
  BY CycleNoLoss
<1>4. CASE IsduGoesOn
  <2>1. Loaded => Loaded'
    BY <1>4 DEF IsduGoesOn
  <2>2. UNCHANGED rwcmd \/ Has(ParamCnfs)'
    <3>1. UNCHANGED rwcmd \/ \E j \in Job : Post(j) /\ j.type \in ParamCnfs
      BY <1>4 DEF IsduGoesOn
    <3>2. ASSUME NEW j \in Job, Post(j), j.type \in ParamCnfs PROVE Has(ParamCnfs)'
      <4>1. j \in Jobs'
        BY <3>2, PostOne, TypeFacts
      <4> QED BY <3>2, <4>1 DEF Has
    <3> QED BY <3>1, <3>2
  <2> QED BY <1>1, <1>2, <1>3, <2>1, <2>2 DEF NotLost
<1>5. CASE IsduConfirms /\ Held
  <2>1. PICK j \in Job : Post(j) /\ j.type = "ISDU_CNF"
    BY <1>5 DEF IsduConfirms
  <2>2. j \in Jobs'
    BY <2>1, PostOne, TypeFacts
  <2>3. Has(IsduCnf)'
    BY <2>1, <2>2 DEF Has, IsduCnf
  <2>4. alState = "Await_DL_ISDU_cnf"
    BY <1>5 DEF OneConfirmation
  <2> QED BY <1>1, <2>3, <2>4 DEF NotLost
<1>6. CASE NotRun /\ UNCHANGED rwcmd
  <2>1. UNCHANGED <<isdu, totSeg>>
    BY <1>6 DEF NotRun
  <2> QED BY <1>1, <1>2, <1>6, <2>1, NotLostKept
<1> QED BY <1>4, <1>5, <1>6, CycleNoLoss DEF IsduStep

LEMMA DlNotLost ==
  ASSUME NoLoss, TypeInv, Control, NoLossInv, OneConfirmation, NotLost, DlStep
  PROVE  NotLost'
<1>1. UNCHANGED dlCall /\ Jobs \subseteq Jobs'
  BY DlKinds, DlKeepsJobs
<1>2. \A T : Has(T) => Has(T)'
  BY <1>1 DEF Has
<1>3. CASE DlModeHandler
  <2>1. UNCHANGED <<alState, rwcmd>>
    BY <1>3, ModeHandlerSteps
  <2>2. CASE isdu = "INACTIVE_0"
    <3>1. alState = "Await_DL_ISDU_cnf" => Has(IsduCnf)
      BY <2>2 DEF NotLost, Loaded
    <3> QED BY <1>1, <1>2, <2>1, <3>1 DEF NotLost
  <2>3. CASE isdu # "INACTIVE_0"
    <3>1. mdh = "OPERATE_4" /\ dlMode = "OPERATE" /\ mhinfo = "NONE"
      BY <2>3 DEF Control, ModeInv, NoLossInv
    <3>2. UNCHANGED <<isdu, totSeg>>
      BY <1>3, <3>1 DEF DlModeHandler, ModeIdle, ModeEstCom, ModeStartup, ModeOperate, ModeConfirm,
                  ModeLeave, Leaves, NoLoss, TypeInv, RetryBounded, isduVars
    <3> QED BY <1>1, <1>2, <2>1, <3>2, NotLostKept
  <2> QED BY <2>2, <2>3
<1>4. CASE StartupAction
  <2>1. UNCHANGED <<alState, isdu, totSeg>>
    BY <1>4, StartupSteps
  <2>2. rwcmd \in ParamCmds => rwcmd' = rwcmd
    BY <1>4 DEF StartupAction, DlWurq, DlStartupReply, ParamCmds
  <2> QED BY <1>1, <1>2, <2>1, <2>2, NotLostKept
<1> QED BY <1>3, <1>4, DlKinds, CycleNotLost

LEMMA AlRequestNotLost ==
  ASSUME TypeInv, OneService, AlRequest
  PROVE  NotLost'
<1>1. Take("AL_REQ") /\ alState = "OnReq_Idle"
  BY AlRequestService DEF AlRequest, AlBusy, AlArgErr, AlParam, AlIsdu
<1>2. CASE AlArgErr
  BY <1>1, <1>2 DEF AlArgErr, NotLost
<1>3. CASE AlParam
  BY <1>3 DEF AlParam, NotLost, ParamCmds
<1>4. CASE AlIsdu
  <2>1. alState' = "Await_DL_ISDU_cnf" /\ UNCHANGED isdu
    BY <1>4 DEF AlIsdu, dlVars
  <2>2. CASE TakeAndPost(<<DlCnf("ISDU_CNF", "ERR", "none")>>)
    <3> DEFINE cnf == DlCnf("ISDU_CNF", "ERR", "none")
    <3>1. cnf \in Job /\ cnf.type = "ISDU_CNF" /\ TakeAndPost(<<cnf>>)
      BY <2>2, CnfJob DEF DlCnfTypes, Results, Tags
    <3> HIDE DEF cnf
    <3>2. <<cnf>> \in Seq(Job) /\ Range(<<cnf>>) = {cnf} /\ Moves(<<cnf>>)
      BY <1>1, <3>1, OneJob DEF Moves, Take
    <3>3. cnf \in Jobs'
      BY <3>2, MovesJobs
    <3>4. Has(IsduCnf)'
      BY <3>1, <3>3 DEF Has, IsduCnf
    <3> QED BY <2>1, <3>4 DEF NotLost
  <2>3. CASE isdu = "IDLE_1" /\ dlCall' = "isdu"
    BY <2>1, <2>3 DEF NotLost
  <2> QED BY <1>4, <2>2, <2>3 DEF AlIsdu
<1>5. ~AlBusy
  BY <1>1 DEF AlBusy
<1> QED BY <1>2, <1>3, <1>4, <1>5 DEF AlRequest

LEMMA AlConfirmNotLost ==
  ASSUME TypeInv, NotLost, AlConfirm
  PROVE  NotLost'
<1>1. CASE alState' = "OnReq_Idle"
  BY <1>1 DEF NotLost
<1>2. CASE alState' # "OnReq_Idle"
  <2>1. /\ UNCHANGED <<alState, dlCall, isdu, totSeg, rwcmd>> /\ mbox # <<>> /\ TakeAndPost(<<>>)
        /\ \/ Head(mbox).type \in ParamCnfs /\ alState # "Await_DL_param_cnf"
           \/ Head(mbox).type = "ISDU_CNF" /\ alState # "Await_DL_ISDU_cnf"
    BY <1>2 DEF AlConfirm, AlReadParamCnf, AlWriteParamCnf, AlIsduCnf, AlAbort, Confirm, Take,
                dlVars, isduVars, ParamCnfs
  <2>2. Posts({})
    BY <2>1, PostsNothing
  <2>3. \A T : Head(mbox).type \notin T => (Has(T) => Has(T)')
    BY <2>2, HasKept
  <2>4. alState = "Await_DL_ISDU_cnf" => Head(mbox).type \notin IsduCnf
    BY <2>1 DEF IsduCnf, ParamCnfs
  <2>5. alState = "Await_DL_param_cnf" => Head(mbox).type \notin ParamCnfs
    BY <2>1 DEF ParamCnfs
  <2> QED BY <2>1, <2>3, <2>4, <2>5, NotLostKept
<1> QED BY <1>1, <1>2

LEMMA DlRequestNotLost ==
  ASSUME TypeInv, OneService, OneConfirmation, NotLost, DlRequest
  PROVE  NotLost'
<1>1. UNCHANGED alState
  BY DEF DlRequest, DlParamReq, DlIsduReq, alVars
<1>2. CASE DlParamReq
  <2>1. alState = "Await_DL_param_cnf" /\ UNCHANGED rwcmd
    BY <1>2 DEF DlParamReq, OneService
  <2>2. UNCHANGED mbox \/ \E j : Post(j)
    BY <1>2 DEF DlParamReq
  <2>3. Jobs \subseteq Jobs'
    BY <2>2, AppendKeeps DEF Jobs
  <2> QED BY <1>1, <2>1, <2>3 DEF NotLost, Has
<1>3. CASE DlIsduReq
  <2>1. alState = "Await_DL_ISDU_cnf" /\ dlCall = "isdu" /\ UNCHANGED isdu /\ totSeg' = Segs
    BY <1>3 DEF DlIsduReq, OneService
  <2>2. isdu # "INACTIVE_0"
    BY <2>1 DEF NotLost, OneConfirmation, Loaded, NoCall
  <2>3. Segs # 0
    BY DlAssumption
  <2> QED BY <1>1, <2>1, <2>2, <2>3 DEF NotLost, Loaded
<1> QED BY <1>2, <1>3 DEF DlRequest

(* Port control reads the device only where no service has been asked for. *)
LEMMA PortNotLost ==
  ASSUME TypeInv, Control, NotYet, OneService, NotLost, PortAction
  PROVE  NotLost'
<1>1. UNCHANGED <<alState, dlCall, isdu, totSeg>>
  BY DEF PortAction, CmCfgChange, SmSetPortConfig, SmModeStartup, SmReadCnf, SmModeOperate,
         SmModeComlost, SmModeInactive, CmOperate, CmComlost, PortStep, alVars, isduVars
<1>2. mbox # <<>> => Head(mbox).type \notin IsduCnf \cup ParamCnfs
  BY DEF PortAction, CmCfgChange, SmSetPortConfig, SmModeStartup, SmReadCnf, SmModeOperate,
         SmModeComlost, SmModeInactive, CmOperate, CmComlost, Take, IsduCnf, ParamCnfs
<1>3. (Has(IsduCnf) => Has(IsduCnf)') /\ (Has(ParamCnfs) => Has(ParamCnfs)')
  <2>1. Posts(PortTypes)
    BY PortTypesPosted
  <2> QED BY <1>2, <2>1, HasKept
<1>4. alState = "Await_DL_param_cnf" => UNCHANGED rwcmd
  <2>1. CASE SmModeStartup /\ mh = "STARTUP_2"
    <3>1. Starting
      BY <2>1 DEF Control, ModeInv, Starting
    <3>2. ode = "Inactive"
      BY <3>1 DEF NotYet
    <3> QED BY <3>2 DEF OneService
  <2>2. CASE ~(SmModeStartup /\ mh = "STARTUP_2")
    BY <2>2 DEF PortAction, CmCfgChange, SmSetPortConfig, SmModeStartup, SmReadCnf, SmModeOperate,
                SmModeComlost, SmModeInactive, CmOperate, CmComlost
  <2> QED BY <2>1, <2>2
<1> QED BY <1>1, <1>3, <1>4, NotLostKept

LEMMA NextNotLost ==
  ASSUME NoLoss, TypeInv, Control, NotYet, OneService, OneConfirmation, NoLossInv, NotLost, Next
  PROVE  NotLost'
<1>1. CASE OdeAction
  <2>1. UNCHANGED <<alState, dlCall, isdu, totSeg, rwcmd>>
    BY <1>1 DEF OdeAction, OdeReject, OdeAccept, OdeConfirm, OdeStart, OdeStop, DsConfirm, alVars,
                dlVars, isduVars
  <2>2. mbox # <<>> => Head(mbox).type \notin IsduCnf \cup ParamCnfs
    BY <1>1 DEF OdeAction, OdeReject, OdeAccept, OdeConfirm, OdeStart, OdeStop, DsConfirm, Take,
                IsduCnf, ParamCnfs
  <2>3. (Has(IsduCnf) => Has(IsduCnf)') /\ (Has(ParamCnfs) => Has(ParamCnfs)')
    <3>1. Posts({"AL_REQ"})
      BY <1>1, OdePosts
    <3> QED BY <2>2, <3>1, HasKept
  <2> QED BY <2>1, <2>3, NotLostKept
<1>2. CASE Application
  <2>1. UNCHANGED <<alState, dlCall, isdu, totSeg, rwcmd>>
    BY <1>2 DEF Application, SMI_DeviceRW_req, SMI_PortConfiguration_req, AL_Abort, DsRead, alVars,
                dlVars
  <2>2. \E j : Post(j)
    BY <1>2 DEF Application, SMI_DeviceRW_req, SMI_PortConfiguration_req, AL_Abort, DsRead
  <2>3. Jobs \subseteq Jobs'
    BY <2>2, AppendKeeps
  <2> QED BY <2>1, <2>3, NotLostKept DEF Has
<1> QED BY <1>1, <1>2, PortNotLost, DlNotLost, AlRequestNotLost, AlConfirmNotLost, DlRequestNotLost
       DEF Next, MainThread, PortAction, OdeAction, AlRequest, AlConfirm, DlRequest

-----------------------------------------------------------------------------
ServiceInv == ReadInv /\ NoLossInv /\ NotLost

LEMMA InitService == Init => ServiceInv
<1> SUFFICES ASSUME Init PROVE ServiceInv
  OBVIOUS
<1>1. Jobs = {} /\ mbox = <<>>
  BY NoJobs DEF Init, JobsInit, Jobs
<1>2. \A T : ~Has(T)
  BY <1>1 DEF Has
<1>3. Sole(ReadJobs)
  BY <1>1, ShortOrder DEF Sole, Order
<1>4. ReadInv
  BY <1>1, <1>3 DEF Init, DlInit, ReadInv
<1>5. NoLossInv
  BY DlAssumption DEF Init, DlInit, NoLossInv
<1>6. NotLost
  BY DEF Init, JobsInit, NotLost
<1> QED BY <1>4, <1>5, <1>6 DEF ServiceInv

LEMMA StutterService ==
  ASSUME ServiceInv, UNCHANGED vars
  PROVE  ServiceInv'
<1>1. UNCHANGED <<mbox, alState, dlCall, cfgs, sm, mdh, dlMode, mhinfo, mdhEv, mh, isdu, totSeg>>
  BY DEF vars, alVars, portVars, appVars, dlVars
<1>2. UNCHANGED <<rwcmd, retry, errs, dlPc>>
  BY DEF vars, dlVars
<1>3. Jobs' = Jobs /\ (\A T : Has(T)' <=> Has(T)) /\ (\A A, B : Order(A, B)' <=> Order(A, B))
  BY <1>1 DEF Jobs, Has, Order
<1>4. ReadInv'
  BY <1>1, <1>2, <1>3 DEF ServiceInv, ReadInv, Sole, Unconfigured, Opening
<1>5. NoLossInv'
  BY <1>1, <1>2 DEF ServiceInv, NoLossInv
<1>6. NotLost'
  BY <1>1, <1>2, <1>3, NotLostKept DEF ServiceInv
<1> QED BY <1>4, <1>5, <1>6 DEF ServiceInv

LEMMA NextServiceInv ==
  ASSUME NoLoss, TypeInv, AnswersInv, ServiceInv, [Next]_vars
  PROVE  ServiceInv'
<1>1. CASE Next
  <2>1. Control /\ NotYet /\ OneService /\ OneConfirmation /\ ReadInv /\ NoLossInv /\ NotLost
    BY DEF AnswersInv, ServiceInv
  <2>2. ReadInv' /\ NoLossInv'
    BY <1>1, <2>1, NextRead
  <2>3. NotLost'
    BY <1>1, <2>1, NextNotLost
  <2> QED BY <2>2, <2>3 DEF ServiceInv
<1>2. CASE UNCHANGED vars
  BY <1>2, StutterService
<1> QED BY <1>1, <1>2

(* A service that the AL has handed to the DL (DL_ReadWriteParam_req,      *)
(* DL_ISDUTransport_req) is not lost between the two threads on one core   *)
(* with the DL thread at the higher priority (~Parallel), whatever the     *)
(* order of their steps: until its confirmation is in the mailbox the DL   *)
(* still has the command or the transfer, and it is that service's. A main *)
(* thread that runs between the posting of a confirmation and the clearing *)
(* of its command has its next one overwritten (reception_complete).       *)
(* Of more receive errors than retries, which end the connection, the      *)
(* theorem says nothing: the retry counter is not reset by a good cycle.   *)
THEOREM ServicesNotLost == NoLoss => (Spec => []ServiceNotLost)
<1> SUFFICES ASSUME NoLoss PROVE Spec => []ServiceNotLost
  OBVIOUS
<1>1. OneClient
  BY DEF NoLoss
<1>2. Spec => []AnswersInv
  BY <1>1, AnswersInvariance
<1>3. TypeInv /\ AnswersInv /\ ServiceInv /\ [Next]_vars => ServiceInv'
  BY NextServiceInv
<1>4. TypeInv /\ AnswersInv /\ ServiceInv => ServiceNotLost
  <2> SUFFICES ASSUME TypeInv, AnswersInv, ServiceInv, dlCall = NoCall
               PROVE  /\ alState = "Await_DL_ISDU_cnf" =>
                            \/ \E j \in Jobs : j.type = "ISDU_CNF"
                            \/ /\ isduReq = alSvc.req
                               /\ IF isdu = "IDLE_1" THEN totSeg # 0 ELSE isdu # "INACTIVE_0"
                      /\ alState = "Await_DL_param_cnf" =>
                            \/ \E j \in Jobs : j.type \in DlCnfTypes \ {"ISDU_CNF"}
                            \/ rwcmd \in {"READPARAM", "WRITEPARAM"}
    BY DEF ServiceNotLost
  <2>1. NotLost /\ dlCall # "isdu"
    BY DEF ServiceInv, NoCall
  <2>2. Loaded => Held /\ isduReq = alSvc.req
    <3>1. ~Confirmed
      BY DEF TypeInv, RetryBounded, Confirmed, CycleClears, NoLoss
    <3> QED BY <3>1 DEF Loaded, Held, Carries, AnswersInv, OneConfirmation
  <2>3. alState = "Await_DL_ISDU_cnf" =>
           \/ \E j \in Jobs : j.type = "ISDU_CNF"
           \/ /\ isduReq = alSvc.req
              /\ IF isdu = "IDLE_1" THEN totSeg # 0 ELSE isdu # "INACTIVE_0"
    BY <2>1, <2>2 DEF NotLost, Has, IsduCnf, Loaded
  <2>4. alState = "Await_DL_param_cnf" =>
           \/ \E j \in Jobs : j.type \in DlCnfTypes \ {"ISDU_CNF"}
           \/ rwcmd \in {"READPARAM", "WRITEPARAM"}
    BY <2>1 DEF NotLost, Has, ParamCnfs, ParamCmds, DlCnfTypes
  <2> QED BY <2>3, <2>4
<1> QED BY <1>2, <1>3, <1>4, InitService, TypeInvariance, PTL DEF Spec

=============================================================================

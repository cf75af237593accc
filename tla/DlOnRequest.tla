----------------------------- MODULE DlOnRequest -----------------------------
(***************************************************************************)
(* The data link layer of one port (iolink_dl.c) as far as on-request data *)
(* is concerned: mode handler, message handler in the OPERATE cycle, OD    *)
(* handler and ISDU handler, run by the port's DL thread, and the service  *)
(* requests DL_ReadParam_req, DL_WriteParam_req and DL_ISDUTransport_req,  *)
(* run by the main thread without a lock.                                  *)
(*                                                                         *)
(* One DL event is one action, except where the code reads shared state    *)
(* twice: a device reply is handled in two steps (the reply, then the next *)
(* master message) and the loss of communication in two (the decision and  *)
(* its effects), because the main thread may run in between.  Where the    *)
(* handler posts a confirmation and clears the command afterwards, whether *)
(* it may run in between is a matter of the scheduling: see Parallel.      *)
(***************************************************************************)
EXTENDS OnRequestJobs

CONSTANTS
    MaxRetry,   \* IOLINK_MAX_RETRY
    Segs,       \* largest number of segments of an ISDU
    MaxErrors,  \* bound: receive errors and timeouts in a behaviour
    MaxEvents,  \* bound: replies that carry the event flag
    Parallel    \* the main thread may run beside the DL thread: FALSE on one
                \* core with the DL thread at the higher priority, TRUE with
                \* several cores

ASSUME DlAssumption ==
    /\ Parallel \in BOOLEAN
    /\ MaxRetry \in Nat
    /\ Segs \in Nat \ {0}
    /\ MaxErrors \in Nat
    /\ MaxEvents \in Nat

VARIABLES
    mdh,        \* mode_handler.state
    dlMode,     \* mode_handler.dl_mode, set by DL_SetMode_req
    mhinfo,     \* mode_handler.mhinfo
    mdhEv,      \* IOLINK_DL_EVENT_MDH is set
    mh,         \* message_handler.state
    retry,      \* message_handler.retry
    rwcmd,      \* message_handler.rwcmd
    dataAddr,   \* od_handler.data_addr and data_value: whose they are
    od,         \* od_handler.state
    evFlag,     \* event_handler.event_flag
    isdu,       \* isdu_handler.state
    isduReq,    \* isdu_handler.isdu_data: whose request it holds
    totSeg,     \* isdu_handler.total_isdu_seg
    curSeg,     \* isdu_handler.current_isdu_seg
    elapsed,    \* isdu_timer_elapsed
    msg,        \* the message in the transceiver, sent every cycle
    dlPc,       \* where the DL thread stands in its handler
    served,     \* requests the device has carried out
    errs, evs   \* errors and event flags so far (bounds)

dlVars == <<mdh, dlMode, mhinfo, mdhEv, mh, retry, rwcmd, dataAddr, od, evFlag,
            isdu, isduReq, totSeg, curSeg, elapsed, msg, dlPc, served, errs, evs>>

modeVars == <<mdh, dlMode, mhinfo, mdhEv>>
isduVars == <<isdu, isduReq, totSeg, curSeg, elapsed>>
boundVars == <<errs, evs>>

ModeStates == {"IDLE_0", "ESTCOM_1", "STARTUP_2", "OPERATE_4"}
DlModes    == {"INACTIVE", "STARTUP", "OPERATE"}
MhStates   == {"INACTIVE_0", "STARTUP_2", "GETOD_7", "AW_REPLY_9",
               "ERRORHANDLING_10", "OPERATE_12", "RESPONSE_15", "AW_REPLY_16"}
RwCmds     == {"NONE", "READ", "READPARAM", "WRITEPARAM", "ISDUTRANSPORT"}
OdStates   == {"INACTIVE_0", "ISDU_1", "EVENT_3"}
IsduStates == {"INACTIVE_0", "IDLE_1", "ISDUREQUEST_2", "ISDUWAIT_3",
               "ISDUERROR_4", "ISDURESPONSE_5"}
Messages   == [what : {"idle", "event", "readparam", "writeparam", "isdu"},
               of : Ids \cup {NoReq}]

(* The DL thread has posted a confirmation and has the command to clear:    *)
(* in the handling of a reply, in the making of the next message, of the   *)
(* message with the parameter to be written, and at the end of retries.    *)
Clears == {"clearReply", "clearMessage", "clearWrite", "clearLost"}

(* The mode handler has confirmed an interrupted transfer and goes on to   *)
(* STARTUP, or to idle after a request or a loss of communication.         *)
Leaves == {"leaveStartup", "leaveInactive", "leaveComlost"}

IdleMsg  == [what |-> "idle", of |-> NoReq]

DlTypeOK ==
    /\ mdh \in ModeStates
    /\ dlMode \in DlModes
    /\ mhinfo \in {"NONE", "COMLOST"}
    /\ mdhEv \in BOOLEAN
    /\ mh \in MhStates
    /\ retry \in 0 .. MaxRetry + 1
    /\ rwcmd \in RwCmds
    /\ dataAddr \in Ids \cup {NoReq}
    /\ od \in OdStates
    /\ evFlag \in BOOLEAN
    /\ isdu \in IsduStates
    /\ isduReq \in Ids \cup {NoReq}
    /\ totSeg \in 0 .. Segs
    /\ curSeg \in Nat
    /\ elapsed \in BOOLEAN
    /\ msg \in Messages
    /\ dlPc \in {"wait", "master", "comlost"} \cup Clears \cup Leaves
    /\ served \subseteq Ids
    /\ errs \in 0 .. MaxErrors
    /\ evs \in 0 .. MaxEvents

DlInit ==
    /\ mdh = "IDLE_0" /\ dlMode = "INACTIVE" /\ mhinfo = "NONE" /\ mdhEv = FALSE
    /\ mh = "INACTIVE_0" /\ retry = 0 /\ rwcmd = "NONE" /\ dataAddr = NoReq
    /\ od = "INACTIVE_0" /\ evFlag = FALSE
    /\ isdu = "INACTIVE_0" /\ isduReq = NoReq /\ totSeg = 0 /\ curSeg = 0
    /\ elapsed = FALSE
    /\ msg = IdleMsg /\ dlPc = "wait" /\ served = {}
    /\ errs = 0 /\ evs = 0

-----------------------------------------------------------------------------
(* Confirmations posted to the AL.                                         *)

DlCnf(type, res, val) == MkJob(type, "ODE", NoReq, "Batch", res, val)

(* The first on-request octet of a reply, rxbuffer[0]. *)
RxOctet == CASE msg.what = "readparam" -> IF msg.of = NoReq THEN "none" ELSE msg.of
             [] msg.what = "event"     -> "event"
             [] OTHER                  -> "idle"

(* DL_ISDUTransport_cnf, run by the DL thread: data goes straight into the *)
(* AL's buffer when the AL's current service is a read and the transfer    *)
(* went well, or when it is a write the device refused.                    *)
DL_ISDUTransport_cnf(outcome) ==
    /\ Post(DlCnf("ISDU_CNF", IF outcome = "POS" THEN "OK" ELSE "ERR", "none"))
    /\ alData' = CASE outcome = "POS" /\ alSvc.kind \in ReadKinds
                                       -> IF isduReq = NoReq THEN "none" ELSE isduReq
                   [] outcome = "NEG"  -> "negative"
                   [] OTHER            -> alData
    /\ alLen' = IF outcome = "NEG" \/ (outcome = "POS" /\ alSvc.kind \in ReadKinds)
                THEN "data" ELSE alLen

(* What is assigned after a confirmation has been posted: at once when the *)
(* main thread cannot run in between, else by DlClear.                     *)
After(old, new) == IF Parallel THEN old ELSE new

(* Where the DL thread goes on: a handler that posted has to clear.        *)
ClearFirst(clear, pc) == IF Parallel /\ mbox' # mbox THEN clear ELSE pc

-----------------------------------------------------------------------------
(* ISDU handler.                                                           *)

(* A mutant of IsduError4: the aborted transfer is not confirmed. *)
IsduError4Silent ==
    /\ totSeg' = 0
    /\ msg' = [what |-> "isdu", of |-> isduReq]
    /\ rwcmd' = "NONE"
    /\ isdu' = "IDLE_1"
    /\ UNCHANGED <<mbox, alData, alLen, isduReq, curSeg, elapsed, served>>

(* iolink_dl_isdu_h_sm_isdu_error4, handler active: abort the transfer and *)
(* confirm it negatively.                                                  *)
IsduError4 ==
    /\ totSeg' = 0
    /\ msg' = [what |-> "isdu", of |-> isduReq]
    /\ DL_ISDUTransport_cnf("ERROR")
    /\ rwcmd' = After(rwcmd, "NONE")
    /\ isdu' = After(isdu, "IDLE_1")
    /\ UNCHANGED <<isduReq, curSeg, elapsed, served>>

(* iolink_dl_isdu_h_sm_enter_isduerror4 on a device message: the abort is  *)
(* sent with the next master message.  The timer only matters in ISDUWAIT. *)
EnterIsduError4 ==
    /\ isdu' = "ISDUERROR_4"
    /\ elapsed' = FALSE
    /\ UNCHANGED <<mbox, alData, alLen, totSeg, curSeg, isduReq, msg, rwcmd, served>>

(* A mutant of ReceptionComplete: the command is not cleared. *)
ReceptionCompleteRepeats ==
    /\ \E outcome \in {"POS", "NEG", "ERROR"} : DL_ISDUTransport_cnf(outcome)
    /\ served' = served \cup ({isduReq} \ {NoReq})
    /\ totSeg' = 0 /\ curSeg' = 0
    /\ isdu' = "IDLE_1"
    /\ elapsed' = FALSE
    /\ UNCHANGED <<isduReq, msg, rwcmd>>

(* iolink_dl_isdu_h_sm_reception_complete: positive and negative response, *)
(* or a bad length or checksum.                                            *)
ReceptionComplete ==
    /\ \E outcome \in {"POS", "NEG", "ERROR"} :
          /\ DL_ISDUTransport_cnf(outcome)
          /\ served' = IF outcome = "POS" THEN served \cup ({isduReq} \ {NoReq})
                                          ELSE served
    /\ totSeg' = After(totSeg, 0) /\ curSeg' = After(curSeg, 0)
    /\ rwcmd' = After(rwcmd, "NONE")
    /\ isdu' = After(isdu, "IDLE_1")
    /\ elapsed' = FALSE
    /\ UNCHANGED <<isduReq, msg>>

(* Nothing but the outgoing message changes. *)
NextMessage(m) ==
    /\ msg' = m
    /\ UNCHANGED <<mbox, alData, alLen, isdu, isduReq, totSeg, curSeg, elapsed, rwcmd, served>>

IsduMasterIdle ==
    /\ isdu = "IDLE_1"
    /\ \/ /\ rwcmd = "ISDUTRANSPORT"
          /\ msg' = [what |-> "isdu", of |-> isduReq]
          /\ curSeg' = 1
          /\ isdu' = "ISDUREQUEST_2"
          /\ UNCHANGED <<mbox, alData, alLen, isduReq, totSeg, elapsed, rwcmd, served>>
       \/ /\ rwcmd = "READPARAM"
          /\ NextMessage([what |-> "readparam", of |-> dataAddr])
       \/ /\ rwcmd = "WRITEPARAM"
          /\ NextMessage([what |-> "writeparam", of |-> dataAddr])
       \/ /\ rwcmd \in {"NONE", "READ"}
          /\ NextMessage(IdleMsg)

(* The ISDU handler prepares the next master message. *)
IsduMaster ==
    \/ IsduMasterIdle
    \/ /\ isdu = "ISDUREQUEST_2"
       /\ mhinfo # "COMLOST"
       /\ msg' = [what |-> "isdu", of |-> isduReq]
       /\ curSeg' = curSeg + 1
       /\ UNCHANGED <<mbox, alData, alLen, isdu, isduReq, totSeg, elapsed, rwcmd, served>>
    \/ /\ isdu = "ISDUWAIT_3"
       /\ ~elapsed /\ mhinfo # "COMLOST"
       /\ NextMessage([what |-> "isdu", of |-> isduReq])
    \/ /\ isdu = "ISDURESPONSE_5"
       /\ mhinfo # "COMLOST"
       /\ NextMessage([what |-> "isdu", of |-> isduReq])
    \/ /\ \/ isdu = "ISDUERROR_4"
          \/ isdu = "ISDUWAIT_3" /\ elapsed
          \/ isdu \in {"ISDUREQUEST_2", "ISDUWAIT_3", "ISDURESPONSE_5"}
                /\ mhinfo = "COMLOST"
       /\ IsduError4
    \/ /\ isdu = "INACTIVE_0"
       /\ NextMessage(msg)

IsduQuiet == UNCHANGED <<mbox, alData, alLen, isdu, isduReq, totSeg, curSeg, elapsed,
                         msg, rwcmd, served>>

(* What the device has carried out once it replies to the message. *)
Written == IF msg.what = "writeparam" THEN served \cup ({msg.of} \ {NoReq}) ELSE served

(* In IDLE_1 a reply answers whatever direct parameter command is set now. *)
IsduDeviceIdle ==
    /\ isdu = "IDLE_1"
    /\ \/ /\ rwcmd = "READPARAM"
          /\ Post(DlCnf("READPARAM_CNF", "OK", RxOctet))
          /\ rwcmd' = After(rwcmd, "NONE")
          /\ UNCHANGED <<alData, alLen, isdu, isduReq, totSeg, curSeg, elapsed, msg, served>>
       \/ /\ rwcmd = "WRITEPARAM"
          /\ Post(DlCnf("WRITEPARAM_CNF", "OK", "none"))
          /\ rwcmd' = After(rwcmd, "NONE")
          /\ served' = Written
          /\ UNCHANGED <<alData, alLen, isdu, isduReq, totSeg, curSeg, elapsed, msg>>
       \/ /\ rwcmd \in {"NONE", "READ", "ISDUTRANSPORT"}
          /\ served' = Written
          /\ UNCHANGED <<mbox, alData, alLen, isdu, isduReq, totSeg, curSeg, elapsed, msg, rwcmd>>

IsduDeviceRequest ==
    /\ isdu = "ISDUREQUEST_2"
    /\ mhinfo # "COMLOST"
    /\ IF curSeg >= totSeg
       THEN /\ isdu' = "ISDUWAIT_3" /\ curSeg' = 0 /\ elapsed' = FALSE
            /\ UNCHANGED <<mbox, alData, alLen, isduReq, totSeg, msg, rwcmd, served>>
       ELSE IsduQuiet

IsduDeviceWait ==
    /\ isdu = "ISDUWAIT_3"
    /\ ~elapsed /\ mhinfo # "COMLOST"
    /\ \/ IsduQuiet                         \* device busy
       \/ EnterIsduError4                   \* no service, or a bad header
       \/ ReceptionComplete                 \* response of one segment
       \/ \E n \in 2 .. Segs :              \* first of n segments
             /\ totSeg' = n /\ curSeg' = 1 /\ elapsed' = FALSE
             /\ isdu' = "ISDURESPONSE_5"
             /\ UNCHANGED <<mbox, alData, alLen, isduReq, msg, rwcmd, served>>

IsduDeviceResponse ==
    /\ isdu = "ISDURESPONSE_5"
    /\ mhinfo # "COMLOST"
    /\ IF curSeg + 1 >= totSeg
       THEN ReceptionComplete
       ELSE /\ curSeg' = curSeg + 1
            /\ UNCHANGED <<mbox, alData, alLen, isdu, isduReq, totSeg, elapsed, msg, rwcmd, served>>

(* The ISDU handler processes a device message. *)
IsduDevice ==
    \/ IsduDeviceIdle
    \/ IsduDeviceRequest
    \/ IsduDeviceWait
    \/ IsduDeviceResponse
    \/ /\ isdu = "ISDUERROR_4"
       /\ IsduError4
    \/ /\ \/ isdu = "ISDUWAIT_3" /\ elapsed
          \/ isdu \in {"ISDUREQUEST_2", "ISDUWAIT_3", "ISDURESPONSE_5"}
                /\ mhinfo = "COMLOST"
       /\ EnterIsduError4
    \/ /\ isdu = "INACTIVE_0"
       /\ IsduQuiet

-----------------------------------------------------------------------------
(* OD handler: in EVENT_3 the exchange belongs to the event handler, and   *)
(* the ISDU handler does not run.                                          *)

OdMaster ==
    \/ /\ od = "ISDU_1"
       /\ IsduMaster
       /\ od' = IF evFlag THEN "EVENT_3" ELSE "ISDU_1"
    \/ /\ od = "EVENT_3" /\ evFlag
       /\ NextMessage([what |-> "event", of |-> NoReq])
       /\ UNCHANGED od
    \/ /\ od = "EVENT_3" /\ ~evFlag
       /\ NextMessage(msg)
       /\ od' = "ISDU_1"
    \/ /\ od = "INACTIVE_0"
       /\ NextMessage(msg)
       /\ UNCHANGED od

(* A device message whose checksum octet carries the event flag or not. *)
OdDevice(flag) ==
    \/ /\ od = "ISDU_1"
       /\ IsduDevice
       /\ od' = IF flag THEN "EVENT_3" ELSE "ISDU_1"
    \/ /\ od = "EVENT_3"
       /\ IsduQuiet
       /\ od' = IF flag THEN "EVENT_3" ELSE "ISDU_1"
    \/ /\ od = "INACTIVE_0"
       /\ IsduQuiet
       /\ UNCHANGED od

(* EventFlag_ind, bounded. *)
EventFlag(flag) ==
    /\ flag => evs < MaxEvents
    /\ evFlag' = flag
    /\ evs' = IF flag THEN evs + 1 ELSE evs

RxError ==
    /\ errs < MaxErrors
    /\ errs' = errs + 1

-----------------------------------------------------------------------------
(* Message handler, OPERATE cycle.                                         *)

InCycle == mh \in {"RESPONSE_15", "AW_REPLY_16"} /\ dlPc = "wait"

(* await_reply16, data ready: handle the reply ... *)
DlReply ==
    /\ InCycle
    /\ rwcmd # "WRITEPARAM"
    /\ \E flag \in BOOLEAN : EventFlag(flag) /\ OdDevice(flag)
    /\ mh' = "AW_REPLY_16"
    /\ dlPc' = ClearFirst("clearReply", "master")
    /\ UNCHANGED <<modeVars, retry, dataAddr, errs, alState, alSvc>>

(* ... and prepare the next message. *)
DlNextMessage ==
    /\ dlPc = "master"
    /\ OdMaster
    /\ dlPc' = ClearFirst("clearMessage", "wait")
    /\ UNCHANGED <<modeVars, mh, retry, dataAddr, evFlag, boundVars, alState, alSvc>>

(* await_reply16 with a parameter write pending: whatever the event was,   *)
(* the write goes out at once.                                             *)
DlSendWriteParam ==
    /\ InCycle
    /\ rwcmd = "WRITEPARAM"
    /\ OdMaster
    /\ retry' = 0
    /\ dlPc' = ClearFirst("clearWrite", "wait")
    /\ mh' = IF dlPc' = "wait" THEN "AW_REPLY_9" ELSE mh
    /\ UNCHANGED <<modeVars, dataAddr, evFlag, boundVars, alState, alSvc>>

(* A mutant of DlRxError16: the error that loses the connection is counted *)
(* here and again when the loss is handled.                                *)
DlRxError16Twice ==
    /\ InCycle
    /\ rwcmd # "WRITEPARAM"
    /\ RxError
    /\ mh' = "AW_REPLY_16"
    /\ retry' = retry + 1
    /\ dlPc' = IF retry >= MaxRetry THEN "comlost" ELSE "wait"
    /\ UNCHANGED <<modeVars, isduVars, rwcmd, dataAddr, evFlag, od, msg, served, evs,
                   mbox, alState, alSvc, alData, alLen>>

(* await_reply16, timeout or receive error.  Nothing resets the retry      *)
(* counter when a cycle succeeds.                                          *)
DlRxError16 ==
    /\ InCycle
    /\ rwcmd # "WRITEPARAM"
    /\ RxError
    /\ mh' = "AW_REPLY_16"
    /\ IF retry >= MaxRetry
       THEN dlPc' = "comlost" /\ UNCHANGED retry
       ELSE dlPc' = "wait" /\ retry' = retry + 1
    /\ UNCHANGED <<modeVars, isduVars, rwcmd, dataAddr, evFlag, od, msg, served, evs,
                   mbox, alState, alSvc, alData, alLen>>

(* iolink_dl_mh_handle_com_lost *)
HandleComLost ==
    /\ mhinfo' = "COMLOST"
    /\ mdhEv' = TRUE
    /\ rwcmd' = "NONE"
    /\ mh' = "INACTIVE_0"

DlComLost ==
    /\ dlPc \in {"comlost", "clearLost"}
    /\ HandleComLost
    /\ retry' = IF dlPc = "comlost" THEN retry + 1 ELSE retry
    /\ dlPc' = "wait"
    /\ UNCHANGED <<mdh, dlMode, isduVars, dataAddr, evFlag, od, msg, served, boundVars,
                   mbox, alState, alSvc, alData, alLen>>

(* await_reply9, data ready: the parameter write has been answered.  With  *)
(* an ISDU under way the handler goes on with GETOD_7 instead.             *)
DlReply9 ==
    /\ mh = "AW_REPLY_9" /\ dlPc = "wait"
    /\ \E flag \in BOOLEAN : EventFlag(flag) /\ OdDevice(flag)
    /\ dlPc' = ClearFirst("clearReply", "wait")
    /\ mh' = CASE dlPc' # "wait"                      -> mh
               [] dlPc' = "wait" /\ isdu' = "IDLE_1" -> "AW_REPLY_16"
               [] dlPc' = "wait" /\ isdu' # "IDLE_1" -> "GETOD_7"
    /\ UNCHANGED <<modeVars, retry, dataAddr, errs, alState, alSvc>>

(* get_od7 and response8 *)
DlGetOd7 ==
    /\ mh = "GETOD_7" /\ dlPc = "wait"
    /\ OdMaster
    /\ retry' = 0
    /\ dlPc' = ClearFirst("clearMessage", "wait")
    /\ mh' = IF dlPc' = "wait" THEN "AW_REPLY_9" ELSE mh
    /\ UNCHANGED <<modeVars, dataAddr, evFlag, boundVars, alState, alSvc>>

DlRxError9 ==
    /\ mh = "AW_REPLY_9" /\ dlPc = "wait"
    /\ RxError
    /\ mh' = "ERRORHANDLING_10"
    /\ UNCHANGED <<modeVars, isduVars, dlPc, retry, rwcmd, dataAddr, evFlag, od, msg,
                   served, evs, mbox, alState, alSvc, alData, alLen>>

(* error_handling10: resend, or give up, confirm the pending command and   *)
(* report the loss.                                                        *)
DlErrorHandling10 ==
    /\ mh = "ERRORHANDLING_10" /\ dlPc = "wait"
    /\ \/ /\ retry < MaxRetry
          /\ retry' = retry + 1
          /\ mh' = "AW_REPLY_9"
          /\ UNCHANGED <<modeVars, dlPc, rwcmd, mbox>>
       \/ /\ retry >= MaxRetry
          /\ CASE rwcmd = "READPARAM"  -> Post(DlCnf("READPARAM_CNF", "ERR", "none"))
               [] rwcmd = "WRITEPARAM" -> Post(DlCnf("WRITEPARAM_CNF", "ERR", "none"))
               [] OTHER                -> UNCHANGED mbox
          /\ IF mbox' = mbox \/ ~Parallel
             THEN HandleComLost /\ UNCHANGED <<mdh, dlMode, dlPc>>
             ELSE dlPc' = "clearLost" /\ UNCHANGED <<modeVars, rwcmd, mh>>
          /\ UNCHANGED retry
    /\ UNCHANGED <<isduVars, dataAddr, evFlag, od, msg, served, boundVars,
                   alState, alSvc, alData, alLen>>

(* operate12 .. get_od14: the first message of the cycle. *)
DlFirstMessage ==
    /\ mh = "OPERATE_12" /\ dlPc = "wait"
    /\ OdMaster
    /\ retry' = 0
    /\ dlPc' = ClearFirst("clearMessage", "wait")
    /\ mh' = IF dlPc' = "wait" THEN "RESPONSE_15" ELSE mh
    /\ UNCHANGED <<modeVars, dataAddr, evFlag, boundVars, alState, alSvc>>

(* The handler clears the command whose confirmation it has posted, with   *)
(* what it may have been set to since then, and goes on.                   *)
DlClear ==
    /\ dlPc \in Clears \ {"clearLost"}
    /\ rwcmd' = "NONE"
    /\ isdu' = "IDLE_1"
    /\ IF dlPc = "clearReply" /\ isdu \in {"ISDUWAIT_3", "ISDURESPONSE_5"}
       THEN totSeg' = 0 /\ curSeg' = 0
       ELSE UNCHANGED <<totSeg, curSeg>>
    /\ dlPc' = IF dlPc = "clearReply" /\ mh = "AW_REPLY_16" THEN "master" ELSE "wait"
    /\ mh' = CASE dlPc = "clearReply"                         -> "AW_REPLY_16"
               [] dlPc = "clearWrite"                         -> "AW_REPLY_9"
               [] dlPc = "clearMessage" /\ mh = "GETOD_7"     -> "AW_REPLY_9"
               [] dlPc = "clearMessage" /\ mh = "OPERATE_12"  -> "RESPONSE_15"
               [] dlPc = "clearMessage" /\ mh = "AW_REPLY_16" -> "AW_REPLY_16"
    /\ UNCHANGED <<modeVars, retry, dataAddr, od, evFlag, isduReq, elapsed, msg, served,
                   boundVars, mbox, alState, alSvc, alData, alLen>>

(* The ISDU response time passes. *)
IsduTimer ==
    /\ isdu = "ISDUWAIT_3" /\ dlPc \notin Clears
    /\ ~elapsed
    /\ elapsed' = TRUE
    /\ UNCHANGED <<modeVars, mh, retry, rwcmd, dataAddr, evFlag, od, isdu, isduReq, totSeg,
                   curSeg, msg, dlPc, served, boundVars, mbox, alState, alSvc, alData, alLen>>

-----------------------------------------------------------------------------
(* Mode handler.                                                           *)

(* IH_Conf(INACTIVE): a transfer that waits to start, or that the loss of  *)
(* communication interrupts, is confirmed; one interrupted by a change of  *)
(* mode keeps its state, and one already in the error state is forgotten.  *)
IhInactiveConfirms ==
    \/ isdu = "IDLE_1" /\ totSeg # 0
    \/ isdu \in {"ISDUREQUEST_2", "ISDUWAIT_3", "ISDURESPONSE_5"} /\ mhinfo = "COMLOST"
    \/ isdu = "ISDUWAIT_3" /\ elapsed

IhInactive ==
    /\ isdu' = IF IhInactiveConfirms \/ isdu \in {"IDLE_1", "ISDUERROR_4"}
               THEN "INACTIVE_0" ELSE isdu
    /\ totSeg' = IF IhInactiveConfirms THEN 0 ELSE totSeg
    /\ UNCHANGED <<isduReq, curSeg, elapsed>>

IhInactiveCnf ==
    IF IhInactiveConfirms THEN <<DlCnf("ISDU_CNF", "ERR", "none")>> ELSE <<>>

(* The confirmation is posted in a step of its own. *)
ConfirmsFirst == Parallel /\ IhInactiveConfirms

(* IH_Conf(ACTIVE) *)
IhActive ==
    /\ isdu' = CASE isdu = "INACTIVE_0"                 -> "IDLE_1"
                 [] isdu = "ISDUWAIT_3" /\ elapsed      -> "ISDUERROR_4"
                 [] OTHER                               -> isdu
    /\ totSeg' = IF isdu = "INACTIVE_0" THEN 0 ELSE totSeg
    /\ curSeg' = IF isdu = "INACTIVE_0" THEN 0 ELSE curSeg
    /\ UNCHANGED <<isduReq, elapsed>>

NotOfMode == <<retry, rwcmd, dataAddr, evFlag, msg, served, boundVars,
               alState, alSvc, alData, alLen>>

ModeStep ==
    /\ mdhEv
    /\ dlPc = "wait"
    /\ UNCHANGED <<NotOfMode, dlPc>>

(* mode_h_sm_idle0: the wake-up request is handed to the transceiver. *)
ModeIdle ==
    /\ ModeStep
    /\ mdh = "IDLE_0"
    /\ mdh' = IF dlMode = "STARTUP" THEN "ESTCOM_1" ELSE mdh
    /\ mdhEv' = FALSE
    /\ UNCHANGED <<dlMode, mhinfo, mh, od, isduVars, mbox>>

(* mode_h_sm_establish_com1: nothing to do, the event is consumed. *)
ModeEstCom ==
    /\ ModeStep
    /\ mdh = "ESTCOM_1"
    /\ mdhEv' = FALSE
    /\ UNCHANGED <<mdh, dlMode, mhinfo, mh, od, isduVars, mbox>>

(* goto_idle, from STARTUP_2 or OPERATE_4.  A message handler in the middle *)
(* of a parameter write does not notice; one in the cycle raises another    *)
(* mode handler event beside the one that may be pending.                   *)
GotoIdle(mode, cnf, pending) ==
    /\ od' = "INACTIVE_0"
    /\ IhInactive
    /\ IF mh \in {"AW_REPLY_16", "RESPONSE_15", "OPERATE_12"}
       THEN mh' = "INACTIVE_0" /\ mdhEv' = TRUE
       ELSE mh' = mh /\ mdhEv' = pending
    /\ mhinfo' = "NONE"
    /\ mdh' = "IDLE_0"
    /\ mbox' = mbox \o cnf \o
               <<Signal(IF mode = "COMLOST" THEN "MODE_COMLOST" ELSE "MODE_INACTIVE")>>
    /\ UNCHANGED dlMode

(* goto_startup, from OPERATE_4 *)
GotoStartup(cnf, pending) ==
    /\ od' = "INACTIVE_0"
    /\ IhInactive
    /\ mh' = IF mh \in {"AW_REPLY_16", "RESPONSE_15", "OPERATE_12"} THEN "STARTUP_2" ELSE mh
    /\ mdh' = "STARTUP_2"
    /\ mdhEv' = pending
    /\ mbox' = mbox \o cnf \o <<Signal("MODE_STARTUP")>>
    /\ UNCHANGED <<dlMode, mhinfo>>

(* Why the mode handler leaves its state: a request, or a loss. *)
Leave == CASE dlMode = "INACTIVE"                           -> "leaveInactive"
           [] dlMode = "STARTUP" /\ mdh = "OPERATE_4"       -> "leaveStartup"
           [] dlMode = "STARTUP" /\ mdh = "STARTUP_2"       -> "leaveComlost"
           [] dlMode = "OPERATE"                            -> "leaveComlost"

(* The first half of goto_idle and goto_startup, and the second. *)
ModeConfirm ==
    /\ mdhEv /\ dlPc = "wait"
    /\ ConfirmsFirst
    /\ mdh = "OPERATE_4" \/ (mdh = "STARTUP_2" /\ dlMode # "OPERATE")
    /\ Leave = "leaveComlost" => mhinfo = "COMLOST"
    /\ Post(DlCnf("ISDU_CNF", "ERR", "none"))
    /\ dlPc' = Leave
    /\ mdhEv' = FALSE
    /\ UNCHANGED <<NotOfMode, mdh, dlMode, mhinfo, mh, od, isduVars>>

ModeLeave ==
    /\ \/ dlPc = "leaveStartup"  /\ GotoStartup(<<>>, mdhEv)
       \/ dlPc = "leaveInactive" /\ GotoIdle("INACTIVE", <<>>, mdhEv)
       \/ dlPc = "leaveComlost"  /\ GotoIdle("COMLOST", <<>>, mdhEv)
    /\ dlPc' = "wait"
    /\ UNCHANGED NotOfMode

(* mode_h_sm_startup2 *)
ModeStartup ==
    /\ ModeStep
    /\ mdh = "STARTUP_2"
    /\ \/ /\ dlMode = "OPERATE"
          /\ od' = "ISDU_1"
          /\ IhActive
          /\ mh' = IF mh = "STARTUP_2" THEN "OPERATE_12" ELSE mh
          /\ mdh' = "OPERATE_4"
          /\ mdhEv' = FALSE
          /\ Post(Signal("MODE_OPERATE"))
          /\ UNCHANGED <<dlMode, mhinfo>>
       \/ /\ dlMode = "INACTIVE" /\ ~ConfirmsFirst
          /\ GotoIdle("INACTIVE", IhInactiveCnf, FALSE)
       \/ /\ dlMode = "STARTUP" /\ mhinfo = "COMLOST" /\ ~ConfirmsFirst
          /\ GotoIdle("COMLOST", IhInactiveCnf, FALSE)
       \/ /\ dlMode = "STARTUP" /\ mhinfo # "COMLOST"
          /\ mdhEv' = FALSE
          /\ UNCHANGED <<mdh, dlMode, mhinfo, mh, od, isduVars, mbox>>

(* mode_h_sm_operate4 *)
ModeOperate ==
    /\ ModeStep
    /\ mdh = "OPERATE_4"
    /\ \/ /\ dlMode = "STARTUP" /\ ~ConfirmsFirst
          /\ GotoStartup(IhInactiveCnf, FALSE)
       \/ /\ dlMode = "INACTIVE" /\ ~ConfirmsFirst
          /\ GotoIdle("INACTIVE", IhInactiveCnf, FALSE)
       \/ /\ dlMode = "OPERATE" /\ mhinfo = "COMLOST" /\ ~ConfirmsFirst
          /\ GotoIdle("COMLOST", IhInactiveCnf, FALSE)
       \/ /\ dlMode = "OPERATE" /\ mhinfo # "COMLOST"
          /\ mdhEv' = FALSE
          /\ UNCHANGED <<mdh, dlMode, mhinfo, mh, od, isduVars, mbox>>

(* iolink_dl_wurq_recv: the device answered the wake-up, or not. *)
DlWurq ==
    /\ mdh = "ESTCOM_1"
    /\ dlPc = "wait"
    /\ \/ /\ mdh' = "STARTUP_2"
          /\ mh' = "STARTUP_2"
          /\ Post(Signal("MODE_STARTUP"))
          /\ UNCHANGED <<mhinfo, errs>>
       \/ /\ RxError
          /\ mdh' = "IDLE_0"
          /\ mhinfo' = "NONE"
          /\ Post(Signal("MODE_INACTIVE"))
          /\ UNCHANGED mh
    /\ UNCHANGED <<dlMode, mdhEv, retry, rwcmd, dataAddr, evFlag, od, isduVars, msg, dlPc,
                   served, evs, alState, alSvc, alData, alLen>>

(* await_reply4 and error_handling5: the direct parameter exchange of the  *)
(* start-up, all its reads and writes folded into one.                     *)
DlStartupReply ==
    /\ mh = "STARTUP_2"
    /\ rwcmd = "READ"
    /\ dlPc = "wait"
    /\ rwcmd' = "NONE"
    /\ \/ /\ Post(DlCnf("DL_READ_CNF", "OK", "none"))
          /\ UNCHANGED <<mhinfo, mdhEv, mh, errs>>
       \/ /\ RxError
          /\ Post(DlCnf("DL_READ_CNF", "ERR", "none"))
          /\ mhinfo' = "COMLOST" /\ mdhEv' = TRUE /\ mh' = "INACTIVE_0"
    /\ UNCHANGED <<mdh, dlMode, retry, dataAddr, evFlag, od, isduVars, msg, dlPc, served,
                   evs, alState, alSvc, alData, alLen>>

DlCycle ==
    \/ DlReply \/ DlNextMessage \/ DlSendWriteParam \/ DlComLost
    \/ DlReply9 \/ DlGetOd7 \/ DlErrorHandling10 \/ DlFirstMessage \/ DlClear

DlModeHandler ==
    ModeIdle \/ ModeEstCom \/ ModeStartup \/ ModeOperate \/ ModeConfirm \/ ModeLeave

DlThread ==
    \/ DlCycle \/ DlRxError16 \/ DlRxError9
    \/ DlModeHandler
    \/ DlWurq \/ DlStartupReply
=============================================================================

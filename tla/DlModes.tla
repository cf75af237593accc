------------------------------- MODULE DlModes -------------------------------
(***************************************************************************)
(* The data link layer of one port (iolink_dl.c) as the system management  *)
(* and the application layer see it: the mode handler, and of the message, *)
(* OD, command and ISDU handlers as much as decides who gets an answer.    *)
(* The main thread calls its requests; the DL thread runs the actions.     *)
(* Events, process data and DL_Control are not part of this model.         *)
(*                                                                         *)
(* A handler that confirms a service posts first and goes on afterwards,   *)
(* and no lock keeps the main thread from setting the next command in      *)
(* between; whether it gets to is a matter of the scheduling: Parallel.    *)
(***************************************************************************)
EXTENDS PortJobs

CONSTANT Parallel   \* the main thread may run beside the DL thread: FALSE on
                    \* one core with the DL thread at the higher priority,
                    \* TRUE with several cores

ASSUME ParallelAssumption == Parallel \in BOOLEAN

VARIABLES
    dl,         \* the handlers of iolink_dl_t
    linked      \* the device answers (external)

dlVars == <<dl, linked>>

(* What a handler still has to do when it has posted: to clear the command *)
(* of an ISDU or of a parameter, or, for the mode handler that confirmed   *)
(* an interrupted ISDU, to go where it was told.  On one core it has done  *)
(* that before anybody sees it.                                            *)
Clears == {"isdu", "param"}
Leaves == {"MODE_INACTIVE", "MODE_COMLOST", "MODE_STARTUP"}
Lefts  == {"none"} \cup (IF Parallel THEN Clears \cup Leaves ELSE {})

(* "STRAY" is a message handler that was told STARTUP in the middle of a   *)
(* PREOPERATE exchange: it repeats the exchange and takes no requests.     *)
DlRecord ==
    [mdh  : {"IDLE", "ESTCOM", "STARTUP", "PREOPERATE", "OPERATE"},
     mode : {"INACTIVE", "STARTUP", "PREOPERATE", "OPERATE"},   \* dl_mode, set by the SM
     lost : BOOLEAN,                                            \* mhinfo is COMLOST
     event : BOOLEAN,                                           \* IOLINK_DL_EVENT_MDH
     late : BOOLEAN,                                            \* a message came in since then
     wurq : BOOLEAN,                                            \* a wake-up is under way
     mh   : {"INACTIVE", "STARTUP", "PREOPERATE", "OPERATE", "STRAY"},
     rw   : {"none", "read", "write", "param", "isdu"},         \* rwcmd
     odh  : {"INACTIVE", "ISDU", "COMMAND"},
     isdu : BOOLEAN,                                            \* a service is in the ISDU handler
     left : Lefts,                                              \* what is left of a handler
     cmdh : {"INACTIVE", "IDLE", "COMMAND"},
     chActive : BOOLEAN,                                        \* chcmd
     code : BOOLEAN,                                            \* control_code is DEVICEMODE
     cmd  : {"NONE", "OPERATE", "FALLBACK"}]                    \* master_command

DlTypeOK == dl \in DlRecord /\ linked \in BOOLEAN

DlInit ==
    /\ dl = [mdh |-> "IDLE", mode |-> "INACTIVE", lost |-> FALSE, event |-> FALSE,
             late |-> FALSE, wurq |-> FALSE, mh |-> "INACTIVE", rw |-> "none",
             odh |-> "INACTIVE", isdu |-> FALSE, left |-> "none",
             cmdh |-> "INACTIVE", chActive |-> FALSE, code |-> FALSE, cmd |-> "NONE"]
    /\ linked = FALSE

(* Confirmations of the DL. *)
BlockCnf(rw, block, res, snap) ==
    Cnf(IF rw = "read" THEN "DL_READ_CNF" ELSE "DL_WRITE_CNF", block, res, snap)
DevmodeCnf(res) == Cnf("DEVMODE_CNF", "CMD", res, NoSnap)
ParamCnf(res)   == Cnf("PARAM_CNF", "CYCL", res, NoSnap)
IsduCnf(res, snap) == Cnf("ISDU_CNF", "CMD", res, snap)

-----------------------------------------------------------------------------
(* One call of a handler, as a function of the record.                     *)

(* iolink_dl_cmd_h_sm *)
CmdHandler(d) ==
    CASE d.cmdh = "INACTIVE" /\ d.chActive         -> [d EXCEPT !.cmdh = "IDLE"]
      [] d.cmdh = "IDLE" /\ ~d.chActive            -> [d EXCEPT !.cmdh = "INACTIVE"]
      [] d.cmdh = "IDLE" /\ d.chActive /\ d.code   -> [d EXCEPT !.cmdh = "COMMAND"]
      [] d.cmdh = "COMMAND"                        -> [d EXCEPT !.cmdh = "IDLE", !.code = FALSE]
      [] OTHER                                     -> d

CH_Conf(d, active) == CmdHandler([d EXCEPT !.chActive = active])

(* iolink_dl_od_h_sm for IOL_OHCMD_INACTIVE; COMMAND_2 is not left.        *)
OH_ConfInactive(d) ==
    CASE d.odh = "ISDU"    -> [d EXCEPT !.odh = "INACTIVE"]
      [] d.odh = "COMMAND" -> [d EXCEPT !.cmdh = "INACTIVE"]
      [] OTHER             -> d

(* The command before last is confirmed when COMMAND_2 outlived it.        *)
CommandSettled(d) == d.odh = "COMMAND" /\ ~d.code

OH_ConfActive(d) ==
    CASE d.odh = "INACTIVE"  -> [d EXCEPT !.odh = "ISDU"]
      [] CommandSettled(d)   -> [d EXCEPT !.odh = "ISDU", !.cmd = "NONE"]
      [] OTHER               -> d

Settled(d) == IF CommandSettled(d) /\ d.cmd # "NONE" THEN <<DevmodeCnf("OK")>> ELSE <<>>

(* IH_Conf for IOL_IHCMD_INACTIVE: the ISDU handler lets go of its service.*)
IH_ConfInactive(d) == [d EXCEPT !.isdu = FALSE]
IsduFailed(d) == IF d.isdu THEN <<IsduCnf("ERR", NoSnap)>> ELSE <<>>

(* In PREOPERATE the message handler only exchanges what was asked for;    *)
(* it does not see a service whose command was overwritten.                *)
Busy(d) ==
    \/ d.rw = "param"
    \/ d.rw = "isdu" /\ (d.isdu \/ d.left # "none")
    \/ d.cmd = "OPERATE" /\ d.odh = "ISDU"
    \/ CommandSettled(d)

(* MH_Conf for IOL_MHCMD_INACTIVE and IOL_MHCMD_STARTUP *)
MH_ConfInactive(d) ==
    IF d.mh = "OPERATE" \/ (d.mh = "PREOPERATE" /\ ~Busy(d))
    THEN [d EXCEPT !.mh = "INACTIVE", !.event = TRUE]
    ELSE d

MH_ConfStartup(d) ==
    CASE d.mh = "OPERATE"                   -> [d EXCEPT !.mh = "STARTUP"]
      [] d.mh = "PREOPERATE" /\ ~Busy(d)    -> [d EXCEPT !.mh = "STARTUP"]
      [] d.mh = "PREOPERATE" /\ Busy(d)     -> [d EXCEPT !.mh = "STRAY"]
      [] OTHER                              -> d

(* MH_Conf for IOL_MHCMD_OPERATE and IOL_MHCMD_PREOPERATE *)
MH_ConfOperate(d) ==
    IF d.mh \in {"STARTUP", "PREOPERATE"} THEN [d EXCEPT !.mh = "OPERATE"] ELSE d
MH_ConfPreoperate(d) ==
    IF d.mh = "STARTUP" THEN [d EXCEPT !.mh = "PREOPERATE"] ELSE d

-----------------------------------------------------------------------------
(* Requests, called by the main thread.                                    *)

DL_SetMode_req(d, mode) == [d EXCEPT !.mode = mode, !.event = TRUE]

(* DL_ReadWrite_req: refused at once unless the message handler waits for  *)
(* a request in STARTUP_2.                                                 *)
BlockAccepted(d) == d.mh = "STARTUP" /\ d.rw \notin {"read", "write"}
DL_ReadWrite_req(d, rw) == IF BlockAccepted(d) THEN [d EXCEPT !.rw = rw] ELSE d

(* DL_WriteParam_req: the command is left set even when it is refused; in  *)
(* the cycle of OPERATE it is, but for the time between two messages.      *)
ParamAnswers(d) ==
    IF d.mh = "OPERATE" THEN BOOLEAN ELSE {d.mh = "PREOPERATE" /\ ~Busy(d)}
DL_WriteParam_req(d) == [d EXCEPT !.rw = "param"]

(* DL_ISDUTransport_req: refused unless the ISDU handler is idle, which it *)
(* is again when the last transfer has been cleared.  One that the mode    *)
(* handler is stopping may or may not be.                                  *)
IsduAccepted(d) == d.mdh \in {"PREOPERATE", "OPERATE"} /\ ~d.isdu /\ d.left # "isdu"
IsduAnswers(d)  == {IsduAccepted(d)} \cup (IF d.left \in Leaves THEN {FALSE} ELSE {})
DL_ISDUTransport_req(d) == [d EXCEPT !.isdu = TRUE, !.rw = "isdu"]

(* DL_Write_Devicemode_req: refused in STARTUP, and answered before it was *)
(* sent when it is FALLBACK in PREOPERATE.  Setting the code and calling   *)
(* the command handler are one step here; ProcessData has them apart.      *)
DL_Write_Devicemode_req(d, cmd) ==
    IF d.mdh = "STARTUP" THEN d ELSE CmdHandler([d EXCEPT !.cmd = cmd, !.code = TRUE])
DevmodeAnswer(d, cmd) ==
    CASE d.mdh = "STARTUP"                          -> <<DevmodeCnf("ERR")>>
      [] d.mdh = "PREOPERATE" /\ cmd = "FALLBACK"   -> <<DevmodeCnf("OK")>>
      [] OTHER                                      -> <<>>

-----------------------------------------------------------------------------
(* iolink_dl_mode_h_sm, for IOLINK_DL_EVENT_MDH.                           *)

Handled == [dl EXCEPT !.event = FALSE, !.late = FALSE]

DlPost(d, posts) == dl' = d /\ mbox' = mbox \o posts

(* The ends of iolink_dl_mode_h_sm_goto_idle and of _goto_startup. *)
InIdle(d) ==
    [MH_ConfInactive(CH_Conf(d, FALSE)) EXCEPT !.lost = FALSE, !.mdh = "IDLE", !.left = "none"]
InStartup(d) == [MH_ConfStartup(d) EXCEPT !.mdh = "STARTUP", !.left = "none"]

(* The interrupted ISDU is confirmed before the mode handler goes on. *)
Interrupts(d) == Parallel /\ d.isdu
Interrupt(d, mode) == DlPost([IH_ConfInactive(OH_ConfInactive(d)) EXCEPT !.left = mode], IsduFailed(d))

(* iolink_dl_mode_h_sm_goto_idle *)
GotoIdle(d, mode) ==
    \/ Interrupts(d) /\ Interrupt(d, mode)
    \/ /\ ~Interrupts(d)
       /\ DlPost(InIdle(IH_ConfInactive(OH_ConfInactive(d))), IsduFailed(d) \o <<Signal(mode)>>)

(* iolink_dl_mode_h_sm_goto_startup *)
GotoStartup(d) ==
    \/ Interrupts(d) /\ Interrupt(d, "MODE_STARTUP")
    \/ /\ ~Interrupts(d)
       /\ DlPost(IH_ConfInactive(OH_ConfInactive(InStartup(d))),
                 IsduFailed(d) \o <<Signal("MODE_STARTUP")>>)

(* The rest of either; a service accepted meanwhile is dropped.            *)
Leave ==
    /\ dl.left \in Leaves
    /\ LET d == IH_ConfInactive(dl)
       IN  DlPost(IF dl.left = "MODE_STARTUP" THEN InStartup(d) ELSE InIdle(d), <<Signal(dl.left)>>)
    /\ UNCHANGED linked

(* iolink_dl_mode_h_sm_goto_operate *)
GotoOperate(d, posts) ==
    DlPost([MH_ConfOperate(d) EXCEPT !.mdh = "OPERATE"], posts \o <<Signal("MODE_OPERATE")>>)

Idle0 ==
    /\ dl.mdh = "IDLE"
    /\ IF dl.mode = "STARTUP" /\ ~dl.wurq
       THEN DlPost([Handled EXCEPT !.mdh = "ESTCOM", !.wurq = TRUE], <<>>)
       ELSE DlPost(Handled, <<>>)

EstablishCom1 == dl.mdh = "ESTCOM" /\ DlPost(Handled, <<>>)

Startup2 ==
    /\ dl.mdh = "STARTUP"
    /\ \/ /\ dl.mode = "PREOPERATE"
          /\ DlPost([MH_ConfPreoperate(OH_ConfActive(Handled)) EXCEPT !.mdh = "PREOPERATE"],
                    Settled(dl) \o <<Signal("MODE_PREOPERATE")>>)
       \/ dl.mode = "OPERATE" /\ GotoOperate(OH_ConfActive(Handled), Settled(dl))
       \/ dl.mode = "INACTIVE" /\ GotoIdle(Handled, "MODE_INACTIVE")
       \/ dl.mode = "STARTUP" /\ dl.lost /\ GotoIdle(Handled, "MODE_COMLOST")
       \/ dl.mode = "STARTUP" /\ ~dl.lost /\ DlPost(Handled, <<>>)

(* A port that is deactivated here stays in PREOPERATE, and a loss of      *)
(* communication is not looked at then.                                    *)
Preoperate3 ==
    /\ dl.mdh = "PREOPERATE"
    /\ \/ dl.mode = "STARTUP" /\ GotoStartup(CH_Conf(Handled, FALSE))
       \/ dl.mode = "INACTIVE" /\ DlPost(MH_ConfOperate(Handled), <<>>)
       \/ dl.mode \in {"PREOPERATE", "OPERATE"} /\ dl.lost /\ GotoIdle(Handled, "MODE_COMLOST")
       \/ dl.mode = "OPERATE" /\ ~dl.lost /\ GotoOperate(Handled, <<>>)
       \/ dl.mode = "PREOPERATE" /\ ~dl.lost /\ DlPost(Handled, <<>>)

Operate4 ==
    /\ dl.mdh = "OPERATE"
    /\ \/ dl.mode = "STARTUP" /\ GotoStartup(Handled)
       \/ dl.mode = "INACTIVE" /\ GotoIdle(Handled, "MODE_INACTIVE")
       \/ dl.mode \in {"PREOPERATE", "OPERATE"} /\ dl.lost /\ GotoIdle(Handled, "MODE_COMLOST")
       \/ dl.mode \in {"PREOPERATE", "OPERATE"} /\ ~dl.lost /\ DlPost(Handled, <<>>)

ModeHandler ==
    /\ dl.event /\ dl.left = "none"
    /\ Idle0 \/ EstablishCom1 \/ Startup2 \/ Preoperate3 \/ Operate4
    /\ UNCHANGED linked

-----------------------------------------------------------------------------
(* What the transceiver and the messages bring (DL thread).                *)

(* A turn of dl_main looks at the transceiver first and at the mode event  *)
(* after that; the next message takes far longer than a turn.              *)
MayReceive  == ~(dl.event /\ dl.late) /\ dl.left = "none"
Received(d) == [d EXCEPT !.late = d.event]

(* A transfer is confirmed first, and its command cleared afterwards,      *)
(* whatever command it is by then.                                         *)
Confirmed(d, what) ==
    IF Parallel THEN [d EXCEPT !.left = what] ELSE [d EXCEPT !.rw = "none"]

DlClear ==
    /\ dl.left \in Clears
    /\ dl' = [dl EXCEPT !.left = "none", !.rw = "none"]
    /\ UNCHANGED <<mbox, linked>>

(* iolink_dl_wurq_recv; the message handler confirms a read nobody asked   *)
(* for.  "addr" is the address the SM kept (sm->dl_addr).                  *)
WakeUp(addr) ==
    /\ dl.wurq /\ dl.left = "none"
    /\ DlPost(CH_Conf([Received(dl) EXCEPT !.wurq = FALSE, !.mdh = "STARTUP", !.mh = "STARTUP"], TRUE),
              <<BlockCnf("read", addr, "OK", NoSnap), Signal("MODE_STARTUP")>>)
    /\ linked' = TRUE

WakeUpFailed ==
    /\ dl.wurq /\ dl.left = "none"
    /\ DlPost([Received(dl) EXCEPT !.wurq = FALSE, !.mdh = "IDLE", !.lost = FALSE],
              <<Signal("MODE_INACTIVE")>>)
    /\ linked' = FALSE

(* iolink_dl_message_h_sm_await_reply4: the block is read or written. *)
BlockDone(addr, snap) ==
    /\ dl.mh = "STARTUP" /\ dl.rw \in {"read", "write"} /\ linked /\ MayReceive
    /\ DlPost([Received(dl) EXCEPT !.rw = "none"], <<BlockCnf(dl.rw, addr, "OK", snap)>>)
    /\ UNCHANGED linked

(* The OD handler in a message that can carry on-request data. *)
OdExchange == linked /\ dl.mh \in {"PREOPERATE", "OPERATE"} /\ MayReceive

ParamDone ==
    /\ OdExchange /\ dl.rw = "param" /\ dl.odh = "ISDU"
    /\ DlPost(Confirmed(Received(dl), "param"), <<ParamCnf("OK")>>)
    /\ UNCHANGED linked

(* iolink_dl_od_h_sm_isdu1: the command goes into the next message. *)
CommandSent ==
    /\ dl.odh = "ISDU" /\ dl.code
    /\ dl.mh = "OPERATE" \/ (dl.mh = "PREOPERATE" /\ Busy(dl))
    /\ MayReceive
    /\ dl' = [CmdHandler(Received(dl)) EXCEPT !.odh = "COMMAND"]
    /\ UNCHANGED <<mbox, linked>>

(* iolink_dl_od_h_sm_command2, write_master_command; after FALLBACK the    *)
(* device is silent.                                                       *)
CommandDone ==
    /\ OdExchange /\ CommandSettled(dl)
    /\ DlPost([Received(dl) EXCEPT !.odh = "ISDU", !.cmd = "NONE"], Settled(dl))
    /\ linked' = (dl.cmd # "FALLBACK")

(* iolink_dl_mh_handle_com_lost and T11: the message handler gives up.     *)
GaveUp == [dl EXCEPT !.mh = "INACTIVE", !.lost = TRUE, !.event = TRUE, !.rw = "none"]

(* A mutant of StartupLost: the block that failed is not confirmed. *)
StartupLostSilent(addr) == dl.mh = "STARTUP" /\ dl.rw \in {"read", "write"} /\ DlPost(GaveUp, <<>>)

StartupLost(addr) ==
    /\ dl.mh = "STARTUP" /\ dl.rw \in {"read", "write"}
    /\ DlPost(GaveUp, <<BlockCnf(dl.rw, addr, "ERR", NoSnap)>>)

(* iolink_dl_message_h_sm_error_handling10 and iolink_dl_mh_handle_com_lost: *)
(* a command set between the confirmation and the clearing is lost as one   *)
(* set just before it is.                                                   *)
ExchangeLost ==
    /\ \/ dl.mh = "PREOPERATE" /\ Busy(dl)
       \/ dl.mh = "STRAY"
       \/ dl.mh = "OPERATE" /\ dl.rw = "param"
    /\ DlPost([GaveUp EXCEPT !.cmd = "NONE"],
              (IF dl.cmd # "NONE" THEN <<DevmodeCnf("ERR")>> ELSE <<>>)
              \o (IF dl.rw = "param" THEN <<ParamCnf("ERR")>> ELSE <<>>))

(* The cycle of OPERATE, with nothing or with a command not yet sent. *)
CycleLost == dl.mh = "OPERATE" /\ DlPost(GaveUp, <<>>)

MessageLost(addr) ==
    /\ ~linked /\ dl.left = "none"
    /\ StartupLost(addr) \/ ExchangeLost \/ CycleLost
    /\ UNCHANGED linked
=============================================================================
